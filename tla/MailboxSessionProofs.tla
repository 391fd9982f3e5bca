-------------------------- MODULE MailboxSessionProofs --------------------------
(***************************************************************************)
(* TypeOK and ExistsMatchesList hold in every reachable state, for every   *)
(* value of the constants; SavedUidNextGrows does for every value but one: *)
(* a server that numbers changes has a mailbox which is not made anew.     *)
(***************************************************************************)
EXTENDS MailboxSession, FiniteSetTheorems, WellFoundedInduction, TLAPS

-----------------------------------------------------------------------------
(* What the operators of MailboxTree on lists of messages return, for lists *)
(* of any length, with UIDs up to any n.                                    *)

\* A property that holds somewhere holds somewhere first.
LEMMA LeastNat ==
    ASSUME NEW S \in SUBSET Nat, S # {}
    PROVE  \E k \in S : \A j \in S : k <= j
<1>1. IsWellFoundedOn(OpToRel(<, Nat), Nat)
    BY NatLessThanWellFounded
<1>2. PICK k \in S : \A j \in S : <<j, k>> \notin OpToRel(<, Nat)
    BY <1>1, WFMin
<1>3. ASSUME NEW j \in S, j < k PROVE FALSE
    <2>1. <<j, k>> \in OpToRel(<, Nat)
        BY <1>3 DEF OpToRel
    <2> QED
        BY <1>2, <2>1
<1> QED
    BY <1>3

\* A bounded one also holds somewhere last.
LEMMA GreatestNat ==
    ASSUME NEW n \in Nat, NEW S \in SUBSET (0 .. n), S # {}
    PROVE  \E k \in S : \A j \in S : j <= k
<1> DEFINE T == {n - j : j \in S}
<1>1. T \in SUBSET Nat
    <2>1. \A j \in S : n - j \in Nat
        OBVIOUS
    <2> QED
        BY <2>1
<1>2. T # {}
    OBVIOUS
<1>3. PICK m \in T : \A i \in T : m <= i
    BY <1>1, <1>2, LeastNat
<1>4. PICK k \in S : m = n - k
    OBVIOUS
<1>5. \A j \in S : j <= k
    <2>1. TAKE j \in S
    <2>2. n - j \in T
        OBVIOUS
    <2>3. n - k <= n - j
        BY <1>3, <1>4, <2>2
    <2> QED
        BY <2>3
<1> QED
    BY <1>5

-----------------------------------------------------------------------------
Messages(n) == [uid: 0 .. n, flags: Nat, handled: BOOLEAN]

\* A function on 1 .. n is a sequence of length n.
LEMMA SeqOfRange ==
    ASSUME NEW S, NEW n \in Nat, NEW f \in [1 .. n -> S]
    PROVE  f \in Seq(S) /\ Len(f) = n
OBVIOUS

\* Sync states stay sync states.
LEMMA SyncStateType ==
    ASSUME NEW ss \in SyncState, NEW n \in Nat
    PROVE  /\ setExists(ss, n) \in SyncState /\ setExists(ss, n).exists = n
           /\ setUidNext(ss, n) \in SyncState
           /\ setUidNext(ss, n).exists = ss.exists
           /\ setUidValidity(ss, n) \in SyncState
           /\ setUidValidity(ss, n).exists = ss.exists
           /\ setHighestModSeq(ss, n) \in SyncState
           /\ setHighestModSeq(ss, n).exists = ss.exists
           /\ Reloaded(ss) \in SyncState
           /\ NoSyncState \in SyncState
BY DEF SyncState, Fields, setExists, setUidNext, setUidValidity,
       setHighestModSeq, Reloaded, NoSyncState

\* The list is one shorter after EXPUNGE.
LEMMA RemoveRowType ==
    ASSUME NEW S, NEW s \in Seq(S), NEW k \in 1 .. Len(s)
    PROVE  RemoveRow(s, k) \in Seq(S) /\ Len(RemoveRow(s, k)) = Len(s) - 1
<1>1. \A i \in 1 .. Len(s) - 1 : (IF i < k THEN s[i] ELSE s[i + 1]) \in S
    OBVIOUS
<1>2. RemoveRow(s, k) \in [1 .. Len(s) - 1 -> S]
    BY <1>1 DEF RemoveRow
<1> QED
    BY <1>2, SeqOfRange

\* The items of a list are messages.
LEMMA ItemType ==
    ASSUME NEW n \in Nat, NEW s \in Seq(Messages(n)), NEW i \in 1 .. Len(s)
    PROVE  /\ s[i] \in Messages(n) /\ s[i].uid \in 0 .. n /\ s[i].flags \in Nat
           /\ s[i].handled \in BOOLEAN
<1>1. s[i] \in Messages(n)
    OBVIOUS
<1> QED
    BY <1>1 DEF Messages

\* EXISTS makes it as long as it says, and nothing else changes its length.
LEMMA ListTypes ==
    ASSUME NEW n \in Nat, NEW s \in Seq(Messages(n)), NEW k \in Nat
    PROVE  /\ PadTo(s, k) \in Seq(Messages(n))
           /\ Len(PadTo(s, k)) = Larger(k, Len(s))
           /\ Fresh(k) \in Seq(Messages(n)) /\ Len(Fresh(k)) = k
           /\ AllHandled(s) \in Seq(Messages(n)) /\ Len(AllHandled(s)) = Len(s)
           /\ UidsOf(s) \in Seq(0 .. n) /\ Len(UidsOf(s)) = Len(s)
<1>1. NewMessage \in Messages(n)
    BY DEF NewMessage, Messages
<1>2. Larger(k, Len(s)) \in Nat
    BY DEF Larger
<1>3. PadTo(s, k) \in [1 .. Larger(k, Len(s)) -> Messages(n)]
    BY <1>1 DEF PadTo
<1>4. Fresh(k) \in [1 .. k -> Messages(n)]
    BY <1>1 DEF Fresh
<1>5. AllHandled(s) \in [1 .. Len(s) -> Messages(n)]
    <2>1. \A i \in 1 .. Len(s) : [s[i] EXCEPT !.handled = TRUE] \in Messages(n)
        BY ItemType DEF Messages
    <2> QED
        BY <2>1 DEF AllHandled
<1>6. UidsOf(s) \in [1 .. Len(s) -> 0 .. n]
    BY ItemType DEF UidsOf
<1>7. Len(s) \in Nat
    OBVIOUS
<1> QED
    BY <1>2, <1>3, <1>4, <1>5, <1>6, <1>7, SeqOfRange

\* HighestKnownUid() finds a UID of the list.
LEMMA HighestKnownUidType ==
    ASSUME NEW n \in Nat, NEW s \in Seq(Messages(n))
    PROVE  HighestKnownUid(s) \in 0 .. n
<1> DEFINE Known == {i \in 1 .. Len(s) : s[i].uid # 0}
           IsLast(i) == s[i].uid # 0 /\ \A j \in i + 1 .. Len(s) : s[j].uid = 0
<1>1. CASE Known = {}
    BY <1>1 DEF HighestKnownUid
<1>2. CASE Known # {}
    <2>1. Known \in SUBSET (0 .. Len(s))
        OBVIOUS
    <2>2. PICK k \in Known : \A j \in Known : j <= k
        <3>1. Len(s) \in Nat
            OBVIOUS
        <3> HIDE DEF Known
        <3> QED
            BY <1>2, <2>1, <3>1, GreatestNat
    <2>3. \E i \in 1 .. Len(s) : IsLast(i)
        BY <2>2
    <2>4. (CHOOSE i \in 1 .. Len(s) : IsLast(i)) \in 1 .. Len(s)
        BY <2>3
    <2>5. \A i \in 1 .. Len(s) : s[i].uid \in 0 .. n
        BY ItemType
    <2> QED
        BY <2>4, <2>5 DEF HighestKnownUid
<1> QED
    BY <1>1, <1>2

\* UIDNEXT may rise, EXISTS stays.
LEMMA UpdateHighestKnownUidType ==
    ASSUME NEW n \in Nat, NEW s \in Seq(Messages(n)), NEW ss \in SyncState
    PROVE  /\ updateHighestKnownUid(ss, s) \in SyncState
           /\ updateHighestKnownUid(ss, s).exists = ss.exists
<1>1. HighestKnownUid(s) \in Nat
    BY HighestKnownUidType
<1>2. Larger(ss.uidNext, HighestKnownUid(s) + 1) \in Nat
    BY <1>1 DEF Larger, SyncState
<1> QED
    BY <1>2, SyncStateType DEF updateHighestKnownUid

-----------------------------------------------------------------------------
\* findMessageOrNextOneByUid() finds a row or the place after the last one.
LEMMA FindMessageType ==
    ASSUME NEW n \in Nat, NEW s \in Seq(Messages(n)), NEW uid \in Nat
    PROVE  findMessageOrNextOneByUid(s, uid) \in 1 .. Len(s) + 1
<1> DEFINE Fits(k) == k <= Len(s) => s[k].uid # 0 /\ s[k].uid >= uid
           Rows == {k \in 1 .. Len(s) + 1 : Fits(k)}
           IsFound(k) == /\ Fits(k)
                         /\ \A j \in 1 .. k - 1 : s[j].uid = 0 \/ s[j].uid < uid
<1>1. Len(s) + 1 \in Rows
    OBVIOUS
<1>2. PICK k \in Rows : \A j \in Rows : k <= j
    <2>1. Rows \in SUBSET Nat /\ Rows # {}
        BY <1>1
    <2> HIDE DEF Rows
    <2> QED
        BY <2>1, LeastNat
<1>3. \A j \in 1 .. k - 1 : s[j].uid = 0 \/ s[j].uid < uid
    <2>1. TAKE j \in 1 .. k - 1
    <2>2. j \in 1 .. Len(s) /\ j \notin Rows
        BY <1>2
    <2>3. s[j].uid \in Nat
        BY <2>2, ItemType
    <2> QED
        BY <2>2, <2>3
<1>4. \E i \in 1 .. Len(s) + 1 : IsFound(i)
    BY <1>2, <1>3
<1>5. (CHOOSE i \in 1 .. Len(s) + 1 : IsFound(i)) \in 1 .. Len(s) + 1
    BY <1>4
<1> QED
    BY <1>5 DEF findMessageOrNextOneByUid

\* VANISHED of a UID takes a row of the list, or none.
LEMMA VanishedRowType ==
    ASSUME NEW n \in Nat, NEW s \in Seq(Messages(n)), NEW uid \in Nat
    PROVE  VanishedRow(s, uid) \in 0 .. Len(s)
<1> DEFINE found == Smaller(findMessageOrNextOneByUid(s, uid), Len(s))
<1>1. s # <<>> => found \in 1 .. Len(s)
    BY FindMessageType DEF Smaller
<1> QED
    BY <1>1 DEF VanishedRow

\* VANISHED takes rows of the list, and counts no UID that it did not name.
LEMMA VanishedTypes ==
    ASSUME NEW n \in Nat, NEW s \in Seq(Messages(n)), NEW uids \in SUBSET Nat,
           NEW earlier \in BOOLEAN
    PROVE  /\ VanishedRows(s, uids, earlier) \subseteq 1 .. Len(s)
           /\ VanishedUids(s, uids, earlier) \subseteq uids
<1>1. \A uid \in uids : VanishedRow(s, uid) \in 0 .. Len(s)
    BY VanishedRowType
<1> QED
    BY <1>1 DEF VanishedRows, VanishedUids

\* How many of the first rows are left grows by one at each row that is left.
LEMMA RowsLeft ==
    ASSUME NEW n \in Nat, NEW rows \in SUBSET (1 .. n)
    PROVE  /\ \A i \in 0 .. n : Cardinality((1 .. i) \ rows) \in Nat
           /\ Cardinality((1 .. 0) \ rows) = 0
           /\ \A i \in 1 .. n : Cardinality((1 .. i) \ rows) =
                IF i \in rows THEN Cardinality((1 .. i - 1) \ rows)
                ELSE Cardinality((1 .. i - 1) \ rows) + 1
           /\ Cardinality((1 .. n) \ rows) = n - Cardinality(rows)
           /\ n - Cardinality(rows) \in Nat
<1>1. \A i \in 0 .. n : IsFiniteSet((1 .. i) \ rows)
    <2>1. TAKE i \in 0 .. n
    <2>2. IsFiniteSet(1 .. i)
        BY FS_Interval
    <2> QED
        BY <2>2, FS_Difference
<1>2. \A i \in 0 .. n : Cardinality((1 .. i) \ rows) \in Nat
    BY <1>1, FS_CardinalityType
<1>3. Cardinality((1 .. 0) \ rows) = 0
    <2>1. (1 .. 0) \ rows = {}
        OBVIOUS
    <2> QED
        BY <2>1, FS_EmptySet
<1>4. ASSUME NEW i \in 1 .. n
      PROVE  Cardinality((1 .. i) \ rows) =
                IF i \in rows THEN Cardinality((1 .. i - 1) \ rows)
                ELSE Cardinality((1 .. i - 1) \ rows) + 1
    <2>1. CASE i \in rows
        <3>1. (1 .. i) \ rows = (1 .. i - 1) \ rows
            BY <2>1
        <3> QED
            BY <2>1, <3>1
    <2>2. CASE i \notin rows
        <3>1. (1 .. i) \ rows = ((1 .. i - 1) \ rows) \cup {i}
            BY <2>2
        <3>2. i \notin (1 .. i - 1) \ rows
            OBVIOUS
        <3>3. i - 1 \in 0 .. n
            OBVIOUS
        <3>4. IsFiniteSet((1 .. i - 1) \ rows)
            BY <1>1, <3>3
        <3> QED
            BY <2>2, <3>1, <3>2, <3>4, FS_AddElement
    <2> QED
        BY <2>1, <2>2
<1>5. /\ IsFiniteSet(1 .. n) /\ Cardinality(1 .. n) = n
      /\ IsFiniteSet(rows) /\ Cardinality(rows) \in Nat
    <2>1. IsFiniteSet(1 .. n) /\ Cardinality(1 .. n) = n
        BY FS_Interval
    <2> QED
        BY <2>1, FS_Subset, FS_CardinalityType
<1>6. Cardinality((1 .. n) \ rows) = n - Cardinality(rows)
    <2>1. (1 .. n) \cap rows = rows
        OBVIOUS
    <2>2. Cardinality((1 .. n) \ rows) = Cardinality(1 .. n) - Cardinality((1 .. n) \cap rows)
        BY <1>5, FS_Difference, Zenon
    <2> QED
        BY <1>5, <2>1, <2>2
<1>7. n \in 0 .. n
    OBVIOUS
<1>8. n - Cardinality(rows) \in Nat
    BY <1>2, <1>6, <1>7
<1> QED
    BY <1>2, <1>3, <1>4, <1>6, <1>8

\* Without a set of rows the list is that much shorter, and nothing is added.
LEMMA RemoveRowsType ==
    ASSUME NEW S, NEW s \in Seq(S), NEW rows \in SUBSET (1 .. Len(s))
    PROVE  RemoveRows(s, rows) \in Seq(S)
<1> DEFINE left(i) == Cardinality((1 .. i) \ rows)
           IsRow(i, k) == i \notin rows /\ left(i) = k
           m == Len(s) - Cardinality(rows)
           row(k) == CHOOSE i \in 1 .. Len(s) : IsRow(i, k)
<1>1. /\ \A i \in 0 .. Len(s) : left(i) \in Nat
      /\ left(0) = 0 /\ left(Len(s)) = m /\ m \in Nat
      /\ \A i \in 1 .. Len(s) :
            left(i) = IF i \in rows THEN left(i - 1) ELSE left(i - 1) + 1
    <2>1. Len(s) \in Nat
        OBVIOUS
    <2> QED
        BY <2>1, RowsLeft
<1> HIDE DEF left, m
<1>2. ASSUME NEW k \in 1 .. m
      PROVE  \E i \in 1 .. Len(s) : IsRow(i, k)
    <2> DEFINE Enough == {i \in 0 .. Len(s) : left(i) >= k}
    <2>1. Len(s) \in Enough
        BY <1>1
    <2>2. PICK i \in Enough : \A j \in Enough : i <= j
        <3>1. Enough \in SUBSET Nat /\ Enough # {}
            BY <2>1
        <3> HIDE DEF Enough
        <3> QED
            BY <3>1, LeastNat
    <2>3. i # 0
        BY <1>1
    <2>4. i - 1 \in 0 .. Len(s) /\ i - 1 \notin Enough
        BY <2>2, <2>3
    <2>5. left(i - 1) < k
        BY <1>1, <2>4
    <2>6. i \in 1 .. Len(s)
        BY <2>3
    <2>7. left(i) = k /\ i \notin rows
        BY <1>1, <2>4, <2>5, <2>6
    <2> QED
        BY <2>6, <2>7
<1>3. \A k \in 1 .. m : row(k) \in 1 .. Len(s)
    BY <1>2
<1>4. RemoveRows(s, rows) = [k \in 1 .. m |-> s[row(k)]]
    BY DEF RemoveRows, left, m
<1> HIDE DEF row
<1>5. \A k \in 1 .. m : s[row(k)] \in S
    BY <1>3
<1>6. RemoveRows(s, rows) \in [1 .. m -> S]
    BY <1>4, <1>5
<1> QED
    BY <1>1, <1>6, SeqOfRange

\* applyUids() leaves the rows that were known and one for each of the UIDs.
LEMMA ApplyUidsType ==
    ASSUME NEW n \in Nat, NEW s \in Seq(Messages(n)), NEW offset \in 0 .. Len(s),
           NEW uids \in Seq(1 .. n)
    PROVE  /\ applyUids(s, offset, uids) \in Seq(Messages(n))
           /\ Len(applyUids(s, offset, uids)) = offset + Len(uids)
<1> DEFINE item(i) == ItemFor(s, offset, uids, i)
           row(k) == IF k <= offset THEN s[k]
                     ELSE [item(k - offset) EXCEPT !.uid = uids[k - offset]]
           m == offset + Len(uids)
<1>1. ASSUME NEW i \in 1 .. Len(uids)
      PROVE  item(i) \in Messages(n)
    <2> DEFINE count == Cardinality({k \in 1 .. i : ~IsListed(s, offset, uids[k])})
               rows == {j \in offset + 1 .. Len(s) : IsUnknown(s, offset, j, count)}
    <2>1. item(i) = IF IsListed(s, offset, uids[i]) THEN s[RowOf(s, offset, uids[i])]
                    ELSE IF rows # {} THEN s[CHOOSE j \in rows : TRUE]
                    ELSE NewMessage
        BY DEF ItemFor
    <2>2. \A j \in offset + 1 .. Len(s) : s[j] \in Messages(n)
        OBVIOUS
    <2>3. CASE IsListed(s, offset, uids[i])
        <3>1. RowOf(s, offset, uids[i]) \in offset + 1 .. Len(s)
            BY <2>3 DEF IsListed, RowOf
        <3> QED
            BY <2>1, <2>2, <2>3, <3>1
    <2>4. CASE ~IsListed(s, offset, uids[i]) /\ rows # {}
        <3>1. (CHOOSE j \in rows : TRUE) \in rows
            BY <2>4
        <3>2. (CHOOSE j \in rows : TRUE) \in offset + 1 .. Len(s)
            BY <3>1
        <3> QED
            BY <2>1, <2>2, <2>4, <3>2
    <2>5. CASE ~IsListed(s, offset, uids[i]) /\ rows = {}
        <3>1. NewMessage \in Messages(n)
            BY DEF NewMessage, Messages
        <3> QED
            BY <2>1, <2>5, <3>1
    <2> QED
        BY <2>3, <2>4, <2>5
<1>2. Len(s) \in Nat /\ Len(uids) \in Nat
    OBVIOUS
<1> HIDE DEF item
<1>3. ASSUME NEW k \in 1 .. m
      PROVE  row(k) \in Messages(n)
    <2>1. CASE k <= offset
        <3>1. s[k] \in Messages(n)
            BY <1>2, <2>1
        <3> QED
            BY <2>1, <3>1
    <2>2. CASE k > offset
        <3>1. k - offset \in 1 .. Len(uids)
            BY <1>2, <2>2
        <3>2. item(k - offset) \in Messages(n)
            BY <1>1, <3>1
        <3>3. uids[k - offset] \in 0 .. n
            BY <3>1
        <3>4. [item(k - offset) EXCEPT !.uid = uids[k - offset]] \in Messages(n)
            BY <3>2, <3>3 DEF Messages
        <3> QED
            BY <1>2, <2>2, <3>4
    <2> QED
        BY <1>2, <2>1, <2>2
<1>4. applyUids(s, offset, uids) = [k \in 1 .. m |-> row(k)]
    BY DEF applyUids, item
<1> HIDE DEF row
<1>5. applyUids(s, offset, uids) \in [1 .. m -> Messages(n)]
    BY <1>3, <1>4
<1>6. m \in Nat
    BY <1>2
<1> QED
    <2> HIDE DEF m
    <2>1. /\ applyUids(s, offset, uids) \in Seq(Messages(n))
          /\ Len(applyUids(s, offset, uids)) = m
        BY <1>5, <1>6, SeqOfRange
    <2> QED
        BY <2>1 DEF m

-----------------------------------------------------------------------------
(* Sequences of responses and commands.                                     *)

\* The messages of a session are those of the lists above.
LEMMA MessageIsMessages == Message = Messages(MaxUid)
BY DEF Message, Messages

\* What the constructors of responses make is a response.
LEMMA ResponseTypes ==
    /\ \A n \in Nat : Exists(n) \in Response /\ Expunged(n) \in Response
    /\ Recent \in Response
    /\ \A uids \in SUBSET Uid, earlier \in BOOLEAN : Vanished(uids, earlier) \in Response
    /\ \A n, flags, modseq \in Nat, uid \in 0 .. MaxUid :
            Fetched(n, uid, flags, modseq) \in Response
    /\ \A uids \in Seq(Uid) : Searched(uids) \in Response
    /\ \A name \in CommandName : Ok(name) \in Response
BY DEF Response, Exists, Expunged, Recent, Vanished, Fetched, Searched, Ok

\* What the handlers read from a response has its type.
LEMMA ResponseFields ==
    ASSUME NEW r \in Response
    PROVE  /\ r.type \in {"EXISTS", "EXPUNGE"} => r.number \in Nat
           /\ r.type = "CODES" =>
                r.uidNext \in Nat /\ r.uidValidity \in Nat /\ r.modseq \in Nat
           /\ r.type = "VANISHED" => r.uids \in SUBSET Uid /\ r.earlier \in BOOLEAN
           /\ r.type = "FETCH" => /\ r.number \in Nat /\ r.uid \in 0 .. MaxUid
                                  /\ r.flags \in Nat /\ r.modseq \in Nat
           /\ r.type = "SEARCH" => r.uids \in Seq(Uid)
           /\ r.type = "OK" => r.name \in CommandName
BY DEF Response

\* What the constructors of commands make is a command of that name.
LEMMA CommandTypes ==
    /\ \A name \in CommandName : cmd(name) \in Command /\ cmd(name).name = name
    /\ \A known, since \in Nat :
        Select(known, since) \in Command /\ Select(known, since).name = "SELECT"
    /\ \A from \in Nat :
        /\ UidSearch(from) \in Command /\ UidSearch(from).name = "UID SEARCH"
        /\ UidFetch(from) \in Command /\ UidFetch(from).name = "UID FETCH"
    /\ \A to, since \in Nat :
        Fetch(to, since) \in Command /\ Fetch(to, since).name = "FETCH"
BY DEF Command, CommandName, cmd, Select, UidSearch, UidFetch, Fetch

\* The elements of a sequence are of its kind.
LEMMA SeqItem ==
    ASSUME NEW S, NEW s \in Seq(S), NEW i \in 1 .. Len(s)
    PROVE  s[i] \in S
OBVIOUS

\* s2c grows by responses which the order of the answers does not depend on.
OnlyAnnounces ==
    /\ s2c' \in Seq(Response)
    /\ Len(s2c') >= Len(s2c)
    /\ \A i \in 1 .. Len(s2c) : s2c'[i] = s2c[i]
    /\ \A i \in Len(s2c) + 1 .. Len(s2c') : s2c'[i].type \notin {"OK", "SEARCH"}

\* One or two untagged responses which are not the result of UID SEARCH are
\* announcements.
LEMMA AnnounceOnly ==
    ASSUME WireTypeOK, NEW r \in Response, r.type \notin {"OK", "SEARCH"},
           \/ Announce(r)
           \/ \E q \in Response : q.type \notin {"OK", "SEARCH"} /\ s2c' = s2c \o <<r, q>>
           \/ s2c' = s2c
    PROVE  OnlyAnnounces
<1>1. CASE Announce(r)
    BY <1>1 DEF Announce, OnlyAnnounces, WireTypeOK
<1>2. CASE s2c' = s2c
    BY <1>2 DEF OnlyAnnounces, WireTypeOK
<1>3. ASSUME NEW q \in Response, q.type \notin {"OK", "SEARCH"}, s2c' = s2c \o <<r, q>>
      PROVE  OnlyAnnounces
    <2>1. <<r, q>> \in Seq(Response)
        OBVIOUS
    <2>2. s2c' \in Seq(Response) /\ Len(s2c') = Len(s2c) + 2
        BY <1>3, <2>1 DEF WireTypeOK
    <2>3. \A i \in 1 .. Len(s2c) : s2c'[i] = s2c[i]
        BY <1>3, <2>1 DEF WireTypeOK
    <2>4. s2c'[Len(s2c) + 1] = r /\ s2c'[Len(s2c) + 2] = q
        BY <1>3, <2>1 DEF WireTypeOK
    <2>5. \A i \in Len(s2c) + 1 .. Len(s2c') : i = Len(s2c) + 1 \/ i = Len(s2c) + 2
        BY <2>2 DEF WireTypeOK
    <2> QED
        BY <1>3, <2>2, <2>3, <2>4, <2>5 DEF OnlyAnnounces
<1> QED
    BY <1>1, <1>2, <1>3

\* The execution of UID SEARCH does not start.
StartsNoSearch == (started' /\ Head(c2s).name = "UID SEARCH") => started

\* What is announced while nothing else happens does not change the order.
LEMMA AnnounceKeepsOrder ==
    ASSUME WireTypeOK, SelectIsAlone, SearchBeforeOk, OnlyAnnounces,
           UNCHANGED <<c2s, phase, status>>,
           StartsNoSearch
    PROVE  /\ SelectIsAlone' /\ SearchBeforeOk'
           /\ Carried("OK")' = Carried("OK")
<1>1. /\ \A i \in 1 .. Len(s2c') : s2c'[i].type \in {"OK", "SEARCH"} =>
            i \in 1 .. Len(s2c) /\ s2c'[i] = s2c[i]
      /\ \A i \in 1 .. Len(s2c) : i \in 1 .. Len(s2c') /\ s2c'[i] = s2c[i]
    BY DEF OnlyAnnounces, WireTypeOK
<1>2. Carried("OK")' = Carried("OK") /\ Carried("SEARCH")' = Carried("SEARCH")
    BY <1>1 DEF Carried
<1>3. Selecting' = Selecting /\ Searching' = Searching
    BY DEF Selecting, Searching
<1>4. SelectIsAlone'
    BY <1>1, <1>2, <1>3 DEF SelectIsAlone, OkAt
<1>5. SearchBeforeOk'
    <2> SUFFICES ASSUME Searching
                 PROVE  /\ \A i \in 1 .. Len(s2c') : OkAt(i, "UID SEARCH")' =>
                            \E j \in 1 .. i - 1 : s2c'[j].type = "SEARCH"
                        /\ (started' /\ Head(c2s).name = "UID SEARCH") => Carried("SEARCH")
        BY <1>2, <1>3 DEF SearchBeforeOk
    <2>1. ASSUME NEW i \in 1 .. Len(s2c'), OkAt(i, "UID SEARCH")'
          PROVE  \E j \in 1 .. i - 1 : s2c'[j].type = "SEARCH"
        <3>1. i \in 1 .. Len(s2c)
            BY <1>1, <2>1 DEF OkAt
        <3>2. PICK j \in 1 .. i - 1 : s2c[j].type = "SEARCH"
            BY <1>1, <2>1, <3>1 DEF SearchBeforeOk, OkAt
        <3>3. Len(s2c) \in Nat
            BY DEF WireTypeOK
        <3>4. j \in 1 .. Len(s2c)
            BY <3>1, <3>2, <3>3
        <3> QED
            BY <1>1, <3>2, <3>4
    <2> QED
        BY <2>1 DEF SearchBeforeOk, StartsNoSearch
<1> QED
    BY <1>2, <1>4, <1>5

-----------------------------------------------------------------------------
(* The server and the other clients.                                        *)

\* A step of the server leaves the types of the client alone.
LEMMA ClientTypesKept ==
    ASSUME TypeOK, UNCHANGED clientVars
    PROVE  TreeTypeOK' /\ CacheTypeOK' /\ TaskTypeOK' /\ ThrottleTypeOK'
           /\ (losses \in 0 .. MaxLosses)'
BY DEF TypeOK, TreeTypeOK, CacheTypeOK, TaskTypeOK, ThrottleTypeOK, clientVars,
       treeVars, cacheVars, taskVars, throttleVars

\* The fields of a message of the server.
LEMMA StoredTypes ==
    ASSUME ServerTypeOK, NEW i \in 1 .. Len(store)
    PROVE  /\ store[i] \in StoredMessage /\ store[i].uid \in Uid
           /\ store[i].added \in Nat /\ store[i].modseq \in Nat
           /\ store[i].uid \in 0 .. MaxUid
<1>1. store[i] \in StoredMessage
    BY DEF ServerTypeOK
<1> QED
    BY <1>1 DEF StoredMessage, Uid

\* What a change of the mailbox by others leaves true.
OnlyMailboxChanges ==
    /\ ServerTypeOK' /\ OnlyAnnounces
    /\ ~selected => s2c' = s2c
    /\ reporting' \subseteq StoredUids' /\ reporting' \subseteq reporting
    /\ UNCHANGED <<c2s, selected, started>>

\* A new message only changes the mailbox and announces EXISTS.
LEMMA DeliverStep ==
    ASSUME TypeOK, ReportsWhatItHas, Deliver(Announced)
    PROVE  OnlyMailboxChanges
<1> DEFINE m == [uid |-> uidNext, added |-> highestModSeq + 1,
                 modseq |-> highestModSeq + 1]
<1>1. m \in StoredMessage
    BY BoundsAssumption DEF TypeOK, ServerTypeOK, Deliver, StoredMessage, Uid
<1>2. store' = Append(store, m)
    BY DEF Deliver
<1> HIDE DEF m
<1>3. store' \in Seq(StoredMessage)
    BY <1>1, <1>2 DEF TypeOK, ServerTypeOK
<1>4. StoredUids \subseteq StoredUids'
    <2>1. Len(store') = Len(store) + 1 /\ \A i \in 1 .. Len(store) : store'[i] = store[i]
        BY <1>1, <1>2 DEF TypeOK, ServerTypeOK
    <2>2. Len(store) \in Nat
        BY DEF TypeOK, ServerTypeOK
    <2> QED
        BY <2>1, <2>2 DEF StoredUids
<1>5. ServerTypeOK'
    BY <1>3, BoundsAssumption DEF TypeOK, ServerTypeOK, Deliver, sessionVars
<1>6. OnlyAnnounces
    <2>1. Exists(Len(store) + 1) \in Response /\ Exists(Len(store) + 1).type = "EXISTS"
        BY ResponseTypes DEF TypeOK, ServerTypeOK, Exists
    <2>2. Recent \in Response /\ Recent.type = "RECENT"
        BY ResponseTypes DEF Recent
    <2> QED
        BY <2>1, <2>2, AnnounceOnly DEF Deliver, TypeOK
<1> QED
    BY <1>4, <1>5, <1>6 DEF Deliver, sessionVars, ReportsWhatItHas, OnlyMailboxChanges

\* EXPUNGE only changes the mailbox; a message that is gone is not reported.
LEMMA ExpungeStep ==
    ASSUME TypeOK, ReportsWhatItHas, Expunge(Announced)
    PROVE  OnlyMailboxChanges
<1>1. PICK k \in 1 .. Len(store) :
        /\ store' = RemoveRow(store, k)
        /\ IF Qresync
           THEN /\ highestModSeq' = highestModSeq + 1
                /\ gone' = [gone EXCEPT ![store[k].uid] = highestModSeq + 1]
           ELSE UNCHANGED <<highestModSeq, gone>>
        /\ IF selected
           THEN Announce(IF Qresync THEN Vanished({store[k].uid}, FALSE) ELSE Expunged(k))
           ELSE UNCHANGED s2c
        /\ vanishing' = vanishing
        /\ reporting' = reporting \ {store[k].uid}
    BY DEF Expunge
<1>2. store \in Seq(StoredMessage) /\ Len(store) \in Nat
    BY DEF TypeOK, ServerTypeOK
<1>3. store' \in Seq(StoredMessage) /\ Len(store') = Len(store) - 1
    BY <1>1, <1>2, RemoveRowType
<1>4. ServerTypeOK'
    <2>1. gone' \in [Uid -> Nat] /\ highestModSeq' \in Nat
        BY <1>1 DEF TypeOK, ServerTypeOK
    <2>2. reporting' \subseteq Uid
        BY <1>1 DEF TypeOK, ServerTypeOK
    <2> QED
        BY <1>1, <1>3, <2>1, <2>2 DEF TypeOK, ServerTypeOK, Expunge
<1>5. reporting' \subseteq StoredUids'
    <2>1. \A i \in 1 .. Len(store) - 1 :
            store'[i] = IF i < k THEN store[i] ELSE store[i + 1]
        BY <1>1 DEF RemoveRow
    <2>2. ASSUME NEW i \in 1 .. Len(store), i # k
          PROVE  store[i].uid \in StoredUids'
        <3>1. CASE i < k
            BY <1>2, <1>3, <2>1, <3>1 DEF StoredUids
        <3>2. CASE i > k
            <4>1. i - 1 \in 1 .. Len(store) - 1 /\ store'[i - 1] = store[i]
                BY <1>2, <2>1, <3>2
            <4> QED
                BY <1>3, <4>1 DEF StoredUids
        <3> QED
            BY <2>2, <3>1, <3>2
    <2>3. \A uid \in reporting' : \E i \in 1 .. Len(store) : i # k /\ store[i].uid = uid
        BY <1>1 DEF ReportsWhatItHas, StoredUids
    <2> QED
        BY <2>2, <2>3
<1>6. OnlyAnnounces
    <2>1. /\ Vanished({store[k].uid}, FALSE) \in Response
          /\ Vanished({store[k].uid}, FALSE).type = "VANISHED"
        BY StoredTypes, ResponseTypes DEF TypeOK, Vanished
    <2>2. Expunged(k) \in Response /\ Expunged(k).type = "EXPUNGE"
        BY ResponseTypes DEF Expunged
    <2> QED
        BY <1>1, <2>1, <2>2, AnnounceOnly DEF TypeOK
<1> QED
    BY <1>1, <1>4, <1>5, <1>6 DEF Expunge, OnlyMailboxChanges

\* A change of flags only changes the mailbox and announces FETCH.
LEMMA SetFlagsStep ==
    ASSUME TypeOK, ReportsWhatItHas, SetFlags(Announced)
    PROVE  OnlyMailboxChanges
<1>1. PICK k \in 1 .. Len(store) :
        /\ store' = [store EXCEPT ![k].modseq = highestModSeq + 1]
        /\ IF selected
           THEN Announce(Fetched(k, IF Qresync THEN store[k].uid ELSE 0,
                                 highestModSeq + 1,
                                 IF Capabilities = {} THEN 0 ELSE highestModSeq + 1))
           ELSE UNCHANGED s2c
    BY DEF SetFlags
<1>2. store \in Seq(StoredMessage) /\ Len(store) \in Nat /\ highestModSeq + 1 \in Nat
    BY DEF TypeOK, ServerTypeOK
<1>3. [store[k] EXCEPT !.modseq = highestModSeq + 1] \in StoredMessage
    BY <1>2, StoredTypes DEF TypeOK, StoredMessage
<1>4. store' = [store EXCEPT ![k] = [store[k] EXCEPT !.modseq = highestModSeq + 1]]
    BY <1>1
<1>5. store' \in Seq(StoredMessage) /\ Len(store') = Len(store)
    BY <1>2, <1>3, <1>4
<1>6. \A i \in 1 .. Len(store) : store'[i].uid = store[i].uid
    BY <1>2, <1>4, StoredTypes DEF TypeOK, StoredMessage
<1>7. StoredUids' = StoredUids
    BY <1>5, <1>6 DEF StoredUids
<1>8. ServerTypeOK'
    BY <1>2, <1>5 DEF TypeOK, ServerTypeOK, SetFlags, sessionVars
<1>9. OnlyAnnounces
    <2> DEFINE r == Fetched(k, IF Qresync THEN store[k].uid ELSE 0, highestModSeq + 1,
                            IF Capabilities = {} THEN 0 ELSE highestModSeq + 1)
    <2>1. (IF Qresync THEN store[k].uid ELSE 0) \in 0 .. MaxUid
        BY StoredTypes, BoundsAssumption DEF TypeOK
    <2>2. r \in Response
        BY <1>2, <2>1, ResponseTypes
    <2>3. r.type = "FETCH"
        BY DEF Fetched
    <2> HIDE DEF r
    <2>4. Announce(r) \/ s2c' = s2c
        BY <1>1 DEF r
    <2> QED
        BY <2>2, <2>3, <2>4, AnnounceOnly DEF TypeOK
<1> QED
    BY <1>1, <1>7, <1>8, <1>9
    DEF SetFlags, sessionVars, ReportsWhatItHas, OnlyMailboxChanges

\* Deleting and creating the mailbox is not announced to anybody.
LEMMA RecreateStep ==
    ASSUME TypeOK, ReportsWhatItHas, Recreate
    PROVE  OnlyMailboxChanges
<1>1. ServerTypeOK'
    BY BoundsAssumption DEF TypeOK, ServerTypeOK, Recreate, sessionVars
<1>2. OnlyAnnounces
    BY DEF TypeOK, WireTypeOK, Recreate, wireVars, OnlyAnnounces
<1> QED
    BY <1>1, <1>2
    DEF Recreate, sessionVars, wireVars, ReportsWhatItHas, OnlyMailboxChanges

\* A mistake of the server is one response too many, nothing else.
LEMMA MistakeStep ==
    ASSUME TypeOK, ReportsWhatItHas, Mistake
    PROVE  OnlyMailboxChanges
<1>1. ServerTypeOK'
    BY BoundsAssumption DEF TypeOK, ServerTypeOK, Mistake, mailboxVars
<1>2. PICK r \in Impossible : Announce(r)
    BY DEF Mistake
<1>3. r \in Response /\ r.type \notin {"OK", "SEARCH"}
    <2>1. /\ Exists(0) \in Response /\ Expunged(MaxUid + 1) \in Response
          /\ Fetched(MaxUid + 1, 0, 1, 0) \in Response
        BY ResponseTypes, BoundsAssumption
    <2>2. /\ Exists(0).type = "EXISTS" /\ Expunged(MaxUid + 1).type = "EXPUNGE"
          /\ Fetched(MaxUid + 1, 0, 1, 0).type = "FETCH"
        BY DEF Exists, Expunged, Fetched
    <2>3. \A k \in 2 .. Len(store) :
            /\ Fetched(1, store[k].uid, store[k].modseq, 0) \in Response
            /\ Fetched(1, store[k].uid, store[k].modseq, 0).type = "FETCH"
        <3>1. \A k \in 2 .. Len(store) : k \in 1 .. Len(store)
            BY DEF TypeOK, ServerTypeOK
        <3> QED
            BY <3>1, StoredTypes, ResponseTypes DEF Fetched, TypeOK
    <2> QED
        BY <2>1, <2>2, <2>3 DEF Impossible
<1>4. OnlyAnnounces
    BY <1>2, <1>3, AnnounceOnly DEF TypeOK
<1>5. StoredUids' = StoredUids
    BY DEF Mistake, mailboxVars, StoredUids
<1> QED
    BY <1>1, <1>4, <1>5 DEF Mistake, ReportsWhatItHas, OnlyMailboxChanges

\* Nothing that other clients do breaks the invariant.
LEMMA OtherClientsStep ==
    ASSUME IInv, OtherClients
    PROVE  IInv'
<1>1. OnlyMailboxChanges
    BY DeliverStep, ExpungeStep, SetFlagsStep, RecreateStep, MistakeStep
    DEF OtherClients, IInv, WireInv
<1>2. UNCHANGED clientVars
    BY DEF OtherClients
<1>3. TypeOK'
    BY <1>1, <1>2, ClientTypesKept
    DEF IInv, TypeOK, OnlyMailboxChanges, OnlyAnnounces, WireTypeOK
<1>4. SelectIsAlone' /\ SearchBeforeOk' /\ Carried("OK")' = Carried("OK")
    BY <1>1, <1>2, AnnounceKeepsOrder
    DEF IInv, TypeOK, WireInv, OnlyMailboxChanges, StartsNoSearch, clientVars, taskVars
<1>5. Selecting' = Selecting
    BY <1>2 DEF clientVars, taskVars, Selecting
<1>6. OfflineIsSilent' /\ ReportsWhatItHas'
    BY <1>1, <1>2, <1>4, <1>5
    DEF IInv, WireInv, OfflineIsSilent, ReportsWhatItHas, OnlyMailboxChanges, clientVars
<1>7. ExistsKept' /\ ExistsMatchesList'
    BY <1>2 DEF IInv, ExistsKept, ExistsMatchesList, clientVars, taskVars, treeVars
<1> QED
    BY <1>3, <1>4, <1>6, <1>7 DEF IInv, WireInv

-----------------------------------------------------------------------------
(* The server executes commands.                                            *)

\* The server executes a command without telling a result or finishing it.
LEMMA ExecuteAnnounces ==
    ASSUME IInv, UNCHANGED clientVars, UNCHANGED <<mailboxVars, c2s>>,
           ServerTypeOK', OnlyAnnounces, c2s # <<>>, started', selected',
           reporting' \subseteq StoredUids,
           StartsNoSearch
    PROVE  ServerTypeOK' /\ WireTypeOK' /\ WireInv'
<1>1. SelectIsAlone' /\ SearchBeforeOk'
    BY AnnounceKeepsOrder DEF IInv, TypeOK, WireInv, clientVars, taskVars
<1>2. OfflineIsSilent'
    BY DEF IInv, WireInv, OfflineIsSilent, clientVars
<1>3. StoredUids' = StoredUids
    BY DEF mailboxVars, StoredUids
<1>4. ReportsWhatItHas'
    BY <1>3 DEF ReportsWhatItHas
<1> QED
    BY <1>1, <1>2, <1>4 DEF IInv, TypeOK, OnlyAnnounces, WireTypeOK, WireInv

\* The UIDs of a range "from:*" are those of messages of the mailbox.
LEMMA UidsFromType ==
    ASSUME ServerTypeOK, NEW from \in Nat
    PROVE  /\ UidsFrom(from) \in Seq(Uid)
           /\ \A i \in 1 .. Len(UidsFrom(from)) : UidsFrom(from)[i] \in StoredUids
<1> DEFINE Rows == {i \in 1 .. Len(store) : store[i].uid >= from}
           IsFirst(i) == /\ store[i].uid >= from
                         /\ \A j \in 1 .. i - 1 : store[j].uid < from
           m == Len(store) + 1 - FirstRow(from)
<1>1. Len(store) \in Nat
    BY DEF ServerTypeOK
<1>2. FirstRow(from) \in 1 .. Larger(Len(store), 1)
    <2>1. CASE Rows = {}
        BY <1>1, <2>1 DEF FirstRow, Larger
    <2>2. CASE Rows # {}
        <3>1. PICK k \in Rows : \A j \in Rows : k <= j
            <4>1. Rows \in SUBSET Nat
                OBVIOUS
            <4> HIDE DEF Rows
            <4> QED
                BY <2>2, <4>1, LeastNat
        <3>2. \A j \in 1 .. k - 1 : store[j].uid < from
            <4>1. TAKE j \in 1 .. k - 1
            <4>2. j \in 1 .. Len(store) /\ j \notin Rows
                BY <1>1, <3>1
            <4>3. store[j].uid \in Nat
                BY <4>2, StoredTypes DEF Uid
            <4> QED
                BY <4>2, <4>3
        <3>3. \E i \in 1 .. Len(store) : IsFirst(i)
            BY <3>1, <3>2
        <3>4. (CHOOSE i \in 1 .. Len(store) : IsFirst(i)) \in 1 .. Len(store)
            BY <3>3
        <3> QED
            BY <1>1, <2>2, <3>4 DEF FirstRow, Larger
    <2> QED
        BY <2>1, <2>2
<1>3. m \in Nat /\ \A i \in 1 .. m : i + FirstRow(from) - 1 \in 1 .. Len(store)
    BY <1>1, <1>2 DEF Larger
<1>4. UidsFrom(from) = [i \in 1 .. m |-> store[i + FirstRow(from) - 1].uid]
    BY DEF UidsFrom
<1> HIDE DEF m
<1>5. \A i \in 1 .. m : store[i + FirstRow(from) - 1].uid \in Uid
    BY <1>3, StoredTypes
<1>6. UidsFrom(from) \in [1 .. m -> Uid]
    BY <1>4, <1>5
<1>7. UidsFrom(from) \in Seq(Uid) /\ Len(UidsFrom(from)) = m
    BY <1>3, <1>6, SeqOfRange
<1>8. \A i \in 1 .. m : UidsFrom(from)[i] \in StoredUids
    BY <1>3, <1>4 DEF StoredUids
<1> QED
    BY <1>7, <1>8

\* The first command is executed by a server which has, or gets, the mailbox selected.
LEMMA HeadCommand ==
    ASSUME IInv, c2s # <<>>
    PROVE  /\ Head(c2s) \in Command /\ Head(c2s) = c2s[1] /\ 1 \in 1 .. Len(c2s)
           /\ Head(c2s).name \in CommandName
           /\ Head(c2s).from \in Nat /\ Head(c2s).to \in Nat /\ Head(c2s).since \in Nat
           /\ Head(c2s).name # "SELECT" => selected /\ ~Selecting
           /\ Head(c2s).name = "SELECT" => Selecting
<1>1. Head(c2s) \in Command /\ Head(c2s) = c2s[1] /\ 1 \in 1 .. Len(c2s)
    BY DEF IInv, TypeOK, WireTypeOK
<1> QED
    BY <1>1 DEF Command, IInv, WireInv, SelectIsAlone, OfflineIsSilent, ReportsWhatItHas

\* SELECT is answered by EXISTS and the codes.
LEMMA StartSelectStep ==
    ASSUME IInv, UNCHANGED clientVars, StartSelect
    PROVE  ServerTypeOK' /\ WireTypeOK' /\ WireInv'
<1>1. PICK codes \in {Codes, CodesBehind} :
        /\ mistakes' = IF codes = Codes THEN mistakes ELSE mistakes + 1
        /\ mistakes' <= MaxMistakes
        /\ \/ s2c' = s2c \o <<Exists(Len(store)), codes>>
           \/ s2c' = s2c \o <<codes, Exists(Len(store))>>
    BY DEF StartSelect
<1>2. codes \in Response /\ codes.type = "CODES"
    <2> DEFINE modseq == IF Capabilities = {} THEN 0 ELSE highestModSeq
    <2>1. modseq \in Nat /\ Smaller(modseq, 1) \in Nat
        BY DEF Smaller, IInv, TypeOK, ServerTypeOK
    <2>2. uidNext \in Nat /\ uidValidity \in Nat
        BY BoundsAssumption DEF IInv, TypeOK, ServerTypeOK
    <2>3. Codes = [type |-> "CODES", uidNext |-> uidNext, uidValidity |-> uidValidity,
                   modseq |-> modseq]
        BY DEF Codes
    <2> HIDE DEF modseq
    <2>4. CodesBehind = [type |-> "CODES", uidNext |-> uidNext,
                         uidValidity |-> uidValidity, modseq |-> Smaller(modseq, 1)]
        BY <2>3 DEF CodesBehind
    <2> QED
        BY <2>1, <2>2, <2>3, <2>4 DEF Response
<1>3. Exists(Len(store)) \in Response /\ Exists(Len(store)).type = "EXISTS"
    <2>1. Len(store) \in Nat
        BY DEF IInv, TypeOK, ServerTypeOK
    <2> QED
        BY <2>1 DEF Exists, Response
<1>4. OnlyAnnounces
    BY <1>1, <1>2, <1>3, AnnounceOnly DEF IInv, TypeOK
<1>5. reporting' \subseteq StoredUids /\ vanishing' \subseteq Uid
    BY DEF StartSelect, StoredUids
<1>6. mistakes' \in 0 .. MaxMistakes
    BY <1>1, BoundsAssumption DEF IInv, TypeOK, ServerTypeOK
<1>7. StoredUids \subseteq Uid
    BY StoredTypes DEF StoredUids, IInv, TypeOK
<1>8. ServerTypeOK'
    BY <1>5, <1>6, <1>7 DEF StartSelect, Starting, mailboxVars, IInv, TypeOK, ServerTypeOK
<1> QED
    BY <1>4, <1>5, <1>8, ExecuteAnnounces DEF StartSelect, Starting, StartsNoSearch

\* UID FETCH, FETCH and NOOP have nothing to tell when they start.
LEMMA StartOtherStep ==
    ASSUME IInv, UNCHANGED clientVars, StartUidFetch \/ StartFetch \/ StartNoop
    PROVE  ServerTypeOK' /\ WireTypeOK' /\ WireInv'
<1>1. c2s # <<>> /\ Head(c2s).name \in {"UID FETCH", "FETCH", "NOOP"}
    BY DEF StartUidFetch, StartFetch, StartNoop, Starting
<1>2. selected
    BY <1>1, HeadCommand
<1>3. UNCHANGED <<mailboxVars, selected, vanishing, mistakes, wireVars>>
    BY DEF StartUidFetch, StartFetch, StartNoop
<1>4. reporting' \subseteq StoredUids
    <2>1. Head(c2s).from \in Nat
        BY <1>1, HeadCommand
    <2>2. \A i \in 1 .. Len(UidsFrom(Head(c2s).from)) :
            UidsFrom(Head(c2s).from)[i] \in StoredUids
        BY <2>1, UidsFromType DEF IInv, TypeOK
    <2>3. CASE StartUidFetch
        BY <2>2, <2>3 DEF StartUidFetch
    <2>4. CASE StartFetch
        <3>1. Head(c2s).to \in Nat /\ Len(store) \in Nat
            <4>1. Head(c2s).to \in Nat
                BY <1>1, HeadCommand
            <4> QED
                BY <4>1 DEF IInv, TypeOK, ServerTypeOK
        <3>2. \A j \in 1 .. Smaller(Head(c2s).to, Len(store)) : j \in 1 .. Len(store)
            BY <3>1 DEF Smaller
        <3> QED
            BY <2>4, <3>2 DEF StartFetch, StoredUids
    <2>5. CASE StartNoop
        BY <2>5 DEF StartNoop, IInv, WireInv, ReportsWhatItHas
    <2> QED
        BY <2>3, <2>4, <2>5
<1>5. StoredUids \subseteq Uid
    BY StoredTypes DEF StoredUids, IInv, TypeOK
<1>6. ServerTypeOK'
    BY <1>1, <1>3, <1>4, <1>5
    DEF StartUidFetch, StartFetch, StartNoop, Starting, mailboxVars, IInv, TypeOK, ServerTypeOK
<1>7. OnlyAnnounces
    BY <1>3 DEF wireVars, OnlyAnnounces, IInv, TypeOK, WireTypeOK
<1> QED
    BY <1>1, <1>2, <1>3, <1>4, <1>6, <1>7, ExecuteAnnounces
    DEF wireVars, StartsNoSearch, StartUidFetch, StartFetch, StartNoop, Starting

\* UID SEARCH has its result before its tagged OK.
LEMMA StartUidSearchStep ==
    ASSUME IInv, UNCHANGED clientVars, StartUidSearch
    PROVE  ServerTypeOK' /\ WireTypeOK' /\ WireInv'
<1> DEFINE r == Searched(UidsFrom(Head(c2s).from))
<1>1. c2s # <<>> /\ Head(c2s).name = "UID SEARCH"
    BY DEF StartUidSearch, Starting
<1>2. selected /\ ~Selecting
    BY <1>1, HeadCommand
<1>3. r \in Response /\ r.type = "SEARCH"
    <2>1. UidsFrom(Head(c2s).from) \in Seq(Uid)
        BY <1>1, HeadCommand, UidsFromType DEF IInv, TypeOK
    <2> QED
        BY <2>1 DEF Searched, Response
<1>4. s2c' = Append(s2c, r)
    BY DEF StartUidSearch, Announce
<1> HIDE DEF r
<1>5. /\ s2c' \in Seq(Response) /\ Len(s2c') = Len(s2c) + 1 /\ Len(s2c) \in Nat
      /\ \A i \in 1 .. Len(s2c) : s2c'[i] = s2c[i]
      /\ s2c'[Len(s2c) + 1] = r
    BY <1>3, <1>4 DEF IInv, TypeOK, WireTypeOK
<1>6. UNCHANGED <<mailboxVars, selected, vanishing, reporting, mistakes, c2s>>
    BY DEF StartUidSearch
<1>7. Selecting' = Selecting /\ Searching' = Searching /\ phase' = phase
    BY DEF clientVars, taskVars, Selecting, Searching
<1>8. ServerTypeOK'
    BY <1>6 DEF StartUidSearch, Starting, mailboxVars, IInv, TypeOK, ServerTypeOK
<1>9. WireTypeOK'
    BY <1>5, <1>6 DEF IInv, TypeOK, WireTypeOK
<1>10. Carried("SEARCH")'
    BY <1>3, <1>5 DEF Carried
<1>11. \A i \in 1 .. Len(s2c') : s2c'[i].type = "OK" => i \in 1 .. Len(s2c) /\ s2c'[i] = s2c[i]
    BY <1>3, <1>5
<1>12. OfflineIsSilent'
    BY <1>1, <1>7 DEF IInv, WireInv, OfflineIsSilent
<1>13. SelectIsAlone'
    BY <1>2, <1>6, <1>7, <1>11 DEF IInv, WireInv, SelectIsAlone, OkAt
<1>14. ReportsWhatItHas'
    <2>1. StoredUids' = StoredUids
        BY <1>6 DEF mailboxVars, StoredUids
    <2> QED
        BY <1>1, <1>2, <1>6, <2>1 DEF IInv, WireInv, ReportsWhatItHas
<1>15. SearchBeforeOk'
    <2>1. \A i \in 1 .. Len(s2c) : \A j \in 1 .. i - 1 : s2c'[j] = s2c[j]
        BY <1>5
    <2>2. Searching => \A i \in 1 .. Len(s2c') : OkAt(i, "UID SEARCH")' =>
            \E j \in 1 .. i - 1 : s2c'[j].type = "SEARCH"
        BY <1>11, <2>1 DEF IInv, WireInv, SearchBeforeOk, OkAt
    <2> QED
        BY <1>7, <1>10, <2>2 DEF SearchBeforeOk
<1> QED
    BY <1>8, <1>9, <1>12, <1>13, <1>14, <1>15 DEF WireInv

\* A running command reports messages of the mailbox only.
LEMMA ReportStep ==
    ASSUME IInv, UNCHANGED clientVars, ReportVanished \/ ReportFetch
    PROVE  ServerTypeOK' /\ WireTypeOK' /\ WireInv'
<1>1. started /\ selected /\ c2s # <<>>
    BY DEF ReportVanished, ReportFetch, IInv, WireInv, ReportsWhatItHas
<1>2. UNCHANGED <<mailboxVars, selected, started, mistakes, c2s>>
    BY DEF ReportVanished, ReportFetch
<1>3. reporting' \subseteq reporting /\ vanishing' \subseteq vanishing
    BY DEF ReportVanished, ReportFetch
<1>4. ServerTypeOK'
    BY <1>2, <1>3 DEF mailboxVars, IInv, TypeOK, ServerTypeOK
<1>5. OnlyAnnounces
    <2>1. CASE ReportVanished
        <3>1. Vanished(vanishing, TRUE) \in Response
            BY ResponseTypes DEF IInv, TypeOK, ServerTypeOK
        <3>2. Vanished(vanishing, TRUE).type = "VANISHED"
            BY DEF Vanished
        <3>3. Announce(Vanished(vanishing, TRUE))
            BY <2>1 DEF ReportVanished
        <3> QED
            BY <3>1, <3>2, <3>3, AnnounceOnly DEF IInv, TypeOK
    <2>2. CASE ReportFetch
        <3> DEFINE uid == Lowest(reporting)
                   row == RowOfUid(uid)
                   told == IF Head(c2s).name = "FETCH" THEN 0 ELSE uid
                   modseq == IF Head(c2s).since > 0 THEN store[row].modseq ELSE 0
                   r == Fetched(row, told, store[row].modseq, modseq)
        <3>1. uid \in reporting
            <4> DEFINE IsLowest(u) == \A v \in reporting : u <= v
            <4>1. reporting \in SUBSET Nat /\ reporting # {}
                BY <2>2 DEF ReportFetch, IInv, TypeOK, ServerTypeOK, Uid
            <4>2. \E u \in reporting : IsLowest(u)
                BY <4>1, LeastNat
            <4>3. (CHOOSE u \in reporting : IsLowest(u)) \in reporting
                BY <4>2
            <4> QED
                BY <4>3 DEF Lowest
        <3> HIDE DEF uid
        <3>2. row \in 1 .. Len(store)
            BY <3>1 DEF RowOfUid, IInv, WireInv, ReportsWhatItHas, StoredUids
        <3> HIDE DEF row
        <3>3. row \in Nat /\ store[row].modseq \in Nat
            BY <3>2, StoredTypes DEF IInv, TypeOK
        <3>4. told \in 0 .. MaxUid /\ modseq \in Nat
            BY <3>1, <3>3, BoundsAssumption DEF IInv, TypeOK, ServerTypeOK, Uid
        <3> HIDE DEF told, modseq
        <3>5. r \in Response /\ r.type = "FETCH"
            BY <3>3, <3>4 DEF Fetched, Response
        <3> HIDE DEF r
        <3>6. Announce(r)
            BY <2>2 DEF ReportFetch, r, told, modseq, row, uid
        <3> QED
            BY <3>5, <3>6, AnnounceOnly DEF IInv, TypeOK
    <2> QED
        BY <2>1, <2>2
<1>6. reporting' \subseteq StoredUids
    BY <1>3 DEF IInv, WireInv, ReportsWhatItHas
<1> QED
    BY <1>1, <1>2, <1>4, <1>5, <1>6, ExecuteAnnounces DEF StartsNoSearch

\* The tagged OK is that of the first command, which leaves the queue.
LEMMA FinishStep ==
    ASSUME IInv, UNCHANGED clientVars, Finish
    PROVE  ServerTypeOK' /\ WireTypeOK' /\ WireInv'
<1> DEFINE r == Ok(Head(c2s).name)
<1>1. c2s # <<>> /\ selected
    BY DEF Finish, IInv, WireInv, ReportsWhatItHas
<1>2. r \in Response /\ r.type = "OK" /\ r.name = Head(c2s).name
    <2>1. Head(c2s).name \in CommandName
        BY <1>1, HeadCommand
    <2> QED
        BY <2>1 DEF Ok, Response
<1>3. s2c' = Append(s2c, r) /\ c2s' = Tail(c2s) /\ started' = FALSE
    BY DEF Finish, Announce
<1> HIDE DEF r
<1>4. /\ s2c' \in Seq(Response) /\ Len(s2c') = Len(s2c) + 1 /\ Len(s2c) \in Nat
      /\ \A i \in 1 .. Len(s2c) : s2c'[i] = s2c[i]
      /\ s2c'[Len(s2c) + 1] = r
    BY <1>2, <1>3 DEF IInv, TypeOK, WireTypeOK
<1>5. /\ c2s' \in Seq(Command) /\ Len(c2s') = Len(c2s) - 1 /\ Len(c2s) \in Nat
      /\ \A i \in 1 .. Len(c2s') : i + 1 \in 1 .. Len(c2s) /\ c2s'[i] = c2s[i + 1]
    BY <1>1, <1>3 DEF IInv, TypeOK, WireTypeOK
<1>6. UNCHANGED <<mailboxVars, selected, vanishing, reporting, mistakes>>
    BY DEF Finish
<1>7. Selecting' = Selecting /\ Searching' = Searching /\ phase' = phase
    BY DEF clientVars, taskVars, Selecting, Searching
<1>8. \A i \in 1 .. Len(s2c') : (i \in 1 .. Len(s2c) /\ s2c'[i] = s2c[i])
                                \/ (i = Len(s2c) + 1 /\ s2c'[i] = r)
    BY <1>4
<1>9. ServerTypeOK'
    BY <1>3, <1>6 DEF mailboxVars, IInv, TypeOK, ServerTypeOK
<1>10. WireTypeOK'
    BY <1>4, <1>5 DEF WireTypeOK
<1>11. OfflineIsSilent'
    BY <1>1, <1>7 DEF IInv, WireInv, OfflineIsSilent
<1>12. SelectIsAlone'
    <2>1. CASE Selecting
        <3>1. Head(c2s).name = "SELECT"
            BY <1>1, <2>1, HeadCommand
        <3>2. /\ Len(c2s) <= 1 /\ ~Carried("SEARCH")
              /\ \A i \in 1 .. Len(s2c) : s2c[i].type # "OK"
            BY <1>1, <2>1 DEF IInv, WireInv, SelectIsAlone
        <3>3. c2s' = <<>> /\ Len(c2s') = 0
            BY <1>1, <1>5, <3>2
        <3>4. ~Carried("SEARCH")'
            BY <1>2, <1>8, <3>2 DEF Carried
        <3>5. \A i \in 1 .. Len(s2c') : s2c'[i].type = "OK" => i = Len(s2c) + 1
            BY <1>8, <3>2
        <3> QED
            BY <1>2, <1>4, <1>7, <1>8, <2>1, <3>1, <3>3, <3>4, <3>5 DEF SelectIsAlone
    <2>2. CASE ~Selecting
        <3>1. Head(c2s).name # "SELECT"
            BY <1>1, <2>2, HeadCommand
        <3> QED
            BY <1>2, <1>5, <1>7, <1>8, <2>2, <3>1
            DEF IInv, WireInv, SelectIsAlone, OkAt
    <2> QED
        BY <2>1, <2>2
<1>13. ReportsWhatItHas'
    <2>1. StoredUids' = StoredUids
        BY <1>6 DEF mailboxVars, StoredUids
    <2> QED
        BY <1>1, <1>3, <1>6, <2>1 DEF IInv, WireInv, ReportsWhatItHas
<1>14. SearchBeforeOk'
    <2>1. \A i \in 1 .. Len(s2c) : \A j \in 1 .. i - 1 : s2c'[j] = s2c[j]
        BY <1>4
    <2>2. Searching => \A i \in 1 .. Len(s2c) : OkAt(i, "UID SEARCH") =>
            \E j \in 1 .. i - 1 : s2c'[j].type = "SEARCH"
        BY <2>1 DEF IInv, WireInv, SearchBeforeOk
    <2>3. (Searching /\ Head(c2s).name = "UID SEARCH") =>
            \E j \in 1 .. Len(s2c) : s2c[j].type = "SEARCH"
        BY DEF Finish, IInv, WireInv, SearchBeforeOk, Carried
    <2>4. Len(s2c) + 1 - 1 = Len(s2c)
        BY <1>4
    <2>5. (Searching /\ Head(c2s).name = "UID SEARCH") =>
            \E j \in 1 .. Len(s2c) + 1 - 1 : s2c'[j].type = "SEARCH"
        BY <1>4, <2>3, <2>4
    <2>6. ASSUME Searching, NEW i \in 1 .. Len(s2c'), OkAt(i, "UID SEARCH")'
          PROVE  \E j \in 1 .. i - 1 : s2c'[j].type = "SEARCH"
        <3>1. CASE i \in 1 .. Len(s2c) /\ s2c'[i] = s2c[i]
            <4>1. OkAt(i, "UID SEARCH")
                BY <2>6, <3>1 DEF OkAt
            <4> QED
                BY <2>2, <2>6, <3>1, <4>1
        <3>2. CASE i = Len(s2c) + 1 /\ s2c'[i] = r
            <4>1. Head(c2s).name = "UID SEARCH"
                BY <1>2, <2>6, <3>2 DEF OkAt
            <4>2. \E j \in 1 .. Len(s2c) + 1 - 1 : s2c'[j].type = "SEARCH"
                BY <2>5, <2>6, <4>1
            <4>3. 1 .. i - 1 = 1 .. Len(s2c) + 1 - 1
                BY <3>2
            <4> QED
                BY <4>2, <4>3
        <3> QED
            BY <1>8, <3>1, <3>2
    <2> QED
        BY <1>3, <1>7, <2>6 DEF SearchBeforeOk
<1> QED
    BY <1>9, <1>10, <1>11, <1>12, <1>13, <1>14 DEF WireInv

\* Nothing that the server does breaks the invariant.
LEMMA ServerStepKeeps ==
    ASSUME IInv, ServerStep
    PROVE  IInv'
<1>1. UNCHANGED clientVars /\ Execute
    BY DEF ServerStep
<1>2. ServerTypeOK' /\ WireTypeOK' /\ WireInv'
    BY <1>1, StartSelectStep, StartUidSearchStep, StartOtherStep, ReportStep, FinishStep
    DEF Execute
<1>3. TypeOK'
    BY <1>1, <1>2, ClientTypesKept DEF IInv, TypeOK
<1>4. ExistsKept' /\ ExistsMatchesList'
    BY <1>1 DEF IInv, ExistsKept, ExistsMatchesList, clientVars, taskVars, treeVars
<1> QED
    BY <1>2, <1>3, <1>4 DEF IInv

-----------------------------------------------------------------------------
(* The client takes a response from the wire and may send a command.        *)

\* At most one command is sent, no SELECT, and not before SELECT is answered.
Sends ==
    \/ c2s' = c2s
    \/ /\ ~Selecting
       /\ \E c \in Command : c.name # "SELECT" /\ c2s' = Append(c2s, c)

\* The result of UID SEARCH is still to come if it was, and was not just taken.
StillSearches == Searching' => Searching /\ Head(s2c).type # "SEARCH"

\* What a client may send leaves the command in execution where it is.
LEMMA SendsType ==
    ASSUME WireTypeOK, Sends
    PROVE  /\ c2s' \in Seq(Command)
           /\ Selecting => c2s' = c2s
           /\ \A i \in 1 .. Len(c2s') : c2s'[i].name = "SELECT" =>
                i \in 1 .. Len(c2s) /\ c2s'[i] = c2s[i]
           /\ c2s # <<>> => c2s' # <<>> /\ Head(c2s') = Head(c2s)
<1>1. CASE c2s' = c2s
    BY <1>1 DEF WireTypeOK
<1>2. ASSUME ~Selecting, NEW c \in Command, c.name # "SELECT", c2s' = Append(c2s, c)
      PROVE  /\ c2s' \in Seq(Command)
             /\ \A i \in 1 .. Len(c2s') : c2s'[i].name = "SELECT" =>
                  i \in 1 .. Len(c2s) /\ c2s'[i] = c2s[i]
             /\ c2s # <<>> => c2s' # <<>> /\ Head(c2s') = Head(c2s)
    <2>1. c2s' \in Seq(Command) /\ Len(c2s') = Len(c2s) + 1 /\ Len(c2s) \in Nat
        BY <1>2 DEF WireTypeOK
    <2>2. (\A i \in 1 .. Len(c2s) : c2s'[i] = c2s[i]) /\ c2s'[Len(c2s) + 1] = c
        BY <1>2 DEF WireTypeOK
    <2>3. \A i \in 1 .. Len(c2s') : i \in 1 .. Len(c2s) \/ i = Len(c2s) + 1
        BY <2>1
    <2>4. c2s # <<>> => c2s' # <<>> /\ Head(c2s') = Head(c2s)
        BY <1>2 DEF WireTypeOK
    <2> QED
        BY <1>2, <2>1, <2>2, <2>3, <2>4
<1> QED
    BY <1>1, <1>2 DEF Sends

\* After a response has been taken the others have moved up by one.
LEMMA ConsumeType ==
    ASSUME WireTypeOK, s2c # <<>>, Consume
    PROVE  /\ s2c' \in Seq(Response) /\ Len(s2c) \in Nat /\ Len(s2c') = Len(s2c) - 1
           /\ Head(s2c) = s2c[1] /\ Head(s2c) \in Response /\ 1 \in 1 .. Len(s2c)
           /\ \A i \in 1 .. Len(s2c') : i + 1 \in 1 .. Len(s2c) /\ s2c'[i] = s2c[i + 1]
           /\ \A i \in 1 .. Len(s2c) : i # 1 => i - 1 \in 1 .. Len(s2c') /\ s2c'[i - 1] = s2c[i]
BY DEF WireTypeOK, Consume

\* Taking a response and sending a command that is not SELECT keeps the order of
\* the answers.
LEMMA ClientConsumes ==
    ASSUME IInv, s2c # <<>>, Consume, Sends, StillSearches, UNCHANGED serverVars,
           phase # "offline", phase' # "offline", Selecting' = Selecting
    PROVE  WireTypeOK' /\ WireInv'
<1>1. WireTypeOK
    BY DEF IInv, TypeOK
<1>2. \A type : Carried(type)' => Carried(type)
    BY <1>1, ConsumeType DEF Carried
<1>3. OfflineIsSilent'
    BY DEF OfflineIsSilent
<1>4. SelectIsAlone'
    <2>1. CASE Selecting
        <3>1. c2s' = c2s
            BY <1>1, <2>1, SendsType
        <3>2. /\ Len(c2s) <= 1 /\ ~Carried("SEARCH")'
              /\ \A i \in 1 .. Len(c2s) : c2s[i].name = "SELECT"
            BY <1>2, <2>1 DEF IInv, WireInv, SelectIsAlone
        <3>3. ASSUME NEW i \in 1 .. Len(s2c'), s2c'[i].type = "OK"
              PROVE  /\ s2c'[i].name = "SELECT" /\ c2s = <<>>
                     /\ \A j \in 1 .. Len(s2c') : s2c'[j].type = "OK" => j = i
            <4>1. i + 1 \in 1 .. Len(s2c) /\ s2c'[i] = s2c[i + 1]
                BY <1>1, ConsumeType
            <4>2. /\ s2c[i + 1].name = "SELECT" /\ c2s = <<>>
                  /\ \A j \in 1 .. Len(s2c) : s2c[j].type = "OK" => j = i + 1
                BY <2>1, <3>3, <4>1 DEF IInv, WireInv, SelectIsAlone
            <4>3. \A j \in 1 .. Len(s2c') : s2c'[j].type = "OK" => j + 1 = i + 1
                BY <1>1, <4>2, ConsumeType
            <4>4. \A j \in 1 .. Len(s2c') : j + 1 = i + 1 => j = i
                BY <1>1, ConsumeType
            <4> QED
                BY <4>1, <4>2, <4>3, <4>4
        <3> QED
            BY <2>1, <3>1, <3>2, <3>3 DEF SelectIsAlone
    <2>2. CASE ~Selecting
        <3>1. \A i \in 1 .. Len(c2s') : c2s'[i].name # "SELECT"
            BY <1>1, <2>2, SendsType DEF IInv, WireInv, SelectIsAlone
        <3>2. \A i \in 1 .. Len(s2c') : ~OkAt(i, "SELECT")'
            BY <1>1, <2>2, ConsumeType DEF IInv, WireInv, SelectIsAlone, OkAt
        <3> QED
            BY <2>2, <3>1, <3>2 DEF SelectIsAlone
    <2> QED
        BY <2>1, <2>2
<1>5. ReportsWhatItHas'
    <2>1. StoredUids' = StoredUids /\ UNCHANGED <<started, selected, reporting>>
        BY DEF serverVars, mailboxVars, sessionVars, StoredUids
    <2>2. c2s # <<>> => c2s' # <<>>
        BY <1>1, SendsType
    <2> QED
        BY <1>2, <2>1, <2>2 DEF IInv, WireInv, ReportsWhatItHas
<1>6. SearchBeforeOk'
    <2>1. UNCHANGED started
        BY DEF serverVars, sessionVars
    <2>2. \A i \in 1 .. Len(s2c') : \A j \in 1 .. i + 1 - 1 : j # 1 =>
            j - 1 \in 1 .. i - 1 /\ s2c'[j - 1] = s2c[j]
        BY <1>1, ConsumeType
    <2>3. ASSUME Searching'
          PROVE  /\ \A i \in 1 .. Len(s2c') : OkAt(i, "UID SEARCH")' =>
                    \E j \in 1 .. i - 1 : s2c'[j].type = "SEARCH"
                 /\ (started' /\ Head(c2s').name = "UID SEARCH") => Carried("SEARCH")'
        <3>1. Searching /\ Head(s2c).type # "SEARCH"
            BY <2>3 DEF StillSearches
        <3>2. ASSUME NEW i \in 1 .. Len(s2c'), OkAt(i, "UID SEARCH")'
              PROVE  \E j \in 1 .. i - 1 : s2c'[j].type = "SEARCH"
            <4>1. PICK k \in 1 .. Len(s2c) : k = i + 1 /\ OkAt(k, "UID SEARCH")
                BY <1>1, <3>2, ConsumeType DEF OkAt
            <4>2. \E j \in 1 .. k - 1 : s2c[j].type = "SEARCH"
                BY <3>1, <4>1 DEF IInv, WireInv, SearchBeforeOk
            <4>6. k = i + 1
                BY <4>1
            <4>3. PICK j \in 1 .. i + 1 - 1 : s2c[j].type = "SEARCH"
                BY <4>2, <4>6
            <4>4. j # 1
                BY <1>1, <3>1, <4>3, ConsumeType
            <4>5. j - 1 \in 1 .. i - 1 /\ s2c'[j - 1] = s2c[j]
                BY <2>2, <4>4
            <4> QED
                BY <4>3, <4>5
        <3>3. Carried("SEARCH") => Carried("SEARCH")'
            <4>1. \A i \in 1 .. Len(s2c) : s2c[i].type = "SEARCH" =>
                    i - 1 \in 1 .. Len(s2c') /\ s2c'[i - 1].type = "SEARCH"
                BY <1>1, <3>1, ConsumeType
            <4> QED
                BY <4>1 DEF Carried
        <3>4. (started /\ Head(c2s).name = "UID SEARCH") => Carried("SEARCH")
            BY <3>1 DEF IInv, WireInv, SearchBeforeOk
        <3>5. started => Head(c2s') = Head(c2s)
            BY <1>1, SendsType DEF IInv, WireInv, ReportsWhatItHas
        <3> QED
            BY <2>1, <3>2, <3>3, <3>4, <3>5
    <2> QED
        BY <2>3 DEF SearchBeforeOk
<1>7. WireTypeOK'
    BY <1>1, SendsType, ConsumeType DEF WireTypeOK
<1> QED
    BY <1>3, <1>4, <1>5, <1>6, <1>7 DEF WireInv

\* The tagged OK of SELECT comes once, when nothing else is asked for.
LEMMA SelectAnswered ==
    ASSUME IInv, SelectArrived
    PROVE  /\ s2c # <<>> /\ c2s = <<>> /\ ~started /\ selected /\ ~flagsCmd
           /\ phase = "obtaining" /\ status = "SELECTING"
           /\ ~Carried("SEARCH")
           /\ \A i \in 1 .. Len(s2c) : s2c[i].type = "OK" => i = 1
<1>1. /\ phase = "obtaining" /\ s2c # <<>> /\ 1 \in 1 .. Len(s2c)
      /\ s2c[1].type = "OK" /\ s2c[1].name = "SELECT"
    BY DEF SelectArrived, Obtaining, Received, IInv, TypeOK, WireTypeOK
<1>2. Selecting
    BY <1>1 DEF IInv, WireInv, SelectIsAlone, OkAt
<1>3. /\ c2s = <<>> /\ ~Carried("SEARCH")
      /\ \A i \in 1 .. Len(s2c) : s2c[i].type = "OK" => i = 1
    BY <1>1, <1>2 DEF IInv, WireInv, SelectIsAlone
<1>4. Carried("OK")
    BY <1>1 DEF Carried
<1>5. ~started /\ selected
    BY <1>1, <1>3, <1>4 DEF IInv, WireInv, ReportsWhatItHas
<1>6. status = "SELECTING" /\ ~flagsCmd
    BY <1>2 DEF Selecting, IInv, ExistsKept
<1> QED
    BY <1>1, <1>3, <1>5, <1>6

\* After it the client may send the first command of its own.
LEMMA SelectLeft ==
    ASSUME IInv, SelectArrived, Consume, UNCHANGED serverVars,
           phase' # "offline", ~Selecting',
           \/ c2s' = c2s
           \/ \E c \in Command : c.name # "SELECT" /\ c2s' = Append(c2s, c)
    PROVE  WireTypeOK' /\ WireInv'
<1>1. WireTypeOK /\ s2c # <<>> /\ c2s = <<>>
    BY SelectAnswered DEF IInv, TypeOK
<1>2. \A i \in 1 .. Len(s2c') : s2c'[i].type # "OK"
    <2>1. ASSUME NEW i \in 1 .. Len(s2c'), s2c'[i].type = "OK" PROVE FALSE
        <3>1. i + 1 \in 1 .. Len(s2c) /\ s2c[i + 1].type = "OK"
            BY <1>1, <2>1, ConsumeType
        <3>2. i + 1 = 1
            BY <3>1, SelectAnswered
        <3> QED
            BY <3>2
    <2> QED
        BY <2>1
<1>3. c2s' \in Seq(Command) /\ \A i \in 1 .. Len(c2s') : c2s'[i].name # "SELECT"
    <2>1. ASSUME NEW c \in Command, c.name # "SELECT", c2s' = Append(c2s, c)
          PROVE  c2s' \in Seq(Command) /\ \A i \in 1 .. Len(c2s') : c2s'[i].name # "SELECT"
        <3>1. c2s' = <<c>>
            BY <1>1, <2>1
        <3> QED
            BY <2>1, <3>1
    <2>2. CASE c2s' = c2s
        BY <1>1, <2>2
    <2> QED
        BY <2>1, <2>2
<1>4. UNCHANGED <<started, selected, reporting>> /\ StoredUids' = StoredUids
    BY DEF serverVars, mailboxVars, sessionVars, StoredUids
<1>5. ~started' /\ selected'
    BY <1>4, SelectAnswered
<1>6. WireTypeOK'
    BY <1>1, <1>3, ConsumeType DEF WireTypeOK
<1>7. OfflineIsSilent'
    BY DEF OfflineIsSilent
<1>8. SelectIsAlone'
    BY <1>2, <1>3 DEF SelectIsAlone, OkAt
<1>9. ReportsWhatItHas'
    BY <1>4, <1>5 DEF IInv, WireInv, ReportsWhatItHas
<1>10. SearchBeforeOk'
    BY <1>2, <1>5 DEF SearchBeforeOk, OkAt
<1> QED
    BY <1>6, <1>7, <1>8, <1>9, <1>10 DEF WireInv

-----------------------------------------------------------------------------
(* The connection comes and goes.                                           *)

\* Nothing is left of the session but what the cache has.
LEMMA GoOfflineStep ==
    ASSUME IInv, GoOffline, UNCHANGED cacheVars, failure' \in Failure,
           ThrottleTypeOK', losses' \in 0 .. MaxLosses
    PROVE  IInv'
<1>1. ServerTypeOK'
    BY DEF GoOffline, mailboxVars, IInv, TypeOK, ServerTypeOK
<1>2. WireTypeOK'
    BY DEF GoOffline, WireTypeOK
<1>3. TreeTypeOK'
    <2>1. NoSyncState \in SyncState /\ <<>> \in Seq(Message)
        BY DEF NoSyncState, SyncState, Fields
    <2> QED
        BY <2>1 DEF GoOffline, TreeTypeOK
<1>4. CacheTypeOK'
    BY DEF cacheVars, CacheTypeOK, IInv, TypeOK
<1>5. TaskTypeOK'
    BY DEF GoOffline, ForgetTask, TaskTypeOK, Status, NoSyncState, SyncState, Fields
<1>6. WireInv'
    <2>1. ~Selecting' /\ ~Searching' /\ phase' = "offline" /\ ~started' /\ ~selected'
          /\ c2s' = <<>> /\ s2c' = <<>> /\ reporting' = {}
        BY DEF GoOffline, Selecting, Searching
    <2>2. OfflineIsSilent' /\ ReportsWhatItHas' /\ SearchBeforeOk'
        BY <2>1 DEF OfflineIsSilent, ReportsWhatItHas, SearchBeforeOk
    <2>3. SelectIsAlone'
        BY <2>1 DEF SelectIsAlone
    <2> QED
        BY <2>2, <2>3 DEF WireInv
<1>7. ExistsKept' /\ ExistsMatchesList'
    BY DEF GoOffline, ForgetTask, ExistsKept, ExistsMatchesList
<1> QED
    BY <1>1, <1>2, <1>3, <1>4, <1>5, <1>6, <1>7 DEF IInv, TypeOK

\* An exception leaves the counts of KeepMailboxOpenTask alone or resets them.
LEMMA ThrowStep ==
    ASSUME IInv, NEW reason \in Failure, Throw(reason), ThrottleTypeOK',
           losses' \in 0 .. MaxLosses
    PROVE  IInv'
BY GoOfflineStep DEF Throw

\* A lost connection leaves only the cache behind.
LEMMA LoseConnectionStep ==
    ASSUME IInv, LoseConnection
    PROVE  IInv'
<1>1. failure' \in Failure /\ losses' \in 0 .. MaxLosses
    BY LossesAssumption DEF LoseConnection, IInv, TypeOK, TaskTypeOK
<1>2. ThrottleTypeOK'
    BY DEF LoseConnection, ResetThrottle, ThrottleTypeOK
<1> QED
    BY <1>1, <1>2, GoOfflineStep DEF LoseConnection

\* perform() sends SELECT on a silent connection.
LEMMA OpenMailboxStep ==
    ASSUME IInv, OpenMailbox
    PROVE  IInv'
<1>1. PICK c \in Command : c.name = "SELECT" /\ c2s' = Append(c2s, c)
    <2>1. cachedSync.uidValidity \in Nat /\ cachedSync.highestModSeq \in Nat
        BY DEF IInv, TypeOK, CacheTypeOK, SyncState
    <2>2. /\ Select(cachedSync.uidValidity, cachedSync.highestModSeq) \in Command
          /\ Select(cachedSync.uidValidity, cachedSync.highestModSeq).name = "SELECT"
          /\ Select(0, 0) \in Command /\ Select(0, 0).name = "SELECT"
        BY <2>1, CommandTypes
    <2> QED
        BY <2>2 DEF OpenMailbox, Perform, Send
<1>2. phase = "offline" /\ c2s = <<>> /\ s2c = <<>> /\ ~started /\ ~selected
    BY DEF OpenMailbox, Perform, IInv, WireInv, OfflineIsSilent
<1>3. /\ phase' = "obtaining" /\ status' = "SELECTING" /\ s2c' = <<>>
      /\ UNCHANGED <<flagsCmd, onlyNew, firstUnknownUidOffset>>
    BY <1>2 DEF OpenMailbox, Perform
<1>4. c2s' = <<c>>
    BY <1>1, <1>2
<1>5. ServerTypeOK'
    BY DEF OpenMailbox, Perform, serverVars, mailboxVars, sessionVars, IInv, TypeOK,
           ServerTypeOK
<1>6. WireTypeOK'
    BY <1>3, <1>4 DEF WireTypeOK
<1>7. TreeTypeOK'
    <2>1. children' \in Seq(Message)
        <3> DEFINE list == [i \in 1 .. Len(cachedUids) |-> CachedMessage(cachedUids[i])]
        <3>1. cachedUids \in Seq(0 .. MaxUid) /\ cachedFlags \in [0 .. MaxUid -> Nat]
            BY DEF IInv, TypeOK, CacheTypeOK
        <3>2. \A i \in 1 .. Len(cachedUids) : CachedMessage(cachedUids[i]) \in Message
            <4>1. \A i \in 1 .. Len(cachedUids) : cachedUids[i] \in 0 .. MaxUid
                <5>1. cachedUids \in Seq(0 .. MaxUid)
                    BY <3>1
                <5> QED
                    BY <5>1, SeqItem
            <4>2. \A u \in 0 .. MaxUid : CachedMessage(u) \in Message
                BY <3>1 DEF CachedMessage, Message
            <4> QED
                BY <4>1, <4>2
        <3>3. list \in [1 .. Len(cachedUids) -> Message] /\ Len(cachedUids) \in Nat
            BY <3>1, <3>2
        <3> HIDE DEF list
        <3>4. list \in Seq(Message)
            BY <3>3, SeqOfRange
        <3> QED
            BY <3>4 DEF list, OpenMailbox, Perform, askForMessagesInMailbox
    <2>2. numbersFetched' \in BOOLEAN
        BY DEF OpenMailbox, Perform, askForMessagesInMailbox, isUsableForSyncing
    <2> QED
        BY <2>1, <2>2 DEF OpenMailbox, Perform, TreeTypeOK, NoSyncState, SyncState, Fields
<1>8. CacheTypeOK'
    BY DEF OpenMailbox, Perform, cacheVars, CacheTypeOK, IInv, TypeOK
<1>9. TaskTypeOK'
    <2>1. usingQresync' \in BOOLEAN
        BY DEF OpenMailbox, Perform
    <2>2. oldSyncState' \in SyncState /\ failure' \in Failure
        BY DEF OpenMailbox, Perform, IInv, TypeOK, CacheTypeOK, Failure
    <2> QED
        BY <1>3, <2>1, <2>2 DEF OpenMailbox, Perform, IInv, TypeOK, TaskTypeOK, Status
<1>10. ThrottleTypeOK' /\ losses' \in 0 .. MaxLosses
    BY DEF OpenMailbox, ResetThrottle, ThrottleTypeOK, IInv, TypeOK
<1>11. WireInv'
    <2>1. UNCHANGED <<started, selected, reporting>>
        BY DEF OpenMailbox, Perform, serverVars, sessionVars
    <2>2. Selecting' /\ ~Searching'
        BY <1>3 DEF Selecting, Searching
    <2>3. ~Carried("OK")' /\ ~Carried("SEARCH")'
        BY <1>3 DEF Carried
    <2>4. SelectIsAlone'
        BY <1>1, <1>3, <1>4, <2>2, <2>3 DEF SelectIsAlone
    <2>5. reporting = {}
        BY <1>2 DEF IInv, WireInv, ReportsWhatItHas
    <2>6. ReportsWhatItHas'
        BY <1>2, <2>1, <2>2, <2>3, <2>5 DEF ReportsWhatItHas
    <2> QED
        BY <1>3, <2>2, <2>4, <2>6 DEF WireInv, OfflineIsSilent, SearchBeforeOk
<1>12. ExistsKept' /\ ExistsMatchesList'
    <2>1. ~flagsCmd /\ (~onlyNew => firstUnknownUidOffset = 0)
        BY <1>2 DEF IInv, ExistsKept
    <2> QED
        BY <1>3, <2>1 DEF ExistsKept, ExistsMatchesList
<1> QED
    BY <1>5, <1>6, <1>7, <1>8, <1>9, <1>10, <1>11, <1>12 DEF IInv, TypeOK

-----------------------------------------------------------------------------
(* The ways of synchronizing.                                               *)

ClientTypeOK == TreeTypeOK /\ CacheTypeOK /\ TaskTypeOK
Counts == ExistsKept /\ ExistsMatchesList

\* A command that is not SELECT is sent.
SendsOther == \E c \in Command : c.name # "SELECT" /\ c2s' = Append(c2s, c)

\* What is left of a session which is not the business of the two tasks.
Aside == UNCHANGED <<serverVars, throttleVars, losses>>

\* The parts of IInv which a step of the client has to show.
LEMMA ClientStep ==
    ASSUME IInv, Aside, WireTypeOK', WireInv', ClientTypeOK', Counts'
    PROVE  IInv'
<1>1. ServerTypeOK'
    BY DEF Aside, serverVars, mailboxVars, sessionVars, IInv, TypeOK, ServerTypeOK
<1>2. ThrottleTypeOK' /\ losses' \in 0 .. MaxLosses
    BY DEF Aside, throttleVars, IInv, TypeOK, ThrottleTypeOK
<1> QED
    BY <1>1, <1>2 DEF IInv, TypeOK, ClientTypeOK, Counts

\* The cache takes what fits into it.
LEMMA SaveTypes ==
    ASSUME NEW list \in Seq(Message), NEW ss \in SyncState, SaveSyncStateAndUids(list, ss)
    PROVE  cachedSync' \in SyncState /\ cachedUids' \in Seq(0 .. MaxUid)
<1>1. Reloaded(ss) \in SyncState
    BY DEF Reloaded, SyncState
<1>2. list \in Seq(Messages(MaxUid)) /\ MaxUid \in Nat
    BY MessageIsMessages, BoundsAssumption
<1>3. UidsOf(list) \in Seq(0 .. MaxUid)
    BY <1>2, ListTypes
<1> QED
    BY <1>1, <1>3 DEF SaveSyncStateAndUids

\* Once the task has finished, the list is open and the task is forgotten.
LEMMA CompleteStep ==
    ASSUME IInv, NEW list \in Seq(Message), NEW ss \in SyncState, Complete(list, ss),
           children' \in Seq(Message), ss.exists = Len(children'), syncState' = ss,
           numbersFetched' \in BOOLEAN, cachedFlags' \in [0 .. MaxUid -> Nat],
           newArrivalsFetch' \in Nat, failure' \in Failure
    PROVE  /\ ClientTypeOK' /\ Counts'
           /\ phase' = "open" /\ ~Selecting' /\ ~Searching'
<1>1. cachedSync' \in SyncState /\ cachedUids' \in Seq(0 .. MaxUid)
    BY SaveTypes DEF Complete
<1>2. TreeTypeOK' /\ CacheTypeOK'
    BY <1>1 DEF Complete, TreeTypeOK, CacheTypeOK
<1>3. NoSyncState \in SyncState
    BY DEF NoSyncState, SyncState, Fields
<1>4. TaskTypeOK'
    BY <1>3 DEF Complete, ForgetTask, TaskTypeOK, Status
<1>5. phase' = "open" /\ ~Selecting' /\ ~Searching'
    BY DEF Complete, Selecting, Searching
<1>6. ExistsMatchesList'
    BY DEF ExistsMatchesList
<1>7. ExistsKept'
    BY <1>5 DEF ExistsKept, Complete, ForgetTask
<1> QED
    BY <1>2, <1>4, <1>5, <1>6, <1>7 DEF ClientTypeOK, Counts

\* UID SEARCH is sent after SELECT.
LEMMA SyncUidsStep ==
    ASSUME IInv, SelectArrived, Consume, Aside,
           NEW from \in Nat, NEW only \in BOOLEAN, NEW offset \in Nat, NEW old \in SyncState,
           syncUids(from, only, offset, old), ~only => offset = 0,
           children' \in Seq(Message), syncState' \in SyncState, CacheTypeOK',
           usingQresync' \in BOOLEAN, UNCHANGED <<newArrivalsFetch, failure>>
    PROVE  IInv'
<1>1. /\ phase' = "obtaining" /\ status' = "SYNCING_UIDS" /\ ~flagsCmd'
      /\ onlyNew' = only /\ firstUnknownUidOffset' = offset
    BY SelectAnswered DEF syncUids
<1>2. TreeTypeOK'
    BY DEF syncUids, IInv, TypeOK, TreeTypeOK
<1>3. TaskTypeOK'
    BY <1>1 DEF syncUids, IInv, TypeOK, TaskTypeOK, Status
<1>4. Counts'
    BY <1>1 DEF Counts, ExistsKept, ExistsMatchesList
<1>5. SendsOther
    <2>1. UidSearch(from) \in Command /\ UidSearch(from).name # "SELECT"
        BY CommandTypes
    <2> QED
        BY <2>1 DEF SendsOther, syncUids, Send
<1>6. ~Selecting'
    BY <1>1 DEF Selecting
<1>7. WireTypeOK' /\ WireInv'
    BY <1>1, <1>5, <1>6, SelectLeft DEF SendsOther, Aside
<1> QED
    BY <1>2, <1>3, <1>4, <1>7, ClientStep DEF ClientTypeOK

\* fullMboxSync() makes as many new rows as EXISTS says, or finishes at once.
LEMMA FullMboxSyncStep ==
    ASSUME IInv, SelectArrived, Consume, Aside,
           NEW ss \in SyncState, NEW old \in SyncState, NEW forget \in BOOLEAN,
           NEW qresync \in BOOLEAN, fullMboxSync(ss, old, forget, qresync)
    PROVE  IInv'
<1>1. ss.exists \in Nat
    BY DEF SyncState
<1>2. Fresh(ss.exists) \in Seq(Message) /\ Len(Fresh(ss.exists)) = ss.exists
    <2>1. <<>> \in Seq(Messages(MaxUid)) /\ MaxUid \in Nat
        BY BoundsAssumption
    <2>2. /\ Fresh(ss.exists) \in Seq(Messages(MaxUid))
          /\ Len(Fresh(ss.exists)) = ss.exists
        BY <1>1, <2>1, ListTypes
    <2> QED
        BY <2>2, MessageIsMessages
<1>3. cachedFlags' \in [0 .. MaxUid -> Nat]
    BY DEF fullMboxSync, NoFlags, IInv, TypeOK, CacheTypeOK
<1>4. children' = Fresh(ss.exists) /\ syncState' = ss /\ UNCHANGED <<newArrivalsFetch, failure>>
    BY DEF fullMboxSync
<1>5. CASE ss.exists > 0
    <2>1. syncUids(0, FALSE, 0, old) /\ usingQresync' \in BOOLEAN
        BY <1>5 DEF fullMboxSync
    <2>2. cachedSync' \in SyncState /\ cachedUids' \in Seq(0 .. MaxUid)
        <3>1. cachedUids \in Seq(0 .. MaxUid) /\ <<>> \in Seq(0 .. MaxUid)
            BY DEF IInv, TypeOK, CacheTypeOK
        <3>2. cachedUids' = <<>> \/ cachedUids' = cachedUids
            BY <1>5 DEF fullMboxSync
        <3>3. cachedSync' \in SyncState
            BY <1>5 DEF fullMboxSync, IInv, TypeOK, CacheTypeOK
        <3> QED
            BY <3>1, <3>2, <3>3
    <2>3. CacheTypeOK'
        BY <1>3, <2>2 DEF CacheTypeOK
    <2> QED
        BY <1>2, <1>4, <2>1, <2>3, SyncUidsStep
<1>6. CASE ~(ss.exists > 0)
    <2>1. Complete(<<>>, ss) /\ numbersFetched' \in BOOLEAN /\ c2s' = c2s
        BY <1>6 DEF fullMboxSync
    <2>2. <<>> \in Seq(Message)
        OBVIOUS
    <2>3. newArrivalsFetch' \in Nat /\ failure' \in Failure
        BY <1>4 DEF IInv, TypeOK, TaskTypeOK
    <2>4. ClientTypeOK' /\ Counts' /\ phase' = "open" /\ ~Selecting'
        BY <1>2, <1>3, <1>4, <2>1, <2>2, <2>3, CompleteStep
    <2>5. WireTypeOK' /\ WireInv'
        BY <2>1, <2>4, SelectLeft DEF Aside
    <2> QED
        BY <2>4, <2>5, ClientStep
<1> QED
    BY <1>5, <1>6

\* syncFlags() ends the synchronization or asks for flags; EXISTS is right.
LEMMA SyncFlagsStep ==
    ASSUME IInv, phase = "obtaining", NEW list \in Seq(Message),
           NEW status0 \in {"LOADING", "DONE"}, NEW ss \in SyncState, NEW old \in SyncState,
           ss.exists = Len(list), children' = list, syncState' = ss,
           syncFlags(list, status0, ss, old),
           failure' \in Failure, UNCHANGED <<cachedFlags, newArrivalsFetch>>
    PROVE  /\ ClientTypeOK' /\ Counts'
           /\ phase' # "offline" /\ ~Selecting' /\ ~Searching'
           /\ c2s' = c2s \/ SendsOther
<1>1. newArrivalsFetch' \in Nat /\ cachedFlags' \in [0 .. MaxUid -> Nat]
    BY DEF IInv, TypeOK, TaskTypeOK, CacheTypeOK
<1>2. CASE NoFlagChanges(ss, old) /\ newArrivalsFetch = 0
    <2>1. Complete(list, ss) /\ UNCHANGED <<c2s, numbersFetched>>
        BY <1>2 DEF syncFlags
    <2>2. numbersFetched' \in BOOLEAN
        BY <2>1 DEF IInv, TypeOK, TreeTypeOK
    <2>3. children' \in Seq(Message) /\ ss.exists = Len(children')
        OBVIOUS
    <2> QED
        BY <1>1, <2>1, <2>2, <2>3, CompleteStep
<1>3. CASE ~(NoFlagChanges(ss, old) /\ newArrivalsFetch = 0)
    <2> DEFINE since == IF CanUseModSeq(ss, old) /\ old.highestModSeq < ss.highestModSeq
                        THEN old.highestModSeq ELSE 0
    <2>1. /\ status' \in {"SYNCING_FLAGS", "DONE"}
          /\ flagsCmd' = TRUE
          /\ Send(Fetch(ss.exists, since))
          /\ numbersFetched' = FALSE
          /\ fetchStatus' = status0
          /\ oldSyncState' = old
          /\ UNCHANGED <<phase, cachedSync, cachedUids, usingQresync, onlyNew,
                         firstUnknownUidOffset>>
        BY <1>3 DEF syncFlags
    <2>2. ss.exists \in Nat /\ since \in Nat
        BY DEF SyncState
    <2> HIDE DEF since
    <2>3. SendsOther
        BY <2>1, <2>2, CommandTypes DEF SendsOther, Send
    <2>4. TreeTypeOK'
        BY <2>1 DEF TreeTypeOK
    <2>5. CacheTypeOK'
        BY <1>1, <2>1 DEF IInv, TypeOK, CacheTypeOK
    <2>6. TaskTypeOK'
        BY <1>1, <2>1 DEF IInv, TypeOK, TaskTypeOK, Status
    <2>7. phase' = "obtaining" /\ ~Selecting' /\ ~Searching'
        BY <2>1 DEF Selecting, Searching
    <2>8. Counts'
        BY <2>1, <2>7 DEF Counts, ExistsKept, ExistsMatchesList, IInv
    <2> QED
        BY <2>3, <2>4, <2>5, <2>6, <2>7, <2>8 DEF ClientTypeOK
<1> QED
    BY <1>2, <1>3

\* Every outcome of finalizeSelect().
LEMMA FinalizeSelectStep ==
    ASSUME IInv, FinalizeSelect, UNCHANGED <<throttleVars, losses>>
    PROVE  IInv'
<1>1. SelectArrived
    BY DEF FinalizeSelect, SelectOk, FinalizeInconsistentCache,
           FinalizeQresyncContradiction, FinalizeQresync, FinalizeEmptyMailbox,
           FinalizeNoNewNoDeletions, FinalizeOnlyAdditions, FinalizeGeneric,
           FinalizeFromScratch
<1>2. syncState \in SyncState /\ cachedSync \in SyncState /\ usingQresync \in BOOLEAN
    BY DEF IInv, TypeOK, TreeTypeOK, CacheTypeOK, TaskTypeOK
<1>3. /\ setHighestModSeq(syncState, 0) \in SyncState
      /\ setHighestModSeq(cachedSync, 0) \in SyncState
    BY <1>2, SyncStateType
<1>4. SelectOk => Consume /\ Aside
    BY DEF SelectOk, Aside
<1>5. children \in Seq(Message) /\ CacheTypeOK
    BY DEF IInv, TypeOK, TreeTypeOK
<1>6. CASE FinalizeInconsistentCache
    BY <1>1, <1>2, <1>3, <1>4, <1>6, FullMboxSyncStep DEF FinalizeInconsistentCache
<1>7. CASE FinalizeQresyncContradiction
    BY <1>1, <1>2, <1>3, <1>4, <1>7, FullMboxSyncStep DEF FinalizeQresyncContradiction
<1>8. CASE FinalizeQresync
    <2>1. /\ Consume /\ Aside /\ syncState.exists = Len(children)
          /\ UNCHANGED <<syncState, cachedFlags, failure>>
        BY <1>4, <1>8 DEF FinalizeQresync, QresyncContradiction
    <2>2. cachedFlags' \in [0 .. MaxUid -> Nat] /\ failure' \in Failure
        BY <2>1 DEF IInv, TypeOK, CacheTypeOK, TaskTypeOK
    <2>3. CASE UidsMissing
        <3>1. /\ RequestArrivals(Larger(cachedSync.uidNext, 1))
              /\ status' = "DONE" /\ fetchStatus' = "DONE" /\ oldSyncState' = cachedSync
              /\ UNCHANGED <<children, numbersFetched, cachedSync, cachedUids, phase,
                             usingQresync, onlyNew, firstUnknownUidOffset, flagsCmd>>
            BY <1>8, <2>3 DEF FinalizeQresync
        <3>2. SendsOther /\ newArrivalsFetch' \in Nat
            <4>1. Larger(cachedSync.uidNext, 1) \in Nat
                BY <1>2 DEF Larger, SyncState
            <4>2. newArrivalsFetch' \in Nat
                BY <3>1 DEF RequestArrivals, IInv, TypeOK, TaskTypeOK
            <4> QED
                BY <3>1, <4>1, <4>2, CommandTypes DEF RequestArrivals, Send, SendsOther
        <3>3. phase' = "obtaining" /\ ~Selecting' /\ ~flagsCmd'
            BY <1>1, <3>1, SelectAnswered DEF Selecting
        <3>4. TreeTypeOK' /\ CacheTypeOK'
            BY <2>1, <2>2, <3>1 DEF IInv, TypeOK, TreeTypeOK, CacheTypeOK
        <3>5. TaskTypeOK'
            BY <1>2, <2>2, <3>1, <3>2 DEF IInv, TypeOK, TaskTypeOK, Status
        <3>6. Counts'
            BY <2>1, <3>1, <3>3 DEF Counts, ExistsKept, ExistsMatchesList, IInv
        <3>7. WireTypeOK' /\ WireInv'
            BY <1>1, <2>1, <3>2, <3>3, SelectLeft DEF SendsOther, Aside
        <3> QED
            BY <2>1, <3>4, <3>5, <3>6, <3>7, ClientStep DEF ClientTypeOK
    <2>4. CASE ~UidsMissing
        <3>1. /\ children' = AllHandled(children) /\ numbersFetched' \in BOOLEAN
              /\ Complete(children, syncState)
              /\ UNCHANGED <<c2s, newArrivalsFetch>>
            BY <1>8, <2>4 DEF FinalizeQresync
        <3>2. /\ AllHandled(children) \in Seq(Message)
              /\ Len(AllHandled(children)) = Len(children)
            BY <1>5, MessageIsMessages, ListTypes, BoundsAssumption
        <3>3. newArrivalsFetch' \in Nat
            BY <3>1 DEF IInv, TypeOK, TaskTypeOK
        <3>4. ClientTypeOK' /\ Counts' /\ phase' = "open" /\ ~Selecting'
            BY <1>2, <1>5, <2>1, <2>2, <3>1, <3>2, <3>3, CompleteStep
        <3>5. WireTypeOK' /\ WireInv'
            BY <1>1, <2>1, <3>1, <3>4, SelectLeft DEF Aside
        <3> QED
            BY <2>1, <3>4, <3>5, ClientStep
    <2> QED
        BY <2>3, <2>4
<1>9. CASE FinalizeEmptyMailbox
    BY <1>1, <1>2, <1>4, <1>9, FullMboxSyncStep DEF FinalizeEmptyMailbox
<1>10. CASE FinalizeNoNewNoDeletions
    <2>1. CASE children # <<>> /\ Len(children) # syncState.exists
        <3>1. Throw("child count mismatch") /\ "child count mismatch" \in Failure
            BY <1>10, <2>1 DEF FinalizeNoNewNoDeletions, Failure, Thrown
        <3>2. ThrottleTypeOK' /\ losses' \in 0 .. MaxLosses
            BY DEF throttleVars, IInv, TypeOK, ThrottleTypeOK
        <3> QED
            BY <3>1, <3>2, ThrowStep
    <2>2. CASE ~(children # <<>> /\ Len(children) # syncState.exists)
        <3> DEFINE list == IF children # <<>> THEN children
                           ELSE [i \in 1 .. syncState.exists |->
                                    [NewMessage EXCEPT !.uid = cachedUids[i]]]
        <3>1. /\ Consume /\ syncNoNewNoDeletions
              /\ UNCHANGED <<serverVars, syncState, cachedFlags, newArrivalsFetch>>
            BY <1>10, <2>2 DEF FinalizeNoNewNoDeletions
        <3>2. list \in Seq(Message) /\ Len(list) = syncState.exists
            <4>1. CASE children # <<>>
                BY <1>5, <2>2, <4>1
            <4>2. CASE children = <<>>
                <5>1. /\ Len(cachedUids) = syncState.exists
                      /\ cachedUids \in Seq(0 .. MaxUid)
                    BY <1>10, <1>5
                    DEF FinalizeNoNewNoDeletions, Incremental, MapMatches, CacheTypeOK
                <5>2. \A i \in 1 .. syncState.exists : cachedUids[i] \in 0 .. MaxUid
                    BY <5>1, SeqItem
                <5>3. \A u \in 0 .. MaxUid : [NewMessage EXCEPT !.uid = u] \in Message
                    BY DEF NewMessage, Message
                <5>4. /\ list \in [1 .. syncState.exists -> Message]
                      /\ syncState.exists \in Nat
                    BY <1>2, <4>2, <5>2, <5>3 DEF SyncState
                <5> HIDE DEF list
                <5> QED
                    BY <5>4, SeqOfRange
            <4> QED
                BY <4>1, <4>2
        <3>3. children' = list /\ syncFlags(list, "DONE", syncState, cachedSync)
            BY <3>1 DEF syncNoNewNoDeletions
        <3>4. failure' \in Failure
            BY <3>1 DEF syncNoNewNoDeletions, Failure, Asserted, IInv, TypeOK, TaskTypeOK
        <3> HIDE DEF list
        <3>5. phase = "obtaining"
            BY <1>1, SelectAnswered
        <3>6. syncState' = syncState /\ UNCHANGED <<cachedFlags, newArrivalsFetch>>
            BY <3>1
        <3>7. /\ ClientTypeOK' /\ Counts' /\ phase' # "offline" /\ ~Selecting'
              /\ c2s' = c2s \/ SendsOther
            BY <1>2, <3>2, <3>3, <3>4, <3>5, <3>6, SyncFlagsStep
        <3>8. WireTypeOK' /\ WireInv'
            BY <1>1, <3>1, <3>7, SelectLeft DEF SendsOther
        <3> QED
            BY <3>1, <3>7, <3>8, ClientStep DEF Aside
    <2> QED
        BY <2>1, <2>2
<1>11. CASE FinalizeOnlyAdditions
    <2>1. /\ syncUids(cachedSync.uidNext, TRUE, cachedSync.exists, cachedSync)
          /\ UNCHANGED <<children, syncState, cacheVars, usingQresync, failure,
                         newArrivalsFetch>>
        BY <1>11 DEF FinalizeOnlyAdditions
    <2>2. cachedSync.uidNext \in Nat /\ cachedSync.exists \in Nat
        BY <1>2 DEF SyncState
    <2>3. /\ children' \in Seq(Message) /\ syncState' \in SyncState
          /\ CacheTypeOK' /\ usingQresync' \in BOOLEAN
        BY <1>2, <1>5, <2>1 DEF cacheVars, CacheTypeOK
    <2>4. Consume /\ Aside
        BY <1>4, <1>11 DEF FinalizeOnlyAdditions
    <2> QED
        BY <1>1, <1>2, <2>1, <2>2, <2>3, <2>4, SyncUidsStep
<1>12. CASE FinalizeGeneric
    <2>1. /\ syncUids(0, FALSE, 0, cachedSync)
          /\ UNCHANGED <<children, syncState, cacheVars, usingQresync, failure,
                         newArrivalsFetch>>
        BY <1>12 DEF FinalizeGeneric
    <2>2. /\ children' \in Seq(Message) /\ syncState' \in SyncState
          /\ CacheTypeOK' /\ usingQresync' \in BOOLEAN
        BY <1>2, <1>5, <2>1 DEF cacheVars, CacheTypeOK
    <2>3. Consume /\ Aside
        BY <1>4, <1>12 DEF FinalizeGeneric
    <2> QED
        BY <1>1, <1>2, <2>1, <2>2, <2>3, SyncUidsStep
<1>13. CASE FinalizeFromScratch
    BY <1>1, <1>2, <1>4, <1>13, FullMboxSyncStep DEF FinalizeFromScratch
<1> QED
    BY <1>6, <1>7, <1>8, <1>9, <1>10, <1>11, <1>12, <1>13 DEF FinalizeSelect

-----------------------------------------------------------------------------
(* What both tasks do to the tree.                                          *)

\* The list, the sync state and the cache have their types, and the list is as
\* good a place to look rows up in as MailboxTreeProofs needs.
LEMMA ListFacts ==
    ASSUME IInv
    PROVE  /\ children \in Seq(Message) /\ Len(children) \in Nat
           /\ children \in Seq(Messages(MaxUid)) /\ MaxUid \in Nat
           /\ syncState \in SyncState /\ syncState.exists \in Nat
           /\ syncState.uidNext \in Nat
           /\ cachedFlags \in [0 .. MaxUid -> Nat]
           /\ fetchStatus \in {"LOADING", "DONE"} /\ numbersFetched \in BOOLEAN
<1>1. TreeTypeOK /\ CacheTypeOK
    BY DEF IInv, TypeOK
<1>2. children \in Seq(Message) /\ syncState \in SyncState
    BY <1>1 DEF TreeTypeOK
<1>3. children \in Seq(Messages(MaxUid)) /\ MaxUid \in Nat
    BY <1>2, MessageIsMessages, BoundsAssumption
<1>4. syncState.exists \in Nat /\ syncState.uidNext \in Nat
    BY <1>2 DEF SyncState
<1>5. /\ cachedFlags \in [0 .. MaxUid -> Nat]
      /\ fetchStatus \in {"LOADING", "DONE"} /\ numbersFetched \in BOOLEAN
    BY <1>1 DEF TreeTypeOK, CacheTypeOK
<1>6. Len(children) \in Nat
    BY <1>2
<1> QED
    BY <1>2, <1>3, <1>4, <1>5, <1>6

\* EXISTS makes the list as long as it says.
LEMMA HandleExistsTypes ==
    ASSUME IInv, NEW n \in Nat, ~ExistsTooLow(n), HandleExists(n)
    PROVE  /\ children' \in Seq(Message) /\ Len(children') = n
           /\ fetchStatus' \in {"LOADING", "DONE"}
<1>1. Larger(n, Len(children)) = n
    BY ListFacts DEF ExistsTooLow, Larger
<1>2. children' = PadTo(children, n) /\ fetchStatus' \in {"LOADING", "DONE"}
    BY ListFacts DEF HandleExists
<1>3. /\ PadTo(children, n) \in Seq(Messages(MaxUid))
      /\ Len(PadTo(children, n)) = Larger(n, Len(children))
    BY ListFacts, ListTypes
<1> QED
    BY <1>1, <1>2, <1>3, MessageIsMessages

\* EXPUNGE makes it shorter by one.
LEMMA HandleExpungeTypes ==
    ASSUME IInv, NEW n \in Nat, ~ExpungeOutOfBounds(n), HandleExpunge(n)
    PROVE  /\ n >= 1 /\ n <= Len(children)
           /\ ListWithoutRow(n) \in Seq(Message)
           /\ children' = ListWithoutRow(n) /\ Len(children') = Len(children) - 1
           /\ numbersFetched' \in BOOLEAN
           /\ cachedFlags' \in [0 .. MaxUid -> Nat]
<1>1. n >= 1 /\ n <= Len(children) /\ n \in 1 .. Len(children)
    BY ListFacts DEF ExpungeOutOfBounds
<1>2. /\ RemoveRow(children, n) \in Seq(Messages(MaxUid))
      /\ Len(RemoveRow(children, n)) = Len(children) - 1
    BY <1>1, ListFacts, RemoveRowType
<1>3. /\ AllHandled(RemoveRow(children, n)) \in Seq(Messages(MaxUid))
      /\ Len(AllHandled(RemoveRow(children, n))) = Len(children) - 1
    BY <1>2, ListFacts, ListTypes
<1>4. /\ ListWithoutRow(n) \in Seq(Message)
      /\ Len(ListWithoutRow(n)) = Len(children) - 1
    BY <1>2, <1>3, MessageIsMessages DEF ListWithoutRow
<1>5. cachedFlags' \in [0 .. MaxUid -> Nat]
    BY ListFacts DEF HandleExpunge
<1> QED
    BY <1>1, <1>4, <1>5 DEF HandleExpunge

\* VANISHED makes EXISTS what the list has.
LEMMA HandleVanishedTypes ==
    ASSUME IInv, NEW uids \in SUBSET Uid, NEW earlier \in BOOLEAN,
           HandleVanished(uids, earlier)
    PROVE  TreeTypeOK' /\ CacheTypeOK' /\ syncState'.exists = Len(children')
<1> DEFINE removed == VanishedUids(children, uids, earlier)
           rows == VanishedRows(children, uids, earlier)
           shorter == RemoveRows(children, rows)
           list == AllHandled(IF earlier THEN PadTo(shorter, syncState.exists)
                              ELSE shorter)
           IsHighest(u) == \A v \in removed : v <= u
           highest == CHOOSE u \in removed : IsHighest(u)
           learnt == IF removed # {} /\ syncState.uidNext <= highest
                     THEN setUidNext(syncState, highest + 1) ELSE syncState
           now == setExists(learnt, Len(list))
<1>1. /\ children' = list /\ numbersFetched' = TRUE /\ syncState' = now
      /\ cachedFlags' = [u \in 0 .. MaxUid |->
                            IF u \in removed THEN 0 ELSE cachedFlags[u]]
      /\ \/ SaveSyncStateAndUids(list, now)
         \/ UNCHANGED <<cachedSync, cachedUids>>
      /\ fetchStatus' = fetchStatus
    BY DEF HandleVanished
<1>2. uids \in SUBSET Nat
    BY BoundsAssumption DEF Uid
<1>3. rows \subseteq 1 .. Len(children) /\ removed \subseteq uids
    BY <1>2, ListFacts, VanishedTypes
<1>4. list \in Seq(Message) /\ Len(list) \in Nat
    <2> HIDE DEF rows
    <2>1. shorter \in Seq(Messages(MaxUid))
        BY <1>3, ListFacts, RemoveRowsType
    <2> HIDE DEF shorter
    <2>2. PadTo(shorter, syncState.exists) \in Seq(Messages(MaxUid))
        BY <2>1, ListFacts, ListTypes
    <2>3. AllHandled(shorter) \in Seq(Messages(MaxUid))
        BY <2>1, ListFacts, ListTypes
    <2>4. AllHandled(PadTo(shorter, syncState.exists)) \in Seq(Messages(MaxUid))
        BY <2>2, ListFacts, ListTypes
    <2>5. list \in Seq(Messages(MaxUid))
        BY <2>3, <2>4
    <2> HIDE DEF list
    <2> QED
        BY <2>5, MessageIsMessages
<1>5. removed # {} => highest \in Nat
    <2> HIDE DEF removed
    <2>1. removed \in SUBSET (0 .. MaxUid)
        BY <1>3 DEF Uid
    <2>2. removed # {} => \E u \in removed : IsHighest(u)
        BY <2>1, BoundsAssumption, GreatestNat
    <2>3. removed # {} => highest \in removed
        BY <2>2
    <2>4. removed \subseteq Nat
        BY <2>1
    <2> HIDE DEF highest
    <2> QED
        BY <2>3, <2>4
<1>6. learnt \in SyncState
    <2> HIDE DEF removed, highest
    <2>1. removed # {} => highest + 1 \in Nat
        BY <1>5
    <2> QED
        BY <2>1, ListFacts, SyncStateType
<1>7. now \in SyncState /\ now.exists = Len(list)
    <2> HIDE DEF learnt, list
    <2> QED
        BY <1>4, <1>6, SyncStateType
<1> HIDE DEF list, now
<1>8. cachedSync' \in SyncState /\ cachedUids' \in Seq(0 .. MaxUid)
    <2>1. CASE SaveSyncStateAndUids(list, now)
        BY <1>4, <1>7, <2>1, SaveTypes
    <2>2. CASE UNCHANGED <<cachedSync, cachedUids>>
        BY <2>2 DEF IInv, TypeOK, CacheTypeOK
    <2> QED
        BY <1>1, <2>1, <2>2
<1>9. cachedFlags' \in [0 .. MaxUid -> Nat]
    <2> HIDE DEF removed
    <2> QED
        BY <1>1, ListFacts
<1>10. TreeTypeOK'
    BY <1>1, <1>4, <1>7, ListFacts DEF TreeTypeOK
<1> QED
    BY <1>1, <1>7, <1>8, <1>9, <1>10 DEF CacheTypeOK

\* FETCH changes one message and leaves EXISTS and the number of messages alone.
LEMMA HandleFetchTypes ==
    ASSUME IInv, NEW r \in Response, r.type = "FETCH", FetchRefused(r) = "none",
           NEW obtaining \in BOOLEAN, HandleFetch(r, obtaining)
    PROVE  /\ TreeTypeOK' /\ CacheTypeOK'
           /\ Len(children') = Len(children) /\ syncState'.exists = syncState.exists
<1> DEFINE old == children[r.number]
           learnsUid == r.uid # 0 /\ old.uid = 0
           uid == IF learnsUid THEN r.uid ELSE old.uid
           raises == learnsUid /\ syncState.uidNext <= r.uid
           newFlags == ~old.handled \/ old.flags # r.flags
           known == IF raises THEN setUidNext(syncState, r.uid + 1) ELSE syncState
           newer == r.modseq > known.highestModSeq
           now == IF newer THEN setHighestModSeq(known, r.modseq) ELSE known
           state == IF raises THEN "LOADING" ELSE fetchStatus
           message == [uid |-> uid, flags |-> r.flags,
                       handled |-> old.handled \/ numbersFetched]
<1>1. /\ children' = [children EXCEPT ![r.number] = message]
      /\ fetchStatus' = state
      /\ syncState' = IF obtaining /\ (learnsUid \/ newFlags) /\ now.uidNext <= uid
                      THEN setUidNext(now, uid + 1) ELSE now
      /\ cachedSync' = IF newer /\ state = "DONE" THEN Reloaded(now) ELSE cachedSync
      /\ cachedFlags' = IF CachesFlags(r, uid, newFlags)
                        THEN [cachedFlags EXCEPT ![uid] = r.flags] ELSE cachedFlags
      /\ UNCHANGED <<numbersFetched, cachedUids>>
    BY DEF HandleFetch
<1>2. /\ r.number \in Nat /\ r.uid \in 0 .. MaxUid /\ r.flags \in Nat /\ r.modseq \in Nat
    BY ResponseFields
<1>3. r.number \in 1 .. Len(children)
    BY <1>2, ListFacts DEF FetchRefused
<1>4. old.uid \in 0 .. MaxUid /\ old.handled \in BOOLEAN
    BY <1>3, ListFacts, ItemType
<1>5. uid \in 0 .. MaxUid /\ uid + 1 \in Nat /\ r.uid + 1 \in Nat
    BY <1>2, <1>4, BoundsAssumption
<1> HIDE DEF uid, newFlags, learnsUid
<1>6. children' \in Seq(Message) /\ Len(children') = Len(children)
    <2>1. message \in Message
        <3>1. (old.handled \/ numbersFetched) \in BOOLEAN
            OBVIOUS
        <3> QED
            BY <1>2, <1>5, <3>1 DEF Message
    <2> HIDE DEF message
    <2>2. children \in Seq(Message) /\ children' = [children EXCEPT ![r.number] = message]
        BY <1>1, ListFacts
    <2> QED
        BY <1>3, <2>1, <2>2
<1>7. known \in SyncState /\ known.exists = syncState.exists
    BY <1>5, ListFacts, SyncStateType
<1> HIDE DEF known, raises
<1>8. now \in SyncState /\ now.exists = syncState.exists
    BY <1>2, <1>7, SyncStateType
<1> HIDE DEF now, newer
<1>9. syncState' \in SyncState /\ syncState'.exists = syncState.exists
    <2>1. setUidNext(now, uid + 1) \in SyncState /\ setUidNext(now, uid + 1).exists = now.exists
        BY <1>5, <1>8, SyncStateType
    <2> QED
        BY <1>1, <1>8, <2>1
<1>10. TreeTypeOK'
    <2>1. state \in {"LOADING", "DONE"}
        BY ListFacts
    <2> QED
        BY <1>1, <1>6, <1>9, <2>1, ListFacts DEF TreeTypeOK
<1>11. cachedSync' \in SyncState
    BY <1>1, <1>8, SyncStateType DEF IInv, TypeOK, CacheTypeOK
<1>12. cachedFlags' \in [0 .. MaxUid -> Nat]
    BY <1>1, <1>2, <1>5, ListFacts
<1>13. CacheTypeOK'
    BY <1>1, <1>11, <1>12 DEF IInv, TypeOK, CacheTypeOK
<1> QED
    BY <1>6, <1>9, <1>10, <1>13

-----------------------------------------------------------------------------
(* The other responses while the mailbox is being synchronized.             *)

\* A received response is the first one on the wire.
LEMMA ReceivedFacts ==
    ASSUME IInv, NEW type, Received(type)
    PROVE  /\ s2c # <<>> /\ Head(s2c) \in Response /\ Head(s2c).type = type
           /\ 1 \in 1 .. Len(s2c) /\ Head(s2c) = s2c[1]
BY DEF Received, IInv, TypeOK, WireTypeOK

\* A response is taken and the order of the rest is what it was.
LEMMA ConsumeStep ==
    ASSUME IInv, s2c # <<>>, Consume, Sends, StillSearches,
           UNCHANGED <<serverVars, losses>>, ThrottleTypeOK',
           phase # "offline", phase' # "offline", Selecting' = Selecting,
           ClientTypeOK', Counts'
    PROVE  IInv'
<1>1. ServerTypeOK'
    BY DEF serverVars, mailboxVars, sessionVars, IInv, TypeOK, ServerTypeOK
<1>2. losses' \in 0 .. MaxLosses
    BY DEF IInv, TypeOK
<1>3. WireTypeOK' /\ WireInv'
    BY ClientConsumes
<1> QED
    BY <1>1, <1>2, <1>3 DEF IInv, TypeOK, ClientTypeOK, Counts

\* The members of the task on which the invariant depends do not change, and it
\* goes on synchronizing.
GoesOn ==
    /\ Aside /\ Consume /\ s2c # <<>> /\ phase = "obtaining"
    /\ Head(s2c).type # "SEARCH"
    /\ UNCHANGED <<phase, failure, status, onlyNew, oldSyncState, flagsCmd>>

\* The other variables have their types, and EXISTS is right if it was to be.
GoesOnWell ==
    /\ TreeTypeOK' /\ CacheTypeOK'
    /\ usingQresync' \in BOOLEAN /\ firstUnknownUidOffset' \in Nat
    /\ ~onlyNew => firstUnknownUidOffset' = 0
    /\ newArrivalsFetch' \in Nat
    /\ c2s' = c2s \/ (status # "SELECTING" /\ SendsOther)
    /\ status \in {"SYNCING_FLAGS", "DONE"} => syncState'.exists = Len(children')

\* A response which leaves the task where it is keeps the invariant.
LEMMA GoesOnStep ==
    ASSUME IInv, GoesOn, GoesOnWell
    PROVE  IInv'
<1>1. phase' = "obtaining" /\ Selecting' = Selecting /\ StillSearches
    BY DEF GoesOn, Selecting, StillSearches, Searching
<1>2. TaskTypeOK'
    BY DEF GoesOn, GoesOnWell, IInv, TypeOK, TaskTypeOK
<1>3. Sends
    BY DEF GoesOn, GoesOnWell, Sends, Selecting, SendsOther
<1>4. Counts'
    <2>1. ExistsMatchesList'
        BY <1>1 DEF ExistsMatchesList
    <2>2. ExistsKept'
        BY DEF GoesOn, GoesOnWell, ExistsKept, IInv
    <2> QED
        BY <2>1, <2>2 DEF Counts
<1>5. ThrottleTypeOK' /\ UNCHANGED <<serverVars, losses>>
    BY DEF GoesOn, Aside, throttleVars, IInv, TypeOK, ThrottleTypeOK
<1>6. s2c # <<>> /\ Consume /\ phase # "offline"
    BY DEF GoesOn
<1>7. ClientTypeOK'
    BY <1>2 DEF GoesOnWell, ClientTypeOK
<1> QED
    BY <1>1, <1>3, <1>4, <1>5, <1>6, <1>7, ConsumeStep

\* What the parts of IInv say about the task while it synchronizes.
LEMMA TaskFacts ==
    ASSUME IInv, phase = "obtaining"
    PROVE  /\ usingQresync \in BOOLEAN /\ firstUnknownUidOffset \in Nat
           /\ ~onlyNew => firstUnknownUidOffset = 0
           /\ newArrivalsFetch \in Nat /\ oldSyncState \in SyncState
           /\ failure \in Failure /\ status \in Status /\ status # "WAIT_FOR_CONN"
           /\ status \in {"SYNCING_FLAGS", "DONE"} => syncState.exists = Len(children)
           /\ TreeTypeOK /\ CacheTypeOK
BY DEF IInv, TypeOK, TaskTypeOK, ExistsKept

\* The codes change the sync state, but not its EXISTS.
LEMMA HandleCodesStep ==
    ASSUME IInv, HandleCodes, UNCHANGED <<throttleVars, losses>>
    PROVE  IInv'
<1>1. /\ phase = "obtaining" /\ s2c # <<>> /\ Head(s2c) \in Response
      /\ Head(s2c).type = "CODES"
    BY ReceivedFacts DEF HandleCodes, Obtaining
<1>2. GoesOn
    BY <1>1 DEF HandleCodes, GoesOn, Aside
<1>3. syncState' \in SyncState /\ syncState'.exists = syncState.exists
    <2>1. /\ Head(s2c).uidNext \in Nat /\ Head(s2c).uidValidity \in Nat
          /\ Head(s2c).modseq \in Nat
        BY <1>1, ResponseFields
    <2> DEFINE a == setUidValidity(syncState, Head(s2c).uidValidity)
               b == setUidNext(a, Head(s2c).uidNext)
    <2>2. a \in SyncState /\ a.exists = syncState.exists
        BY <2>1, ListFacts, SyncStateType
    <2> HIDE DEF a
    <2>3. b \in SyncState /\ b.exists = syncState.exists
        BY <2>1, <2>2, SyncStateType
    <2> HIDE DEF b
    <2>4. syncState' = setHighestModSeq(b, Head(s2c).modseq)
        BY DEF HandleCodes, a, b
    <2> QED
        BY <2>1, <2>3, <2>4, SyncStateType
<1>4. TreeTypeOK' /\ CacheTypeOK'
    BY <1>1, <1>3, TaskFacts
    DEF HandleCodes, TreeTypeOK, CacheTypeOK, cacheVars
<1>5. usingQresync' \in BOOLEAN
    BY DEF HandleCodes
<1>6. /\ firstUnknownUidOffset' \in Nat
      /\ ~onlyNew => firstUnknownUidOffset' = 0
      /\ newArrivalsFetch' \in Nat
    BY <1>1, TaskFacts DEF HandleCodes
<1>7. status \in {"SYNCING_FLAGS", "DONE"} => syncState'.exists = Len(children')
    BY <1>1, <1>3, TaskFacts DEF HandleCodes
<1>8. c2s' = c2s
    BY DEF HandleCodes
<1>9. GoesOnWell
    BY <1>4, <1>5, <1>6, <1>7, <1>8 DEF GoesOnWell
<1> QED
    BY <1>2, <1>9, GoesOnStep

\* EXISTS in the answer to SELECT is only remembered.
LEMMA ExistsWhileSelectingStep ==
    ASSUME IInv, ExistsWhileSelecting, UNCHANGED <<throttleVars, losses>>
    PROVE  IInv'
<1> DEFINE n == Head(s2c).number
<1>1. /\ phase = "obtaining" /\ status = "SELECTING" /\ s2c # <<>>
      /\ Head(s2c) \in Response /\ Head(s2c).type = "EXISTS"
    BY ReceivedFacts DEF ExistsWhileSelecting, Obtaining
<1>2. GoesOn /\ c2s' = c2s
    BY <1>1 DEF ExistsWhileSelecting, GoesOn, Aside, taskVars
<1>3. n \in Nat
    BY <1>1, ResponseFields
<1>4. syncState' \in SyncState
    BY <1>3, ListFacts, SyncStateType DEF ExistsWhileSelecting
<1>5. children' \in Seq(Message)
    <2>1. PadTo(children, n) \in Seq(Message)
        BY <1>3, ListFacts, ListTypes, MessageIsMessages
    <2> QED
        BY <2>1, ListFacts DEF ExistsWhileSelecting
<1>6. TreeTypeOK' /\ CacheTypeOK'
    BY <1>1, <1>4, <1>5, TaskFacts
    DEF ExistsWhileSelecting, TreeTypeOK, CacheTypeOK, cacheVars
<1>7. /\ usingQresync' \in BOOLEAN /\ newArrivalsFetch' \in Nat
      /\ firstUnknownUidOffset' \in Nat
      /\ ~onlyNew => firstUnknownUidOffset' = 0
    BY <1>1, TaskFacts DEF ExistsWhileSelecting, taskVars
<1>8. GoesOnWell
    BY <1>1, <1>2, <1>6, <1>7 DEF GoesOnWell
<1> QED
    BY <1>2, <1>8, GoesOnStep

\* A later EXISTS makes the list as long as it says.
LEMMA ExistsWhileSyncingStep ==
    ASSUME IInv, ExistsWhileSyncing, UNCHANGED <<throttleVars, losses>>
    PROVE  IInv'
<1> DEFINE n == Head(s2c).number
           now == updateHighestKnownUid(setExists(syncState, n), children)
           asksForUids == status \in {"SYNCING_FLAGS", "DONE"} /\ n > Len(children)
<1>1. /\ phase = "obtaining" /\ status # "SELECTING" /\ s2c # <<>>
      /\ Head(s2c) \in Response /\ Head(s2c).type = "EXISTS"
    BY ReceivedFacts DEF ExistsWhileSyncing, Obtaining
<1>2. GoesOn
    BY <1>1 DEF ExistsWhileSyncing, GoesOn, Aside, taskVars
<1>3. n \in Nat
    BY <1>1, ResponseFields
<1>4. now \in SyncState /\ now.exists = n
    <2>1. setExists(syncState, n) \in SyncState /\ setExists(syncState, n).exists = n
        BY <1>3, ListFacts, SyncStateType
    <2> QED
        BY <2>1, ListFacts, UpdateHighestKnownUidType
<1>5. /\ children' \in Seq(Message) /\ Len(children') = n
      /\ fetchStatus' \in {"LOADING", "DONE"}
    BY <1>3, HandleExistsTypes DEF ExistsWhileSyncing
<1>6. /\ syncState' = IF status = "SYNCING_UIDS" \/ asksForUids THEN now ELSE syncState
      /\ IF asksForUids THEN RequestArrivals(Larger(now.uidNext, 1))
         ELSE UNCHANGED <<c2s, newArrivalsFetch>>
      /\ ~ExistsTooLow(n)
    BY DEF ExistsWhileSyncing
<1> HIDE DEF now
<1>7. syncState' \in SyncState
    BY <1>4, <1>6, ListFacts
<1>8. TreeTypeOK' /\ CacheTypeOK'
    BY <1>1, <1>5, <1>7, TaskFacts
    DEF ExistsWhileSyncing, TreeTypeOK, CacheTypeOK, cacheVars
<1>9. status \in {"SYNCING_FLAGS", "DONE"} => syncState'.exists = Len(children')
    <2>1. CASE asksForUids
        BY <1>4, <1>5, <1>6, <2>1
    <2>2. CASE ~asksForUids /\ status \in {"SYNCING_FLAGS", "DONE"}
        <3>1. n = Len(children) /\ syncState' = syncState
            BY <1>3, <1>6, <2>2, ListFacts DEF ExistsTooLow
        <3> QED
            BY <1>1, <1>5, <2>2, <3>1, TaskFacts
    <2> QED
        BY <2>1, <2>2
<1>10. /\ newArrivalsFetch' \in Nat
       /\ c2s' = c2s \/ (status # "SELECTING" /\ SendsOther)
    <2>1. CASE asksForUids
        <3>1. Larger(now.uidNext, 1) \in Nat
            BY <1>4 DEF Larger, SyncState
        <3>2. UidFetch(Larger(now.uidNext, 1)) \in Command
              /\ UidFetch(Larger(now.uidNext, 1)).name = "UID FETCH"
            BY <3>1, CommandTypes
        <3>3. newArrivalsFetch' = newArrivalsFetch + 1
              /\ c2s' = Append(c2s, UidFetch(Larger(now.uidNext, 1)))
            BY <1>6, <2>1 DEF RequestArrivals, Send
        <3>4. SendsOther
            BY <3>2, <3>3 DEF SendsOther
        <3>5. newArrivalsFetch' \in Nat
            BY <3>3 DEF IInv, TypeOK, TaskTypeOK
        <3> QED
            BY <1>1, <3>4, <3>5
    <2>2. CASE ~asksForUids
        BY <1>1, <1>6, <2>2, TaskFacts
    <2> QED
        BY <2>1, <2>2
<1>11. /\ usingQresync' \in BOOLEAN
       /\ firstUnknownUidOffset' \in Nat
       /\ ~onlyNew => firstUnknownUidOffset' = 0
    BY <1>1, TaskFacts DEF ExistsWhileSyncing, taskVars
<1>12. GoesOnWell
    BY <1>8, <1>9, <1>10, <1>11 DEF GoesOnWell
<1> QED
    BY <1>2, <1>12, GoesOnStep

\* EXPUNGE of a row with a known UID takes one from the list and from EXISTS.
LEMMA ObtainExpungeStep ==
    ASSUME IInv, ObtainExpunge, UNCHANGED <<throttleVars, losses>>
    PROVE  IInv'
<1> DEFINE n == Head(s2c).number
           now == IF syncState.exists > 0
                  THEN setExists(syncState, syncState.exists - 1) ELSE syncState
<1>1. /\ phase = "obtaining" /\ s2c # <<>> /\ Head(s2c) \in Response
      /\ Head(s2c).type = "EXPUNGE"
    BY ReceivedFacts DEF ObtainExpunge, Obtaining
<1>2. GoesOn
    BY <1>1 DEF ObtainExpunge, GoesOn, Aside
<1>3. n \in Nat
    BY <1>1, ResponseFields
<1>4. /\ RowIsKnown(n) => ~ExpungeOutOfBounds(n)
      /\ IF RowIsKnown(n) THEN HandleExpunge(n)
         ELSE UNCHANGED <<children, numbersFetched, cachedFlags>>
      /\ syncState' = now
      /\ firstUnknownUidOffset' = IF status = "SYNCING_UIDS" /\ RowIsKnown(n)
              THEN firstUnknownUidOffset - 1 ELSE firstUnknownUidOffset
      /\ IF status = "DONE"
         THEN /\ SaveSyncStateAndUids(ListWithoutRow(n), now)
              /\ fetchStatus' = "DONE"
         ELSE UNCHANGED <<cachedSync, cachedUids, fetchStatus>>
      /\ UNCHANGED <<c2s, newArrivalsFetch, usingQresync>>
    BY DEF ObtainExpunge
<1>5. /\ now \in SyncState
      /\ syncState.exists > 0 => now.exists = syncState.exists - 1
    <2>1. syncState.exists > 0 => syncState.exists - 1 \in Nat
        BY ListFacts
    <2> QED
        BY <2>1, ListFacts, SyncStateType
<1> HIDE DEF n, now
<1>6. RowIsKnown(n) =>
        /\ n >= 1 /\ n <= Len(children) /\ ListWithoutRow(n) \in Seq(Message)
        /\ children' = ListWithoutRow(n) /\ Len(children') = Len(children) - 1
        /\ numbersFetched' \in BOOLEAN /\ cachedFlags' \in [0 .. MaxUid -> Nat]
    BY <1>3, <1>4, HandleExpungeTypes
<1>7. /\ children' \in Seq(Message) /\ numbersFetched' \in BOOLEAN
      /\ cachedFlags' \in [0 .. MaxUid -> Nat]
    <2>1. CASE RowIsKnown(n)
        BY <1>6, <2>1
    <2>2. CASE ~RowIsKnown(n)
        BY <1>4, <2>2, ListFacts
    <2> QED
        BY <2>1, <2>2
<1>8. /\ cachedSync' \in SyncState /\ cachedUids' \in Seq(0 .. MaxUid)
      /\ fetchStatus' \in {"LOADING", "DONE"}
    <2>1. CASE status = "DONE"
        <3>1. RowIsKnown(n)
            BY <2>1 DEF RowIsKnown
        <3> QED
            BY <1>4, <1>5, <1>6, <2>1, <3>1, SaveTypes
    <2>2. CASE status # "DONE"
        BY <1>4, <2>2 DEF IInv, TypeOK, TreeTypeOK, CacheTypeOK
    <2> QED
        BY <2>1, <2>2
<1>9. TreeTypeOK' /\ CacheTypeOK'
    BY <1>4, <1>5, <1>7, <1>8 DEF TreeTypeOK, CacheTypeOK
<1>10. /\ firstUnknownUidOffset' \in Nat
       /\ ~onlyNew => firstUnknownUidOffset' = 0
    <2>1. CASE status = "SYNCING_UIDS" /\ RowIsKnown(n)
        <3>1. n >= 1 /\ n <= firstUnknownUidOffset
            BY <1>6, <2>1 DEF RowIsKnown
        <3>2. firstUnknownUidOffset \in Nat /\ (~onlyNew => firstUnknownUidOffset = 0)
            BY <1>1, TaskFacts
        <3>3. firstUnknownUidOffset' = firstUnknownUidOffset - 1
            BY <1>4, <2>1
        <3>4. firstUnknownUidOffset # 0 /\ firstUnknownUidOffset' \in Nat
            BY <1>3, <3>1, <3>2, <3>3
        <3> QED
            BY <3>2, <3>4
    <2>2. CASE ~(status = "SYNCING_UIDS" /\ RowIsKnown(n))
        <3>1. firstUnknownUidOffset' = firstUnknownUidOffset
            BY <1>4, <2>2
        <3> QED
            BY <1>1, <3>1, TaskFacts
    <2> QED
        BY <2>1, <2>2
<1>11. status \in {"SYNCING_FLAGS", "DONE"} => syncState'.exists = Len(children')
    <2> SUFFICES ASSUME status \in {"SYNCING_FLAGS", "DONE"}
                 PROVE  syncState'.exists = Len(children')
        OBVIOUS
    <2>1. RowIsKnown(n) /\ syncState.exists = Len(children)
        BY <1>1, TaskFacts DEF RowIsKnown
    <2> QED
        BY <1>3, <1>4, <1>5, <1>6, <2>1, ListFacts
<1>12. usingQresync' \in BOOLEAN /\ newArrivalsFetch' \in Nat /\ c2s' = c2s
    BY <1>1, <1>4, TaskFacts
<1>13. GoesOnWell
    BY <1>9, <1>10, <1>11, <1>12 DEF GoesOnWell
<1> QED
    BY <1>2, <1>13, GoesOnStep

\* VANISHED, FETCH and RECENT leave the members of the task alone.
LEMMA ObtainQuietStep ==
    ASSUME IInv, ObtainVanished \/ ObtainFetch \/ ObtainRecent,
           UNCHANGED <<throttleVars, losses>>
    PROVE  IInv'
<1>1. /\ phase = "obtaining" /\ s2c # <<>> /\ Head(s2c) \in Response
      /\ Head(s2c).type # "SEARCH"
    <2>1. PICK type \in {"VANISHED", "FETCH", "RECENT"} : Obtaining(type)
        BY DEF ObtainVanished, ObtainFetch, ObtainRecent
    <2>2. phase = "obtaining" /\ Received(type)
        BY <2>1 DEF Obtaining
    <2> QED
        BY <2>2, ReceivedFacts
<1>2. /\ Consume /\ c2s' = c2s
      /\ UNCHANGED <<serverVars, phase, newArrivalsFetch, failure, taskVars>>
    BY DEF ObtainVanished, ObtainFetch, ObtainRecent
<1>3. GoesOn
    BY <1>1, <1>2 DEF GoesOn, Aside, taskVars
<1>4. /\ TreeTypeOK' /\ CacheTypeOK'
      /\ syncState'.exists = Len(children')
         \/ (syncState'.exists = syncState.exists /\ Len(children') = Len(children))
    <2>1. CASE ObtainVanished
        <3>1. HandleVanished(Head(s2c).uids, Head(s2c).earlier)
            BY <2>1 DEF ObtainVanished
        <3>2. Head(s2c).type = "VANISHED"
            BY <2>1 DEF ObtainVanished, Obtaining, Received
        <3>3. Head(s2c).uids \in SUBSET Uid /\ Head(s2c).earlier \in BOOLEAN
            BY <1>1, <3>2, ResponseFields
        <3> QED
            BY <3>1, <3>3, HandleVanishedTypes
    <2>2. CASE ObtainFetch
        <3>1. HandleFetch(Head(s2c), TRUE) /\ FetchRefused(Head(s2c)) = "none"
            BY <2>2 DEF ObtainFetch
        <3>2. Head(s2c).type = "FETCH"
            BY <2>2 DEF ObtainFetch, Obtaining, Received
        <3> QED
            BY <1>1, <3>1, <3>2, HandleFetchTypes
    <2>3. CASE ObtainRecent
        <3>1. UNCHANGED <<treeVars, cacheVars>>
            BY <2>3 DEF ObtainRecent
        <3> QED
            BY <1>1, <3>1, TaskFacts DEF treeVars, cacheVars, TreeTypeOK, CacheTypeOK
    <2> QED
        BY <2>1, <2>2, <2>3
<1>5. /\ usingQresync' \in BOOLEAN /\ newArrivalsFetch' \in Nat
      /\ firstUnknownUidOffset' \in Nat
      /\ ~onlyNew => firstUnknownUidOffset' = 0
    BY <1>1, <1>2, TaskFacts DEF taskVars
<1>6. status \in {"SYNCING_FLAGS", "DONE"} => syncState'.exists = Len(children')
    BY <1>1, <1>4, TaskFacts
<1>7. GoesOnWell
    BY <1>2, <1>4, <1>5, <1>6 DEF GoesOnWell
<1> QED
    BY <1>3, <1>7, GoesOnStep

\* From here on EXISTS is the number of messages.
LEMMA FinalizeSearchStep ==
    ASSUME IInv, finalizeSearch, UNCHANGED <<throttleVars, losses>>
    PROVE  IInv'
<1> DEFINE uids == Head(s2c).uids
           list == applyUids(children, firstUnknownUidOffset, uids)
<1>1. /\ phase = "obtaining" /\ s2c # <<>> /\ Head(s2c) \in Response
      /\ Head(s2c).type = "SEARCH" /\ 1 \in 1 .. Len(s2c) /\ Head(s2c) = s2c[1]
    BY ReceivedFacts DEF finalizeSearch, Obtaining
<1>2. /\ ~SearchCountWrong /\ ~RowsMissing /\ Consume
      /\ children' = list
      /\ cachedFlags' = [u \in 0 .. MaxUid |->
              IF u \in ClearedByApplyUids(children, firstUnknownUidOffset, uids)
              THEN 0 ELSE cachedFlags[u]]
      /\ syncState' = updateHighestKnownUid(syncState, list)
      /\ fetchStatus' = "DONE"
      /\ status' = "SYNCING_FLAGS"
      /\ UNCHANGED <<serverVars, c2s, numbersFetched, cachedSync, cachedUids, phase,
                     newArrivalsFetch, failure, usingQresync, onlyNew,
                     firstUnknownUidOffset, oldSyncState, flagsCmd>>
    BY DEF finalizeSearch
<1>3. uids \in Seq(Uid) /\ Uid = 1 .. MaxUid
    BY <1>1, ResponseFields DEF Uid
<1>4. firstUnknownUidOffset \in 0 .. Len(children)
    <2>1. firstUnknownUidOffset \in Nat
        BY <1>1, TaskFacts
    <2> QED
        BY <1>2, <2>1, ListFacts DEF RowsMissing
<1>5. list \in Seq(Messages(MaxUid)) /\ Len(list) = firstUnknownUidOffset + Len(uids)
    BY <1>3, <1>4, ListFacts, ApplyUidsType
<1>6. Len(list) = syncState.exists
    <2>1. Len(uids) \in Nat
        BY <1>3
    <2>2. firstUnknownUidOffset \in Nat
        BY <1>1, TaskFacts
    <2> HIDE DEF list
    <2>3. CASE onlyNew
        <3>1. Len(uids) = syncState.exists - firstUnknownUidOffset
            BY <1>2, <2>3 DEF SearchCountWrong
        <3> HIDE DEF uids
        <3> QED
            BY <1>5, <2>1, <2>2, <3>1, ListFacts
    <2>4. CASE ~onlyNew
        <3>1. Len(uids) = syncState.exists - 0
            BY <1>2, <2>4 DEF SearchCountWrong
        <3>2. firstUnknownUidOffset = 0
            BY <1>1, <2>4, TaskFacts
        <3> HIDE DEF uids
        <3> QED
            BY <1>5, <2>1, <3>1, <3>2, ListFacts
    <2> QED
        BY <2>3, <2>4
<1>7. syncState' \in SyncState /\ syncState'.exists = Len(children')
    <2> HIDE DEF list
    <2>1. /\ updateHighestKnownUid(syncState, list) \in SyncState
          /\ updateHighestKnownUid(syncState, list).exists = syncState.exists
        BY <1>5, ListFacts, UpdateHighestKnownUidType
    <2> QED
        BY <1>2, <1>6, <2>1
<1>8. children' \in Seq(Message)
    BY <1>2, <1>5, MessageIsMessages
<1> HIDE DEF list
<1>9. TreeTypeOK' /\ CacheTypeOK'
    <2>1. cachedFlags' \in [0 .. MaxUid -> Nat]
        BY <1>2, ListFacts
    <2> QED
        BY <1>2, <1>7, <1>8, <2>1 DEF IInv, TypeOK, TreeTypeOK, CacheTypeOK
<1>10. TaskTypeOK'
    BY <1>2 DEF IInv, TypeOK, TaskTypeOK, Status
<1>11. ~Selecting /\ ~Selecting' /\ ~Searching'
    <2>1. Carried("SEARCH")
        BY <1>1 DEF Carried
    <2> QED
        BY <1>2, <2>1 DEF Selecting, Searching, IInv, WireInv, SelectIsAlone
<1>12. Counts'
    <2>1. phase' = "obtaining"
        BY <1>1, <1>2
    <2> QED
        BY <1>2, <1>7, <2>1 DEF Counts, ExistsKept, ExistsMatchesList, IInv
<1>13. ThrottleTypeOK'
    BY DEF throttleVars, IInv, TypeOK, ThrottleTypeOK
<1>14. Sends /\ StillSearches /\ Selecting' = Selecting
    <2>1. Selecting' = Selecting
        BY <1>11 DEF Selecting
    <2> QED
        BY <1>2, <1>11, <2>1 DEF Sends, StillSearches
<1>15. phase # "offline" /\ phase' # "offline" /\ s2c # <<>> /\ Consume
    BY <1>1, <1>2
<1> QED
    BY <1>2, <1>9, <1>10, <1>12, <1>13, <1>14, <1>15, ConsumeStep DEF ClientTypeOK

\* A tagged OK that is not the one of SELECT comes when SELECT has been answered.
LEMMA OkFacts ==
    ASSUME IInv, Obtaining("OK"), Head(s2c).name # "SELECT"
    PROVE  /\ phase = "obtaining" /\ s2c # <<>> /\ ~Selecting
           /\ s2c[1] = Head(s2c) /\ 1 \in 1 .. Len(s2c) /\ Head(s2c).type = "OK"
<1>1. /\ phase = "obtaining" /\ s2c # <<>> /\ s2c[1] = Head(s2c)
      /\ 1 \in 1 .. Len(s2c) /\ Head(s2c).type = "OK"
    BY ReceivedFacts DEF Obtaining
<1>2. ~Selecting
    BY <1>1 DEF IInv, WireInv, SelectIsAlone
<1> QED
    BY <1>1, <1>2

\* What a handler of a tagged OK has to show.
LEMMA OkStep ==
    ASSUME IInv, Obtaining("OK"), Head(s2c).name # "SELECT", Consume,
           UNCHANGED <<serverVars, throttleVars, losses>>,
           c2s' = c2s \/ SendsOther, phase' # "offline",
           ~Selecting', Searching' => Searching, ClientTypeOK', Counts'
    PROVE  IInv'
<1>1. phase # "offline" /\ s2c # <<>> /\ ~Selecting /\ Head(s2c).type = "OK"
    BY OkFacts
<1>2. Selecting' = Selecting
    BY <1>1 DEF Selecting
<1>3. Sends /\ StillSearches
    BY <1>1 DEF Sends, SendsOther, StillSearches
<1>4. ThrottleTypeOK' /\ UNCHANGED <<serverVars, losses>>
    BY DEF throttleVars, IInv, TypeOK, ThrottleTypeOK
<1> QED
    BY <1>1, <1>2, <1>3, <1>4, ConsumeStep

\* The tagged OK of UID SEARCH finds the UIDs applied, so flags come next.
LEMMA UidSearchOkStep ==
    ASSUME IInv, UidSearchOk, UNCHANGED <<throttleVars, losses>>
    PROVE  IInv'
<1>1. /\ Obtaining("OK") /\ Head(s2c).name = "UID SEARCH" /\ Consume
      /\ AssertSyncingFlags
      /\ syncFlags(children, fetchStatus, syncState, oldSyncState)
      /\ UNCHANGED <<serverVars, children, syncState, cachedFlags, newArrivalsFetch>>
    BY DEF UidSearchOk
<1>2. /\ phase = "obtaining" /\ ~Selecting /\ s2c[1] = Head(s2c)
      /\ 1 \in 1 .. Len(s2c) /\ Head(s2c).type = "OK"
    BY <1>1, OkFacts
<1>3. ~Searching
    <2>1. OkAt(1, "UID SEARCH")
        BY <1>1, <1>2 DEF OkAt
    <2>2. Searching => \E j \in 1 .. 1 - 1 : s2c[j].type = "SEARCH"
        BY <1>2, <2>1 DEF IInv, WireInv, SearchBeforeOk
    <2>3. 1 .. 1 - 1 = {}
        OBVIOUS
    <2> QED
        BY <2>2, <2>3
<1>4. status \in {"SYNCING_FLAGS", "DONE"}
    <2>1. status \in Status /\ status # "WAIT_FOR_CONN"
        BY <1>2, TaskFacts
    <2> QED
        BY <1>2, <1>3, <2>1 DEF Selecting, Searching, Status
<1>5. failure' \in Failure
    BY <1>1, <1>2, TaskFacts DEF AssertSyncingFlags, Failure, Asserted
<1>6. /\ syncState.exists = Len(children) /\ oldSyncState \in SyncState
      /\ children' = children /\ syncState' = syncState
      /\ UNCHANGED <<cachedFlags, newArrivalsFetch>>
    BY <1>1, <1>2, <1>4, TaskFacts
<1>7. /\ ClientTypeOK' /\ Counts' /\ phase' # "offline" /\ ~Selecting'
      /\ ~Searching'
      /\ c2s' = c2s \/ SendsOther
    BY <1>1, <1>2, <1>5, <1>6, ListFacts, SyncFlagsStep
<1> QED
    BY <1>1, <1>7, OkStep

\* The tagged OK of FETCH ends the task unless UIDs of arrivals are missing.
LEMMA FlagsOkStep ==
    ASSUME IInv, FlagsOk, UNCHANGED <<throttleVars, losses>>
    PROVE  IInv'
<1>1. /\ Obtaining("OK") /\ Head(s2c).name = "FETCH" /\ flagsCmd /\ Consume
      /\ AssertSyncingFlags
      /\ children' = AllHandled(children)
      /\ numbersFetched' = TRUE
      /\ IF newArrivalsFetch = 0
         THEN Complete(children, syncState)
         ELSE /\ status' = "DONE"
              /\ flagsCmd' = FALSE
              /\ UNCHANGED <<fetchStatus, cachedSync, cachedUids, phase, usingQresync,
                             onlyNew, firstUnknownUidOffset, oldSyncState>>
      /\ UNCHANGED <<serverVars, c2s, syncState, cachedFlags, newArrivalsFetch>>
    BY DEF FlagsOk
<1>2. phase = "obtaining"
    BY <1>1, OkFacts
<1>3. status \in {"SYNCING_FLAGS", "DONE"}
    BY <1>1 DEF IInv, ExistsKept
<1>4. failure' \in Failure
    BY <1>1, <1>2, TaskFacts DEF AssertSyncingFlags, Failure, Asserted
<1>5. /\ children' \in Seq(Message) /\ Len(children') = Len(children)
      /\ syncState.exists = Len(children')
    <2>1. /\ AllHandled(children) \in Seq(Message)
          /\ Len(AllHandled(children)) = Len(children)
        BY ListFacts, MessageIsMessages, ListTypes
    <2> QED
        BY <1>1, <1>2, <1>3, <2>1, TaskFacts
<1>6. newArrivalsFetch' \in Nat /\ cachedFlags' \in [0 .. MaxUid -> Nat]
    BY <1>1, <1>2, TaskFacts, ListFacts
<1>7. CASE newArrivalsFetch = 0
    <2>1. Complete(children, syncState) /\ syncState' = syncState
          /\ numbersFetched' \in BOOLEAN
        BY <1>1, <1>7
    <2>2. ClientTypeOK' /\ Counts' /\ phase' = "open" /\ ~Selecting' /\ ~Searching'
        BY <1>4, <1>5, <1>6, <2>1, ListFacts, CompleteStep
    <2> QED
        BY <1>1, <2>2, OkStep
<1>8. CASE newArrivalsFetch # 0
    <2>1. /\ status' = "DONE" /\ flagsCmd' = FALSE
          /\ UNCHANGED <<fetchStatus, cachedSync, cachedUids, phase, usingQresync,
                         onlyNew, firstUnknownUidOffset, oldSyncState>>
        BY <1>1, <1>8
    <2>2. TreeTypeOK' /\ CacheTypeOK'
        BY <1>1, <1>5, <2>1 DEF IInv, TypeOK, TreeTypeOK, CacheTypeOK
    <2>3. TaskTypeOK'
        BY <1>4, <1>6, <2>1 DEF IInv, TypeOK, TaskTypeOK, Status
    <2>4. phase' = "obtaining" /\ ~Selecting' /\ ~Searching'
        BY <1>2, <2>1 DEF Selecting, Searching
    <2>5. Counts'
        BY <1>1, <1>5, <2>1, <2>4 DEF Counts, ExistsKept, ExistsMatchesList, IInv
    <2> QED
        BY <1>1, <2>2, <2>3, <2>4, <2>5, OkStep DEF ClientTypeOK
<1> QED
    BY <1>7, <1>8

\* The tagged OK of UID FETCH ends the task when nothing else is awaited.
LEMMA ObtainArrivalsOkStep ==
    ASSUME IInv, ObtainArrivalsOk, UNCHANGED <<throttleVars, losses>>
    PROVE  IInv'
<1>1. /\ Obtaining("OK") /\ Head(s2c).name = "UID FETCH" /\ newArrivalsFetch > 0
      /\ Consume
      /\ newArrivalsFetch' = newArrivalsFetch - 1
      /\ IF newArrivalsFetch = 1 /\ status = "DONE" /\ ~flagsCmd
         THEN Complete(children, syncState)
         ELSE UNCHANGED <<fetchStatus, cachedSync, cachedUids, phase, taskVars>>
      /\ UNCHANGED <<serverVars, c2s, children, numbersFetched, syncState, cachedFlags,
                     failure>>
    BY DEF ObtainArrivalsOk
<1>2. phase = "obtaining" /\ ~Selecting
    BY <1>1, OkFacts
<1>3. newArrivalsFetch' \in Nat
    <2>1. newArrivalsFetch \in Nat
        BY <1>2, TaskFacts
    <2>2. newArrivalsFetch > 0 /\ newArrivalsFetch' = newArrivalsFetch - 1
        BY <1>1
    <2> QED
        BY <2>1, <2>2
<1>4. CASE newArrivalsFetch = 1 /\ status = "DONE" /\ ~flagsCmd
    <2>1. Complete(children, syncState)
        BY <1>1, <1>4
    <2>2. /\ children' \in Seq(Message) /\ syncState.exists = Len(children')
          /\ syncState' = syncState /\ numbersFetched' \in BOOLEAN
          /\ cachedFlags' \in [0 .. MaxUid -> Nat] /\ failure' \in Failure
        BY <1>1, <1>2, <1>4, TaskFacts, ListFacts
    <2>3. ClientTypeOK' /\ Counts' /\ phase' = "open" /\ ~Selecting' /\ ~Searching'
        BY <1>3, <2>1, <2>2, ListFacts, CompleteStep
    <2> QED
        BY <1>1, <2>3, OkStep
<1>5. CASE ~(newArrivalsFetch = 1 /\ status = "DONE" /\ ~flagsCmd)
    <2>1. UNCHANGED <<fetchStatus, cachedSync, cachedUids, phase, taskVars>>
        BY <1>1, <1>5
    <2>2. TreeTypeOK' /\ CacheTypeOK'
        BY <1>1, <2>1 DEF IInv, TypeOK, TreeTypeOK, CacheTypeOK
    <2>3. TaskTypeOK'
        BY <1>1, <1>3, <2>1 DEF taskVars, IInv, TypeOK, TaskTypeOK
    <2>4. phase' = "obtaining" /\ ~Selecting' /\ (Searching' => Searching)
        BY <1>2, <2>1 DEF taskVars, Selecting, Searching
    <2>5. Counts'
        BY <1>1, <2>1 DEF taskVars, Counts, ExistsKept, ExistsMatchesList, IInv
    <2>6. ClientTypeOK'
        BY <2>2, <2>3 DEF ClientTypeOK
    <2>7. phase' # "offline" /\ (c2s' = c2s \/ SendsOther)
        BY <1>1, <2>4
    <2> QED
        BY <1>1, <2>4, <2>5, <2>6, <2>7, OkStep
<1> QED
    BY <1>4, <1>5

\* An exception in a handler ends the session, whichever task has the mailbox.
LEMMA RefusedStep ==
    ASSUME IInv, ThrottleTypeOK', UNCHANGED losses,
           \/ ExistsRefused \/ ObtainExpungeRefused \/ ObtainFetchRefused
           \/ SearchRefused \/ KeepRefuses
    PROVE  IInv'
<1>1. losses' \in 0 .. MaxLosses
    BY DEF IInv, TypeOK
<1>2. \A r : FetchRefused(r) \in Failure
    BY DEF FetchRefused, Failure, Thrown
<1>3. PICK reason \in Failure : Throw(reason)
    <2>1. "EXISTS decreased" \in Failure /\ "EXPUNGE out of bounds" \in Failure
          /\ "UID count mismatch" \in Failure /\ "row out of bounds" \in Failure
          /\ "fewer messages than known" \in Failure
        BY DEF Failure, Thrown, Asserted
    <2> QED
        BY <1>2, <2>1
        DEF ExistsRefused, ObtainExpungeRefused, ObtainFetchRefused, SearchRefused,
            KeepRefuses, KeepExistsRefused, KeepExpungeRefused, KeepFetchRefused
<1> QED
    BY <1>1, <1>3, ThrowStep

\* Nothing that ObtainSynchronizedMailboxTask does breaks the invariant.
LEMMA ObtainStepKeeps ==
    ASSUME IInv, ObtainStep
    PROVE  IInv'
<1>1. ThrottleTypeOK'
    BY DEF ObtainStep, throttleVars, IInv, TypeOK, ThrottleTypeOK
<1> QED
    BY <1>1, FinalizeSelectStep, HandleCodesStep, ExistsWhileSelectingStep,
       ExistsWhileSyncingStep, ObtainExpungeStep, ObtainQuietStep, FinalizeSearchStep,
       UidSearchOkStep, FlagsOkStep, ObtainArrivalsOkStep, RefusedStep
    DEF ObtainStep, Obtain

-----------------------------------------------------------------------------
(* KeepMailboxOpenTask.                                                     *)

\* saveSyncStateNowOrLater() counts saves and delays from 0 up.
LEMMA CountSaveTypes ==
    ASSUME IInv, CountSave
    PROVE  ThrottleTypeOK'
<1>1. /\ performedStateSynces \in Nat /\ skippedStateSynces \in Nat
    BY DEF IInv, TypeOK, ThrottleTypeOK
<1>2. performedStateSynces' \in Nat /\ skippedStateSynces' \in Nat
    BY <1>1, ThrottlingAssumption DEF CountSave
<1>3. syncingTimer' \in BOOLEAN
    BY DEF CountSave
<1> QED
    BY <1>2, <1>3 DEF ThrottleTypeOK

\* Whether it saves or not, the cache has its types.
LEMMA SaveIfPossibleTypes ==
    ASSUME IInv, NEW list \in Seq(Message), NEW ss \in SyncState,
           SaveIfPossible(list, ss) \/ UNCHANGED <<cachedSync, cachedUids>>
    PROVE  cachedSync' \in SyncState /\ cachedUids' \in Seq(0 .. MaxUid)
<1>1. SaveSyncStateAndUids(list, ss) \/ UNCHANGED <<cachedSync, cachedUids>>
    BY DEF SaveIfPossible
<1>2. CASE SaveSyncStateAndUids(list, ss)
    BY <1>2, SaveTypes
<1>3. CASE UNCHANGED <<cachedSync, cachedUids>>
    BY <1>3 DEF IInv, TypeOK, CacheTypeOK
<1> QED
    BY <1>1, <1>2, <1>3

\* What KeepMailboxOpenTask has to show for a response.
Follows ==
    /\ Consume /\ phase = "open" /\ s2c # <<>> /\ KeepUnchanged /\ UNCHANGED losses
    /\ ThrottleTypeOK' /\ TreeTypeOK' /\ CacheTypeOK' /\ newArrivalsFetch' \in Nat
    /\ c2s' = c2s \/ SendsOther
    /\ syncState'.exists = Len(children')

\* A response to KeepMailboxOpenTask keeps the invariant when EXISTS stays right.
LEMMA FollowsStep ==
    ASSUME IInv, Follows
    PROVE  IInv'
<1>1. /\ phase = "open" /\ phase' = "open" /\ s2c # <<>> /\ Consume
      /\ UNCHANGED <<serverVars, losses, failure, taskVars>> /\ ThrottleTypeOK'
    BY DEF Follows, KeepUnchanged
<1>2. ~Selecting /\ ~Searching' /\ Selecting' = Selecting
    BY <1>1 DEF Selecting, Searching
<1>3. Sends /\ StillSearches
    BY <1>2 DEF Follows, Sends, SendsOther, StillSearches
<1>4. TaskTypeOK'
    BY <1>1 DEF Follows, taskVars, IInv, TypeOK, TaskTypeOK
<1>5. Counts'
    BY <1>1 DEF Follows, taskVars, Counts, ExistsMatchesList, ExistsKept, IInv
<1>6. ClientTypeOK'
    BY <1>4 DEF Follows, ClientTypeOK
<1>7. phase # "offline" /\ phase' # "offline"
    BY <1>1
<1> QED
    BY <1>1, <1>2, <1>3, <1>5, <1>6, <1>7, ConsumeStep

\* What KeepMailboxOpenTask can rely on when a response comes.
LEMMA OpenFacts ==
    ASSUME IInv, NEW type, Open(type)
    PROVE  /\ phase = "open" /\ s2c # <<>> /\ Head(s2c) \in Response
           /\ Head(s2c).type = type
           /\ syncState.exists = Len(children) /\ newArrivalsFetch \in Nat
           /\ TreeTypeOK /\ CacheTypeOK /\ ThrottleTypeOK
<1>1. /\ phase = "open" /\ s2c # <<>> /\ Head(s2c) \in Response
      /\ Head(s2c).type = type
    BY ReceivedFacts DEF Open
<1>2. syncState.exists = Len(children)
    BY <1>1 DEF IInv, ExistsMatchesList
<1> QED
    BY <1>1, <1>2 DEF IInv, TypeOK, TaskTypeOK

\* EXISTS makes the list longer and EXISTS of the sync state as long.
LEMMA KeepExistsStep ==
    ASSUME IInv, KeepExists, UNCHANGED losses
    PROVE  IInv'
<1> DEFINE n == Head(s2c).number
<1>1. /\ Open("EXISTS") /\ ~ExistsTooLow(n) /\ Consume
      /\ HandleExists(n)
      /\ IF n > Len(children)
         THEN /\ syncState' = setExists(syncState, n)
              /\ RequestArrivals(ArrivalsFrom)
         ELSE UNCHANGED <<syncState, c2s, newArrivalsFetch>>
      /\ UNCHANGED <<numbersFetched, cacheVars, throttleVars>>
      /\ KeepUnchanged
    BY DEF KeepExists
<1>2. n \in Nat
    BY <1>1, OpenFacts, ResponseFields
<1> HIDE DEF n
<1>3. /\ children' \in Seq(Message) /\ Len(children') = n
      /\ fetchStatus' \in {"LOADING", "DONE"}
    BY <1>1, <1>2, HandleExistsTypes
<1>4. /\ syncState' \in SyncState /\ syncState'.exists = Len(children')
      /\ newArrivalsFetch' \in Nat
      /\ c2s' = c2s \/ SendsOther
    <2>1. CASE n > Len(children)
        <3>1. ArrivalsFrom \in Nat
            <4>1. HighestKnownUid(children) \in Nat
                BY ListFacts, HighestKnownUidType
            <4> QED
                BY <4>1, ListFacts DEF ArrivalsFrom, Larger
        <3>2. /\ newArrivalsFetch' = newArrivalsFetch + 1
              /\ c2s' = Append(c2s, UidFetch(ArrivalsFrom))
              /\ syncState' = setExists(syncState, n)
            BY <1>1, <2>1 DEF RequestArrivals, Send
        <3>3. SendsOther
            BY <3>1, <3>2, CommandTypes DEF SendsOther
        <3>4. newArrivalsFetch' \in Nat
            BY <3>2 DEF IInv, TypeOK, TaskTypeOK
        <3>5. syncState' \in SyncState /\ syncState'.exists = n
            BY <1>2, <3>2, ListFacts, SyncStateType
        <3> QED
            BY <1>3, <3>3, <3>4, <3>5
    <2>2. CASE ~(n > Len(children))
        <3>1. n = Len(children)
            BY <1>1, <1>2, <2>2, ListFacts DEF ExistsTooLow
        <3>2. UNCHANGED <<syncState, c2s, newArrivalsFetch>>
            BY <1>1, <2>2
        <3> QED
            BY <1>1, <1>3, <3>1, <3>2, OpenFacts, ListFacts
    <2> QED
        BY <2>1, <2>2
<1>5. TreeTypeOK' /\ CacheTypeOK' /\ ThrottleTypeOK'
    BY <1>1, <1>3, <1>4, OpenFacts
    DEF TreeTypeOK, CacheTypeOK, ThrottleTypeOK, cacheVars, throttleVars
<1>6. Follows
    BY <1>1, <1>4, <1>5, OpenFacts DEF Follows
<1> QED
    BY <1>6, FollowsStep

\* EXISTS does not pass below 0, since it is the number of messages.
LEMMA KeepExpungeStep ==
    ASSUME IInv, KeepExpunge, UNCHANGED losses
    PROVE  IInv'
<1> DEFINE n == Head(s2c).number
           now == setExists(syncState, syncState.exists - 1)
<1>1. /\ Open("EXPUNGE") /\ ~ExpungeOutOfBounds(n) /\ Consume
      /\ HandleExpunge(n)
      /\ syncState' = now
      /\ saveSyncStateNowOrLater(ListWithoutRow(n), now)
      /\ UNCHANGED <<c2s, fetchStatus, newArrivalsFetch>>
      /\ KeepUnchanged
    BY DEF KeepExpunge
<1>2. n \in Nat
    BY <1>1, OpenFacts, ResponseFields
<1> HIDE DEF n
<1>3. /\ n >= 1 /\ n <= Len(children) /\ ListWithoutRow(n) \in Seq(Message)
      /\ children' = ListWithoutRow(n) /\ Len(children') = Len(children) - 1
      /\ numbersFetched' \in BOOLEAN /\ cachedFlags' \in [0 .. MaxUid -> Nat]
    BY <1>1, <1>2, HandleExpungeTypes
<1>4. syncState.exists - 1 \in Nat /\ syncState.exists - 1 = Len(children')
    BY <1>1, <1>2, <1>3, OpenFacts, ListFacts
<1>5. now \in SyncState /\ now.exists = Len(children')
    BY <1>4, ListFacts, SyncStateType
<1> HIDE DEF now
<1>6. CountSave /\ (SaveIfPossible(ListWithoutRow(n), now)
                    \/ UNCHANGED <<cachedSync, cachedUids>>)
    BY <1>1 DEF saveSyncStateNowOrLater
<1>7. ThrottleTypeOK'
    BY <1>6, CountSaveTypes
<1>8. cachedSync' \in SyncState /\ cachedUids' \in Seq(0 .. MaxUid)
    BY <1>3, <1>5, <1>6, SaveIfPossibleTypes
<1>9. TreeTypeOK' /\ CacheTypeOK'
    BY <1>1, <1>3, <1>5, <1>8, ListFacts DEF TreeTypeOK, CacheTypeOK
<1>10. /\ newArrivalsFetch' \in Nat
       /\ c2s' = c2s \/ SendsOther
    BY <1>1, OpenFacts
<1>11. Follows
    BY <1>1, <1>5, <1>7, <1>9, <1>10, OpenFacts DEF Follows
<1> QED
    BY <1>11, FollowsStep

\* RECENT, VANISHED, FETCH and the tagged OKs keep EXISTS right, too.
LEMMA KeepOtherSteps ==
    ASSUME IInv, UNCHANGED losses,
           KeepRecent \/ KeepVanished \/ KeepFetch \/ KeepArrivalsOk \/ NoopOk
    PROVE  IInv'
<1>1. CASE KeepRecent
    <2>1. /\ Open("RECENT") /\ Consume
          /\ saveSyncStateNowOrLater(children, syncState)
          /\ UNCHANGED <<c2s, treeVars, cachedFlags, newArrivalsFetch>>
          /\ KeepUnchanged
        BY <1>1 DEF KeepRecent
    <2>2. CountSave /\ (SaveIfPossible(children, syncState)
                        \/ UNCHANGED <<cachedSync, cachedUids>>)
        BY <2>1 DEF saveSyncStateNowOrLater
    <2>3. ThrottleTypeOK'
        BY <2>2, CountSaveTypes
    <2>4. cachedSync' \in SyncState /\ cachedUids' \in Seq(0 .. MaxUid)
        BY <2>2, ListFacts, SaveIfPossibleTypes
    <2>5. TreeTypeOK' /\ CacheTypeOK'
        BY <2>1, <2>4, OpenFacts DEF treeVars, TreeTypeOK, CacheTypeOK
    <2>6. Follows
        BY <2>1, <2>3, <2>5, OpenFacts DEF treeVars, Follows
    <2> QED
        BY <2>6, FollowsStep
<1>2. CASE KeepVanished
    <2>1. /\ Open("VANISHED") /\ Consume
          /\ HandleVanished(Head(s2c).uids, FALSE) /\ CountSave
          /\ UNCHANGED <<c2s, newArrivalsFetch>> /\ KeepUnchanged
        BY <1>2 DEF KeepVanished
    <2>2. Head(s2c).uids \in SUBSET Uid
        BY <2>1, OpenFacts, ResponseFields
    <2>3. TreeTypeOK' /\ CacheTypeOK' /\ syncState'.exists = Len(children')
        BY <2>1, <2>2, HandleVanishedTypes
    <2>4. ThrottleTypeOK'
        BY <2>1, CountSaveTypes
    <2>5. Follows
        BY <2>1, <2>3, <2>4, OpenFacts DEF Follows
    <2> QED
        BY <2>5, FollowsStep
<1>3. CASE KeepFetch
    <2>1. /\ Open("FETCH") /\ FetchRefused(Head(s2c)) = "none" /\ Consume
          /\ HandleFetch(Head(s2c), FALSE)
          /\ UNCHANGED <<c2s, newArrivalsFetch, throttleVars>> /\ KeepUnchanged
        BY <1>3 DEF KeepFetch
    <2>2. /\ TreeTypeOK' /\ CacheTypeOK'
          /\ Len(children') = Len(children) /\ syncState'.exists = syncState.exists
        BY <2>1, OpenFacts, HandleFetchTypes
    <2>3. ThrottleTypeOK'
        BY <2>1, OpenFacts DEF throttleVars, ThrottleTypeOK
    <2>4. Follows
        BY <2>1, <2>2, <2>3, OpenFacts DEF Follows
    <2> QED
        BY <2>4, FollowsStep
<1>4. CASE KeepArrivalsOk
    <2>1. /\ Open("OK") /\ newArrivalsFetch > 0 /\ Consume
          /\ newArrivalsFetch' = newArrivalsFetch - 1
          /\ IF newArrivalsFetch = 1
             THEN /\ SaveSyncStateAndUids(children, syncState)
                  /\ fetchStatus' = "DONE"
             ELSE UNCHANGED <<cachedSync, cachedUids, fetchStatus>>
          /\ UNCHANGED <<c2s, children, numbersFetched, syncState, cachedFlags, throttleVars>>
          /\ KeepUnchanged
        BY <1>4 DEF KeepArrivalsOk
    <2>2. /\ cachedSync' \in SyncState /\ cachedUids' \in Seq(0 .. MaxUid)
          /\ fetchStatus' \in {"LOADING", "DONE"}
        <3>1. CASE newArrivalsFetch = 1
            BY <2>1, <3>1, ListFacts, SaveTypes
        <3>2. CASE newArrivalsFetch # 1
            BY <2>1, <3>2 DEF IInv, TypeOK, TreeTypeOK, CacheTypeOK
        <3> QED
            BY <3>1, <3>2
    <2>3. TreeTypeOK' /\ CacheTypeOK' /\ ThrottleTypeOK'
        BY <2>1, <2>2, OpenFacts
        DEF throttleVars, TreeTypeOK, CacheTypeOK, ThrottleTypeOK
    <2>4. newArrivalsFetch' \in Nat
        <3>1. newArrivalsFetch \in Nat
            BY <2>1, OpenFacts
        <3>2. newArrivalsFetch > 0 /\ newArrivalsFetch' = newArrivalsFetch - 1
            BY <2>1
        <3> QED
            BY <3>1, <3>2
    <2>5. Follows
        BY <2>1, <2>3, <2>4, OpenFacts DEF Follows
    <2> QED
        BY <2>5, FollowsStep
<1>5. CASE NoopOk
    <2>1. /\ Open("OK") /\ Consume
          /\ UNCHANGED <<c2s, treeVars, cacheVars, newArrivalsFetch, throttleVars>>
          /\ KeepUnchanged
        BY <1>5 DEF NoopOk
    <2>2. TreeTypeOK' /\ CacheTypeOK' /\ ThrottleTypeOK'
        BY <2>1, OpenFacts
        DEF treeVars, cacheVars, throttleVars, TreeTypeOK, CacheTypeOK, ThrottleTypeOK
    <2>3. Follows
        BY <2>1, <2>2, OpenFacts DEF treeVars, Follows
    <2> QED
        BY <2>3, FollowsStep
<1> QED
    BY <1>1, <1>2, <1>3, <1>4, <1>5

\* Nothing that KeepMailboxOpenTask does breaks the invariant.
LEMMA KeepStepKeeps ==
    ASSUME IInv, KeepStep
    PROVE  IInv'
<1>1. UNCHANGED losses
    BY DEF KeepStep
<1>2. ASSUME ResetThrottle PROVE ThrottleTypeOK'
    <2>1. /\ performedStateSynces' = 0 /\ skippedStateSynces' = 0
          /\ syncingTimer' = FALSE
        BY <1>2 DEF ResetThrottle
    <2> QED
        BY <2>1 DEF ThrottleTypeOK
<1> QED
    BY <1>1, <1>2, KeepExistsStep, KeepExpungeStep, KeepOtherSteps, RefusedStep
    DEF KeepStep, Keep

\* The timers find the mailbox open; one saves, the other sends NOOP.
LEMMA SyncingTimeoutStep ==
    ASSUME IInv, SyncingTimeout
    PROVE  IInv'
<1>1. /\ UNCHANGED <<serverVars, wireVars, treeVars, cachedFlags, phase,
                     newArrivalsFetch, failure, taskVars, losses>>
      /\ syncingTimer' = FALSE /\ skippedStateSynces' = 0
      /\ performedStateSynces' = 0 \/ performedStateSynces' = performedStateSynces
      /\ SaveIfPossible(children, syncState) \/ UNCHANGED <<cachedSync, cachedUids>>
    BY DEF SyncingTimeout, syncingTimeout
<1>2. ThrottleTypeOK'
    <2>1. performedStateSynces \in Nat
        BY DEF IInv, TypeOK, ThrottleTypeOK
    <2>2. performedStateSynces' \in Nat /\ skippedStateSynces' \in Nat
        BY <1>1, <2>1
    <2>3. syncingTimer' \in BOOLEAN
        BY <1>1
    <2> QED
        BY <2>2, <2>3 DEF ThrottleTypeOK
<1>3. cachedSync' \in SyncState /\ cachedUids' \in Seq(0 .. MaxUid)
    BY <1>1, ListFacts, SaveIfPossibleTypes
<1>4. ServerTypeOK' /\ WireTypeOK'
    BY <1>1 DEF serverVars, mailboxVars, sessionVars, wireVars, IInv, TypeOK,
                ServerTypeOK, WireTypeOK
<1>5. TreeTypeOK' /\ CacheTypeOK' /\ TaskTypeOK' /\ losses' \in 0 .. MaxLosses
    BY <1>1, <1>3 DEF treeVars, taskVars, IInv, TypeOK, TreeTypeOK, CacheTypeOK, TaskTypeOK
<1>6. /\ Selecting' = Selecting /\ Searching' = Searching
      /\ StoredUids' = StoredUids /\ Carried("OK")' = Carried("OK")
      /\ Carried("SEARCH")' = Carried("SEARCH")
    BY <1>1 DEF serverVars, mailboxVars, wireVars, taskVars, Selecting, Searching,
                StoredUids, Carried
<1>7. UNCHANGED <<c2s, s2c, started, selected, reporting, phase>>
    BY <1>1 DEF serverVars, sessionVars, wireVars
<1>8. WireInv'
    <2>1. OfflineIsSilent' /\ ReportsWhatItHas'
        BY <1>6, <1>7 DEF IInv, WireInv, OfflineIsSilent, ReportsWhatItHas
    <2>2. SelectIsAlone' /\ SearchBeforeOk'
        BY <1>6, <1>7 DEF IInv, WireInv, SelectIsAlone, SearchBeforeOk, OkAt
    <2> QED
        BY <2>1, <2>2 DEF WireInv
<1>9. ExistsKept' /\ ExistsMatchesList'
    BY <1>1 DEF treeVars, taskVars, IInv, ExistsKept, ExistsMatchesList
<1> QED
    BY <1>2, <1>4, <1>5, <1>8, <1>9 DEF IInv, TypeOK

\* NOOP is sent on a silent connection.
LEMMA NoopTimeoutStep ==
    ASSUME IInv, NoopTimeout
    PROVE  IInv'
<1>1. /\ phase = "open" /\ c2s = <<>> /\ s2c = <<>> /\ s2c' = s2c
      /\ c2s' = Append(c2s, cmd("NOOP"))
      /\ UNCHANGED <<treeVars, cacheVars, newArrivalsFetch, throttleVars, losses>>
      /\ UNCHANGED <<serverVars, phase, failure, taskVars>>
    BY DEF NoopTimeout, PerformNoop, KeepUnchanged, wireVars, Send
<1>2. cmd("NOOP") \in Command /\ cmd("NOOP").name = "NOOP"
    BY CommandTypes DEF CommandName
<1>3. c2s' = <<cmd("NOOP")>>
    BY <1>1, <1>2
<1>4. WireTypeOK'
    BY <1>1, <1>2, <1>3 DEF WireTypeOK, IInv, TypeOK
<1>5. ServerTypeOK' /\ ThrottleTypeOK' /\ losses' \in 0 .. MaxLosses
    BY <1>1 DEF serverVars, mailboxVars, sessionVars, throttleVars, IInv, TypeOK,
                ServerTypeOK, ThrottleTypeOK
<1>6. TreeTypeOK' /\ CacheTypeOK' /\ TaskTypeOK'
    BY <1>1 DEF treeVars, cacheVars, taskVars, IInv, TypeOK, TreeTypeOK, CacheTypeOK,
                TaskTypeOK
<1>7. ~Selecting /\ ~Selecting' /\ ~Searching' /\ phase' = "open"
    BY <1>1 DEF Selecting, Searching
<1>8. UNCHANGED <<started, selected, reporting>> /\ StoredUids' = StoredUids
    BY <1>1 DEF serverVars, mailboxVars, sessionVars, StoredUids
<1>9. WireInv'
    <2>1. ~started /\ selected
        BY <1>1, <1>7 DEF IInv, WireInv, ReportsWhatItHas
    <2>2. OfflineIsSilent' /\ SearchBeforeOk'
        BY <1>7 DEF OfflineIsSilent, SearchBeforeOk
    <2>3. ReportsWhatItHas'
        BY <1>8, <2>1 DEF IInv, WireInv, ReportsWhatItHas
    <2>4. \A i \in 1 .. Len(c2s') : c2s'[i].name # "SELECT"
        BY <1>2, <1>3
    <2>5. \A i \in 1 .. Len(s2c') : ~OkAt(i, "SELECT")'
        BY <1>1
    <2>6. SelectIsAlone'
        BY <1>7, <2>4, <2>5 DEF SelectIsAlone
    <2> QED
        BY <2>2, <2>3, <2>6 DEF WireInv
<1>10. ExistsKept' /\ ExistsMatchesList'
    BY <1>1 DEF treeVars, taskVars, IInv, ExistsKept, ExistsMatchesList
<1> QED
    BY <1>4, <1>5, <1>6, <1>9, <1>10 DEF IInv, TypeOK

-----------------------------------------------------------------------------
(* The theorems.                                                            *)

\* The first session finds an empty tree, and a cache of the right types.
LEMMA InitIsFine ==
    ASSUME Init
    PROVE  IInv
<1>1. PICK n \in InitialMessages :
        /\ store = [i \in 1 .. n |-> [uid |-> i, added |-> 1, modseq |-> 1]]
        /\ uidNext = n + 1
        /\ uidValidity = 1
        /\ highestModSeq = 1
        /\ gone = [u \in Uid |-> 0]
        /\ \/ /\ cachedSync = NoSyncState
              /\ cachedUids = <<>>
              /\ cachedFlags = NoFlags
           \/ /\ cachedSync = [exists |-> n, uidNext |-> n + 1, uidValidity |-> 1,
                               highestModSeq |-> IF Capabilities = {} THEN 0 ELSE 1,
                               has |-> Fields]
              /\ cachedUids = [i \in 1 .. n |-> i]
              /\ cachedFlags = [u \in 0 .. MaxUid |-> IF u \in 1 .. n THEN 1 ELSE 0]
    BY DEF Init
<1>2. n \in Nat /\ MaxUid \in Nat /\ n <= MaxUid
    BY BoundsAssumption
<1>3. store \in Seq(StoredMessage)
    <2>1. \A i \in 1 .. n : [uid |-> i, added |-> 1, modseq |-> 1] \in StoredMessage
        BY <1>2 DEF StoredMessage, Uid
    <2>2. store \in [1 .. n -> StoredMessage]
        BY <1>1, <2>1
    <2> QED
        BY <1>2, <2>2, SeqOfRange
<1>4. ServerTypeOK
    <2>1. gone \in [Uid -> Nat] /\ uidNext \in 1 .. MaxUid + 1
        BY <1>1, <1>2
    <2>2. uidValidity \in Nat /\ highestModSeq \in Nat
        BY <1>1
    <2>3. mistakes \in 0 .. MaxMistakes
        BY BoundsAssumption DEF Init
    <2> QED
        BY <1>3, <2>1, <2>2, <2>3 DEF Init, ServerTypeOK
<1>5. NoSyncState \in SyncState
    BY DEF NoSyncState, SyncState, Fields
<1>6. WireTypeOK /\ TreeTypeOK
    <2>1. <<>> \in Seq(Command) /\ <<>> \in Seq(Response) /\ <<>> \in Seq(Message)
        OBVIOUS
    <2> QED
        BY <1>5, <2>1 DEF Init, WireTypeOK, TreeTypeOK
<1>7. CacheTypeOK
    <2>1. cachedSync \in SyncState
        BY <1>1, <1>2, <1>5 DEF SyncState
    <2>2. cachedUids \in Seq(0 .. MaxUid)
        <3>1. CASE cachedUids = <<>>
            BY <3>1
        <3>2. CASE cachedUids = [i \in 1 .. n |-> i]
            <4>1. cachedUids \in [1 .. n -> 0 .. MaxUid]
                BY <1>2, <3>2
            <4> QED
                BY <1>2, <4>1, SeqOfRange
        <3> QED
            BY <1>1, <3>1, <3>2
    <2>3. cachedFlags \in [0 .. MaxUid -> Nat]
        BY <1>1 DEF NoFlags
    <2> QED
        BY <2>1, <2>2, <2>3 DEF CacheTypeOK
<1>8. TaskTypeOK
    BY <1>5 DEF Init, TaskTypeOK, Failure, Status
<1>9. ThrottleTypeOK /\ losses \in 0 .. MaxLosses
    <2>1. performedStateSynces = 0 /\ skippedStateSynces = 0 /\ losses = 0
        BY DEF Init
    <2>2. syncingTimer \in BOOLEAN
        BY DEF Init
    <2> QED
        BY <2>1, <2>2, LossesAssumption DEF ThrottleTypeOK
<1>10. WireInv
    <2>1. ~Selecting /\ ~Searching
        BY DEF Init, Selecting, Searching
    <2>2. /\ c2s = <<>> /\ s2c = <<>> /\ ~started /\ ~selected
          /\ reporting = {} /\ phase = "offline"
        BY DEF Init
    <2>3. OfflineIsSilent /\ ReportsWhatItHas /\ SearchBeforeOk
        BY <2>1, <2>2 DEF OfflineIsSilent, ReportsWhatItHas, SearchBeforeOk
    <2>4. SelectIsAlone
        BY <2>1, <2>2 DEF SelectIsAlone
    <2> QED
        BY <2>3, <2>4 DEF WireInv
<1>11. ExistsKept /\ ExistsMatchesList
    BY DEF Init, ExistsKept, ExistsMatchesList
<1> QED
    BY <1>4, <1>6, <1>7, <1>8, <1>9, <1>10, <1>11 DEF IInv, TypeOK

\* A step which changes nothing keeps everything.
LEMMA StutterStep ==
    ASSUME IInv, UNCHANGED vars
    PROVE  IInv'
<1>1. TypeOK'
    BY DEF IInv, TypeOK, ServerTypeOK, WireTypeOK, TreeTypeOK, CacheTypeOK, TaskTypeOK,
           ThrottleTypeOK, vars, serverVars, mailboxVars, sessionVars, wireVars, treeVars,
           cacheVars, taskVars, throttleVars
<1>2. UNCHANGED <<c2s, s2c, started, selected, reporting, phase, status, store>>
    BY DEF vars, serverVars, mailboxVars, sessionVars, wireVars, taskVars
<1>3. /\ Selecting' = Selecting /\ Searching' = Searching
      /\ StoredUids' = StoredUids /\ Carried("OK")' = Carried("OK")
      /\ Carried("SEARCH")' = Carried("SEARCH")
    BY <1>2 DEF Selecting, Searching, StoredUids, Carried
<1>4. OfflineIsSilent' /\ ReportsWhatItHas'
    BY <1>2, <1>3 DEF IInv, WireInv, OfflineIsSilent, ReportsWhatItHas
<1>5. SelectIsAlone' /\ SearchBeforeOk'
    BY <1>2, <1>3 DEF IInv, WireInv, SelectIsAlone, SearchBeforeOk, OkAt
<1>6. ExistsKept' /\ ExistsMatchesList'
    BY DEF vars, treeVars, taskVars, IInv, ExistsKept, ExistsMatchesList
<1> QED
    BY <1>1, <1>4, <1>5, <1>6 DEF IInv, WireInv

\* Types, the order of the answers and the count of messages are kept by every
\* step of every session: OtherClients, the server, both tasks, timers, losses.
THEOREM SessionInvariant == Spec => []IInv
<1>1. Init => IInv
    BY InitIsFine
<1>2. IInv /\ [Next]_vars => IInv'
    BY OtherClientsStep, ServerStepKeeps, OpenMailboxStep, ObtainStepKeeps, KeepStepKeeps,
       SyncingTimeoutStep, NoopTimeoutStep, LoseConnectionStep, StutterStep
    DEF Next
<1> QED
    BY <1>1, <1>2, PTL DEF Spec

\* The counters of the client, all unsigned in the code (m_exists, which EXPUNGE
\* decrements, firstUnknownUidOffset, the number of pending UID FETCHes), never wrap
\* below 0, and the list and the cached map hold no UID the server cannot have given.
THEOREM TypeCorrect == Spec => []TypeOK
<1>1. IInv => TypeOK
    BY DEF IInv
<1> QED
    BY <1>1, SessionInvariant, PTL

\* Whatever the server announces while the mailbox is synchronized and afterwards,
\* KeepMailboxOpenTask has a sync state whose EXISTS is the number of messages in
\* the list: HandleExpunge(), HandleExists() and HandleVanished() agree about it.
THEOREM ExistsAlwaysMatches == Spec => []ExistsMatchesList
<1>1. IInv => ExistsMatchesList
    BY DEF IInv
<1> QED
    BY <1>1, SessionInvariant, PTL

-----------------------------------------------------------------------------
(* The saved UIDNEXT.  It never goes back, since nobody knows of a UID      *)
(* which the server has not given yet: neither a message of the list nor    *)
(* one of the cache, and no response.  UidInv is inductive, unless a server *)
(* numbers changes and the mailbox is made anew: a FETCH that is announced  *)
(* while flags are synchronized then saves the new UIDVALIDITY with the old *)
(* UID map.                                                                 *)

\* The mailbox is never made anew, or the changes have no numbers.
MadeOnce == MaxUidValidity <= 1
Unnumbered == Capabilities = {}

\* The last UID that the server has given.
LastGiven == uidNext - 1

GivenOnly ==
    /\ \A i \in 1 .. Len(store) : store[i].uid <= LastGiven
    /\ \A u \in Uid : gone[u] # 0 => u <= LastGiven
    /\ vanishing \subseteq 1 .. LastGiven
    /\ uidValidity >= 1

TellsGiven(r, last) ==
    /\ r.type = "FETCH" => r.uid <= last /\ (Unnumbered => r.modseq = 0)
    /\ r.type = "VANISHED" => r.uids \subseteq 1 .. last
    /\ r.type = "SEARCH" => r.uids \in Seq(1 .. last)

WireGiven ==
    /\ \A i \in 1 .. Len(s2c) : TellsGiven(s2c[i], LastGiven)
    /\ ~selected => s2c = <<>> /\ vanishing = {}
    /\ Unnumbered => \A i \in 1 .. Len(c2s) : c2s[i].since = 0

SameAsCached == cachedSync.uidValidity = uidValidity

\* UIDVALIDITY and UIDNEXT come before everything that is about messages.
CodesFirst ==
    \A i \in 1 .. Len(s2c) : s2c[i].type = "CODES" =>
        /\ i = 1 \/ (i = 2 /\ s2c[1].type = "EXISTS")
        /\ Selecting
        /\ s2c[i].uidValidity = uidValidity /\ s2c[i].uidNext <= uidNext
        /\ SameAsCached => cachedSync.uidNext <= s2c[i].uidNext

\* Before the answer to SELECT only a server whose mailbox is the remembered one
\* tells about messages.
AboutMessages(r) == r.type \in {"FETCH", "VANISHED"}
ToldAfterOk ==
    (Selecting /\ ~SameAsCached) =>
        \A i \in 1 .. Len(s2c) : AboutMessages(s2c[i]) =>
            \E j \in 1 .. i - 1 : s2c[j].type = "OK"
SelectsAsCached ==
    Selecting =>
        /\ c2s = <<>> => Carried("OK")
        /\ c2s # <<>> => /\ selected <=> started
                         /\ Head(c2s).known \in {0, cachedSync.uidValidity}
                         /\ (vanishing # {} \/ reporting # {}) => SameAsCached

CacheGiven ==
    /\ cachedSync.uidValidity <= uidValidity
    /\ SameAsCached => cachedSync.uidNext <= uidNext
    /\ (SameAsCached \/ MadeOnce) => cachedUids \in Seq(0 .. LastGiven)

CodesKnown == selected /\ ~Carried("CODES")
SyncStateGiven ==
    CodesKnown => /\ syncState.uidValidity = uidValidity
                  /\ syncState.uidNext <= uidNext
                  /\ SameAsCached => cachedSync.uidNext <= syncState.uidNext

\* The list is about this mailbox unless SELECT has yet to say so.
ListIsOurs == phase # "offline" /\ (Selecting => SameAsCached)
ListGiven == ListIsOurs => children \in Seq(Messages(LastGiven))

UidInv ==
    /\ GivenOnly /\ WireGiven /\ CodesFirst /\ ToldAfterOk /\ SelectsAsCached
    /\ CacheGiven /\ SyncStateGiven /\ ListGiven

NeverBack ==
    cachedSync'.uidValidity = cachedSync.uidValidity =>
        cachedSync'.uidNext >= cachedSync.uidNext

\* The numbers are numbers.
LEMMA UidTypes ==
    ASSUME IInv
    PROVE  /\ uidNext \in Nat /\ uidNext >= 1 /\ LastGiven \in Nat /\ uidNext = LastGiven + 1
           /\ LastGiven <= MaxUid /\ MaxUid \in Nat /\ uidValidity \in Nat
           /\ s2c \in Seq(Response) /\ Len(s2c) \in Nat
           /\ c2s \in Seq(Command) /\ Len(c2s) \in Nat
           /\ store \in Seq(StoredMessage) /\ Len(store) \in Nat
           /\ cachedSync \in SyncState /\ syncState \in SyncState
           /\ cachedSync.uidNext \in Nat /\ syncState.uidNext \in Nat
           /\ cachedSync.uidValidity \in Nat /\ syncState.uidValidity \in Nat
           /\ children \in Seq(Message) /\ cachedUids \in Seq(0 .. MaxUid)
           /\ vanishing \subseteq Uid /\ reporting \subseteq Uid
           /\ gone \in [Uid -> Nat] /\ highestModSeq \in Nat
<1>1. /\ uidNext \in 1 .. MaxUid + 1 /\ MaxUid \in Nat /\ uidValidity \in Nat
      /\ store \in Seq(StoredMessage) /\ vanishing \subseteq Uid /\ reporting \subseteq Uid
      /\ gone \in [Uid -> Nat] /\ highestModSeq \in Nat
    BY BoundsAssumption DEF IInv, TypeOK, ServerTypeOK
<1>2. /\ uidNext \in Nat /\ uidNext >= 1 /\ LastGiven \in Nat /\ uidNext = LastGiven + 1
      /\ LastGiven <= MaxUid
    BY <1>1 DEF LastGiven
<1>3. s2c \in Seq(Response) /\ c2s \in Seq(Command)
    BY DEF IInv, TypeOK, WireTypeOK
<1>4. /\ cachedSync \in SyncState /\ syncState \in SyncState
      /\ children \in Seq(Message) /\ cachedUids \in Seq(0 .. MaxUid)
    BY DEF IInv, TypeOK, TreeTypeOK, CacheTypeOK
<1>5. /\ cachedSync.uidNext \in Nat /\ syncState.uidNext \in Nat
      /\ cachedSync.uidValidity \in Nat /\ syncState.uidValidity \in Nat
    BY <1>4 DEF SyncState
<1>6. Len(s2c) \in Nat /\ Len(c2s) \in Nat /\ Len(store) \in Nat
    BY <1>1, <1>3
<1> QED
    BY <1>1, <1>2, <1>3, <1>4, <1>5, <1>6

\* So they are after the step.
LEMMA UidTypesAfter ==
    ASSUME IInv'
    PROVE  /\ cachedSync'.uidNext \in Nat /\ syncState'.uidNext \in Nat
           /\ cachedSync'.uidValidity \in Nat /\ syncState'.uidValidity \in Nat
           /\ uidNext' \in Nat /\ uidValidity' \in Nat
           /\ s2c' \in Seq(Response) /\ Len(s2c') \in Nat
           /\ store' \in Seq(StoredMessage) /\ Len(store') \in Nat
           /\ vanishing' \subseteq Uid
<1>1. uidNext' \in 1 .. MaxUid + 1 /\ uidValidity' \in Nat /\ MaxUid \in Nat
      /\ store' \in Seq(StoredMessage) /\ vanishing' \subseteq Uid
    BY BoundsAssumption DEF IInv, TypeOK, ServerTypeOK
<1>2. cachedSync' \in SyncState /\ syncState' \in SyncState
    BY DEF IInv, TypeOK, TreeTypeOK, CacheTypeOK
<1>3. s2c' \in Seq(Response)
    BY DEF IInv, TypeOK, WireTypeOK
<1> QED
    BY <1>1, <1>2, <1>3 DEF SyncState

-----------------------------------------------------------------------------
(* What the client does with a response.                                    *)

\* What a step of the client has to show: of the wire and the task,
WireAdvances ==
    /\ UNCHANGED serverVars
    /\ s2c' = s2c \/ (s2c # <<>> /\ Consume /\ Head(s2c).type # "CODES")
    /\ Unnumbered => \A i \in 1 .. Len(c2s') : c2s'[i].since = 0
    /\ Selecting' => /\ Selecting /\ c2s' = c2s
                     /\ cachedSync'.uidValidity = cachedSync.uidValidity
                     /\ s2c' = s2c \/ Head(s2c).type # "OK"
    /\ (Selecting /\ ~Selecting') => ~Carried("CODES")

\* of the sync state and the cache,
StateAdvances ==
    /\ syncState'.uidValidity = syncState.uidValidity
    /\ syncState.uidNext <= syncState'.uidNext
    /\ CodesKnown => syncState'.uidNext <= uidNext
CacheAdvances ==
    /\ \/ cachedSync' = cachedSync
       \/ /\ CodesKnown
          /\ cachedSync'.uidValidity = syncState.uidValidity
          /\ syncState.uidNext <= cachedSync'.uidNext
          /\ cachedSync'.uidNext <= syncState'.uidNext
    /\ (SameAsCached' \/ MadeOnce) => cachedUids' \in Seq(0 .. LastGiven)

\* and of the list.
ListAdvances == ListIsOurs' => children' \in Seq(Messages(LastGiven))

Advances == WireAdvances /\ StateAdvances /\ CacheAdvances /\ ListAdvances

\* What is left on the wire was there before, one place further.
LEMMA RestOfWire ==
    ASSUME IInv, s2c # <<>>, Consume
    PROVE  /\ Len(s2c') = Len(s2c) - 1
           /\ \A i \in 1 .. Len(s2c') : i + 1 \in 1 .. Len(s2c) /\ s2c'[i] = s2c[i + 1]
           /\ \A i \in 2 .. Len(s2c) : i - 1 \in 1 .. Len(s2c') /\ s2c'[i - 1] = s2c[i]
           /\ 1 \in 1 .. Len(s2c) /\ Head(s2c) = s2c[1]
<1>1. s2c \in Seq(Response)
    BY UidTypes
<1> QED
    BY <1>1 DEF Consume

\* It keeps what is known of UIDs, and the saved UIDNEXT does not go back.
LEMMA AdvancesStep ==
    ASSUME IInv, IInv', UidInv, Advances
    PROVE  UidInv' /\ NeverBack
<1>a. WireAdvances /\ StateAdvances /\ CacheAdvances /\ ListAdvances
    BY DEF Advances
<1>0. /\ cachedSync.uidNext \in Nat /\ syncState.uidNext \in Nat /\ uidNext \in Nat
      /\ cachedSync'.uidNext \in Nat /\ syncState'.uidNext \in Nat
      /\ cachedSync.uidValidity \in Nat /\ uidValidity \in Nat
    BY UidTypes, UidTypesAfter
<1>1. UNCHANGED <<store, uidNext, uidValidity, gone, selected, started, vanishing, reporting>>
    BY <1>a DEF WireAdvances, serverVars, mailboxVars, sessionVars
<1>2. LastGiven' = LastGiven
    BY <1>1 DEF LastGiven
<1>3. \A i \in 1 .. Len(s2c') :
        \/ s2c' = s2c
        \/ i + 1 \in 1 .. Len(s2c) /\ s2c'[i] = s2c[i + 1] /\ s2c # <<>>
    BY <1>a, RestOfWire DEF WireAdvances
<1>4. GivenOnly'
    BY <1>1, <1>2 DEF UidInv, GivenOnly
<1>5. WireGiven'
    <2>1. ASSUME NEW i \in 1 .. Len(s2c')
          PROVE  TellsGiven(s2c'[i], LastGiven')
        <3>1. PICK k \in 1 .. Len(s2c) : s2c'[i] = s2c[k]
            BY <1>3
        <3> QED
            BY <1>2, <3>1 DEF UidInv, WireGiven
    <2>2. ~selected' => s2c' = <<>> /\ vanishing' = {}
        BY <1>1, <1>a DEF UidInv, WireGiven, WireAdvances
    <2>3. Unnumbered => \A i \in 1 .. Len(c2s') : c2s'[i].since = 0
        BY <1>a DEF WireAdvances
    <2> QED
        BY <2>1, <2>2, <2>3 DEF WireGiven
<1>6. Carried("CODES")' <=> Carried("CODES")
    <2>1. CASE s2c' = s2c
        BY <2>1 DEF Carried
    <2>2. CASE s2c # <<>> /\ Consume /\ Head(s2c).type # "CODES"
        <3>1. ASSUME NEW i \in 1 .. Len(s2c), s2c[i].type = "CODES"
              PROVE  \E k \in 1 .. Len(s2c') : s2c'[k].type = "CODES"
            <4>1. i \in 2 .. Len(s2c)
                BY <2>2, <3>1, RestOfWire
            <4> QED
                BY <2>2, <3>1, <4>1, RestOfWire
        <3>2. ASSUME NEW i \in 1 .. Len(s2c'), s2c'[i].type = "CODES"
              PROVE  \E k \in 1 .. Len(s2c) : s2c[k].type = "CODES"
            BY <2>2, <3>2, RestOfWire
        <3> QED
            BY <3>1, <3>2 DEF Carried
    <2> QED
        BY <1>a, <2>1, <2>2 DEF WireAdvances
<1>7. CodesKnown' <=> CodesKnown
    BY <1>1, <1>6 DEF CodesKnown
<1>8. CodesFirst'
    <2> SUFFICES ASSUME NEW i \in 1 .. Len(s2c'), s2c'[i].type = "CODES"
                 PROVE  /\ i = 1 \/ (i = 2 /\ s2c'[1].type = "EXISTS")
                        /\ Selecting'
                        /\ s2c'[i].uidValidity = uidValidity' /\ s2c'[i].uidNext <= uidNext'
                        /\ SameAsCached' => cachedSync'.uidNext <= s2c'[i].uidNext
        BY DEF CodesFirst
    <2>1. Carried("CODES")
        BY <1>6 DEF Carried
    <2>2. cachedSync' = cachedSync /\ (SameAsCached' <=> SameAsCached)
        BY <1>1, <1>a, <2>1 DEF CacheAdvances, CodesKnown, SameAsCached
    <2>3. CASE s2c' = s2c
        <3>0. Selecting
            BY <2>3 DEF UidInv, CodesFirst
        <3>1. Selecting'
            BY <1>a, <2>1, <3>0 DEF WireAdvances
        <3> QED
            BY <1>1, <2>2, <2>3, <3>1 DEF UidInv, CodesFirst
    <2>4. CASE s2c # <<>> /\ Consume
        <3>1. i + 1 \in 1 .. Len(s2c) /\ s2c'[i] = s2c[i + 1] /\ i \in Nat /\ i >= 1
            BY <2>4, RestOfWire
        <3>2. /\ i + 1 = 1 \/ (i + 1 = 2 /\ s2c[1].type = "EXISTS")
              /\ Selecting
              /\ s2c[i + 1].uidValidity = uidValidity /\ s2c[i + 1].uidNext <= uidNext
              /\ SameAsCached => cachedSync.uidNext <= s2c[i + 1].uidNext
            BY <3>1 DEF UidInv, CodesFirst
        <3>3. i = 1
            BY <3>1, <3>2
        <3>4. Selecting'
            BY <1>a, <2>1, <3>2 DEF WireAdvances
        <3> QED
            BY <1>1, <2>2, <3>1, <3>2, <3>3, <3>4
    <2> QED
        BY <1>a, <2>3, <2>4 DEF WireAdvances
<1>9. Selecting' => SameAsCached' = SameAsCached
    BY <1>a, <1>1 DEF WireAdvances, SameAsCached
<1>10. ToldAfterOk'
    <2> SUFFICES ASSUME Selecting', ~SameAsCached', NEW i \in 1 .. Len(s2c'),
                        AboutMessages(s2c'[i])
                 PROVE  \E j \in 1 .. i - 1 : s2c'[j].type = "OK"
        BY DEF ToldAfterOk, AboutMessages
    <2>1. Selecting /\ ~SameAsCached
        BY <1>a, <1>9 DEF WireAdvances
    <2>2. CASE s2c' = s2c
        BY <2>1, <2>2 DEF UidInv, ToldAfterOk
    <2>3. CASE s2c # <<>> /\ Consume /\ s2c' # s2c
        <3>1. i + 1 \in 1 .. Len(s2c) /\ s2c'[i] = s2c[i + 1]
            BY <2>3, RestOfWire
        <3>2. PICK j \in 1 .. (i + 1) - 1 : s2c[j].type = "OK"
            BY <2>1, <3>1 DEF UidInv, ToldAfterOk
        <3>3. j # 1
            BY <1>a, <2>3, <3>2, RestOfWire DEF WireAdvances
        <3>4. Len(s2c) \in Nat /\ i \in Nat
            BY UidTypes
        <3>5. j \in 2 .. Len(s2c) /\ j - 1 \in 1 .. i - 1
            BY <3>1, <3>2, <3>3, <3>4
        <3>6. s2c'[j - 1] = s2c[j]
            BY <2>3, <3>5, RestOfWire
        <3> QED
            BY <3>2, <3>5, <3>6
    <2> QED
        BY <1>a, <2>2, <2>3 DEF WireAdvances
<1>11. SelectsAsCached'
    <2> SUFFICES ASSUME Selecting'
                 PROVE  /\ c2s' = <<>> => Carried("OK")'
                        /\ c2s' # <<>> =>
                             /\ selected' <=> started'
                             /\ Head(c2s').known \in {0, cachedSync'.uidValidity}
                             /\ (vanishing' # {} \/ reporting' # {}) => SameAsCached'
        BY DEF SelectsAsCached
    <2>1. Selecting /\ c2s' = c2s /\ cachedSync'.uidValidity = cachedSync.uidValidity
        BY <1>a DEF WireAdvances
    <2>2. ASSUME c2s' = <<>>
          PROVE  Carried("OK")'
        <3>1. PICK j \in 1 .. Len(s2c) : s2c[j].type = "OK"
            BY <2>1, <2>2 DEF UidInv, SelectsAsCached, Carried
        <3>2. CASE s2c' = s2c
            BY <3>1, <3>2 DEF Carried
        <3>3. CASE s2c # <<>> /\ Consume /\ s2c' # s2c
            <4>1. j # 1
                BY <1>a, <3>1, <3>3, RestOfWire DEF WireAdvances
            <4>2. j \in 2 .. Len(s2c)
                BY <4>1, UidTypes
            <4> QED
                BY <3>1, <3>3, <4>2, RestOfWire DEF Carried
        <3> QED
            BY <1>a, <3>2, <3>3 DEF WireAdvances
    <2> QED
        BY <1>1, <1>9, <2>1, <2>2 DEF UidInv, SelectsAsCached
<1>12. \/ cachedSync' = cachedSync
       \/ /\ cachedSync'.uidValidity = uidValidity
          /\ cachedSync'.uidNext <= uidNext
          /\ CodesKnown
    <2>1. CodesKnown => syncState.uidValidity = uidValidity /\ syncState'.uidNext <= uidNext
        BY <1>a DEF StateAdvances, UidInv, SyncStateGiven
    <2> QED
        BY <1>0, <1>a, <2>1 DEF StateAdvances, CacheAdvances
<1>13. CacheGiven'
    <2>1. cachedSync'.uidValidity <= uidValidity'
        BY <1>0, <1>1, <1>12 DEF UidInv, CacheGiven
    <2>2. SameAsCached' => cachedSync'.uidNext <= uidNext'
        BY <1>1, <1>12 DEF UidInv, CacheGiven, SameAsCached
    <2>3. (SameAsCached' \/ MadeOnce) => cachedUids' \in Seq(0 .. LastGiven')
        BY <1>2, <1>a DEF CacheAdvances
    <2>4. MadeOnce' = MadeOnce
        BY DEF MadeOnce
    <2> QED
        BY <2>1, <2>2, <2>3, <2>4 DEF CacheGiven
<1>14. SyncStateGiven'
    <2> SUFFICES ASSUME CodesKnown
                 PROVE  /\ syncState'.uidValidity = uidValidity'
                        /\ syncState'.uidNext <= uidNext'
                        /\ SameAsCached' => cachedSync'.uidNext <= syncState'.uidNext
        BY <1>7 DEF SyncStateGiven
    <2>1. SameAsCached' => cachedSync'.uidNext <= syncState'.uidNext
        <3>1. CASE cachedSync' = cachedSync
            <4>1. SameAsCached' => cachedSync.uidNext <= syncState.uidNext
                BY <1>1, <3>1 DEF UidInv, SyncStateGiven, SameAsCached
            <4> QED
                BY <1>0, <1>a, <3>1, <4>1 DEF StateAdvances
        <3> QED
            BY <1>a, <3>1 DEF CacheAdvances
    <2> QED
        BY <1>1, <1>a, <2>1 DEF StateAdvances, UidInv, SyncStateGiven
<1>15. ListGiven'
    BY <1>2, <1>a DEF ListAdvances, ListGiven
<1>16. NeverBack
    <2> SUFFICES ASSUME cachedSync'.uidValidity = cachedSync.uidValidity,
                        cachedSync' # cachedSync
                 PROVE  cachedSync'.uidNext >= cachedSync.uidNext
        BY UidTypes DEF NeverBack
    <2>1. CodesKnown /\ SameAsCached /\ syncState.uidNext <= cachedSync'.uidNext
        BY <1>1, <1>12, <1>a DEF CacheAdvances, SameAsCached, UidInv, SyncStateGiven
    <2>2. cachedSync.uidNext <= syncState.uidNext
        BY <2>1 DEF UidInv, SyncStateGiven
    <2> QED
        BY <1>0, <2>1, <2>2
<1> QED
    BY <1>4, <1>5, <1>8, <1>10, <1>11, <1>13, <1>14, <1>15, <1>16 DEF UidInv

\* When the codes have come, what is saved and what is shown is about this mailbox.
LEMMA KnownByNow ==
    ASSUME IInv, UidInv
    PROVE  /\ (s2c # <<>> /\ Head(s2c).type \notin {"EXISTS", "CODES"}) => CodesKnown
           /\ (phase # "offline" /\ ~Selecting) => CodesKnown
           /\ s2c # <<>> => phase # "offline" /\ selected
           /\ (s2c # <<>> /\ AboutMessages(Head(s2c))) => ListIsOurs
           /\ CodesKnown => syncState.uidValidity = uidValidity /\ syncState.uidNext <= uidNext
           /\ ListIsOurs => children \in Seq(Messages(LastGiven))
<1>1. s2c # <<>> => phase # "offline" /\ selected
    BY DEF IInv, WireInv, OfflineIsSilent, UidInv, WireGiven
<1>2. ASSUME s2c # <<>>, Head(s2c).type \notin {"EXISTS", "CODES"}
      PROVE  CodesKnown
    <2>1. Head(s2c) = s2c[1] /\ 1 \in 1 .. Len(s2c)
        BY <1>2, UidTypes
    <2>2. ~Carried("CODES")
        BY <1>2, <2>1 DEF Carried, UidInv, CodesFirst
    <2> QED
        BY <1>1, <1>2, <2>2 DEF CodesKnown
<1>3. ASSUME phase # "offline", ~Selecting
      PROVE  CodesKnown
    <2>1. ~Carried("CODES")
        BY <1>3 DEF Carried, UidInv, CodesFirst
    <2>2. selected
        BY <1>3 DEF IInv, WireInv, ReportsWhatItHas
    <2> QED
        BY <2>1, <2>2 DEF CodesKnown
<1>4. ASSUME s2c # <<>>, AboutMessages(Head(s2c))
      PROVE  ListIsOurs
    <2>1. Head(s2c) = s2c[1] /\ 1 \in 1 .. Len(s2c) /\ 1 .. 1 - 1 = {}
        BY <1>4, UidTypes
    <2>2. Selecting => SameAsCached
        BY <1>4, <2>1 DEF UidInv, ToldAfterOk
    <2> QED
        BY <1>1, <1>4, <2>2 DEF ListIsOurs
<1> QED
    BY <1>1, <1>2, <1>3, <1>4 DEF UidInv, SyncStateGiven, ListGiven

\* What is saved of the list and of the sync state that knows its codes.
LEMMA SaveAdvances ==
    ASSUME IInv, UidInv, CodesKnown, uidValidity' = uidValidity,
           NEW list \in Seq(Messages(LastGiven)), NEW ss \in SyncState,
           ss.uidValidity = syncState.uidValidity,
           syncState.uidNext <= ss.uidNext, ss.uidNext <= syncState'.uidNext,
           SaveSyncStateAndUids(list, ss) \/ UNCHANGED <<cachedSync, cachedUids>>
    PROVE  CacheAdvances
<1>1. CASE UNCHANGED <<cachedSync, cachedUids>>
    BY <1>1 DEF CacheAdvances, SameAsCached, UidInv, CacheGiven
<1>2. CASE SaveSyncStateAndUids(list, ss)
    <2>1. cachedSync' = Reloaded(ss) /\ cachedUids' = UidsOf(list)
        BY <1>2 DEF SaveSyncStateAndUids
    <2>2. UidsOf(list) \in Seq(0 .. LastGiven)
        BY UidTypes, ListTypes
    <2>3. Reloaded(ss).uidValidity = ss.uidValidity /\ Reloaded(ss).uidNext = ss.uidNext
        BY DEF Reloaded, SyncState
    <2> QED
        BY <2>1, <2>2, <2>3 DEF CacheAdvances
<1> QED
    BY <1>1, <1>2

\* Nothing is saved.
LEMMA NoSaveAdvances ==
    ASSUME UidInv, UNCHANGED <<uidValidity, cachedSync>>,
           cachedUids' = cachedUids \/ cachedUids' = <<>>
    PROVE  CacheAdvances
<1>1. SameAsCached' <=> SameAsCached
    BY DEF SameAsCached
<1>2. (SameAsCached \/ MadeOnce) => cachedUids \in Seq(0 .. LastGiven)
    BY DEF UidInv, CacheGiven
<1>3. <<>> \in Seq(0 .. LastGiven)
    OBVIOUS
<1> QED
    BY <1>1, <1>2, <1>3 DEF CacheAdvances

\* The sync state goes on to a UIDNEXT which the server has reached.
LEMMA FieldsOfSyncState ==
    ASSUME NEW ss \in SyncState, NEW n \in Nat
    PROVE  /\ setExists(ss, n).uidNext = ss.uidNext
           /\ setExists(ss, n).uidValidity = ss.uidValidity
           /\ setHighestModSeq(ss, n).uidNext = ss.uidNext
           /\ setHighestModSeq(ss, n).uidValidity = ss.uidValidity
           /\ setUidNext(ss, n).uidNext = n
           /\ setUidNext(ss, n).uidValidity = ss.uidValidity
           /\ setUidValidity(ss, n).uidNext = ss.uidNext
           /\ setUidValidity(ss, n).uidValidity = n
           /\ Reloaded(ss).uidNext = ss.uidNext
           /\ Reloaded(ss).uidValidity = ss.uidValidity
BY DEF SyncState, setExists, setHighestModSeq, setUidNext, setUidValidity, Reloaded

\* updateHighestKnownUid() raises it to what the messages have.
LEMMA HighestKnownUidRaises ==
    ASSUME NEW n \in Nat, NEW s \in Seq(Messages(n)), NEW ss \in SyncState
    PROVE  LET now == updateHighestKnownUid(ss, s)
           IN  /\ now.uidValidity = ss.uidValidity /\ ss.uidNext <= now.uidNext
               /\ ss.uidNext <= n + 1 => now.uidNext <= n + 1
<1> DEFINE highest == HighestKnownUid(s)
<1>1. highest \in 0 .. n /\ ss.uidNext \in Nat
    BY HighestKnownUidType DEF SyncState
<1> HIDE DEF highest
<1>2. Larger(ss.uidNext, highest + 1) \in Nat
    BY <1>1 DEF Larger
<1>3. CASE highest = 0
    BY <1>1, <1>3 DEF updateHighestKnownUid, highest
<1>4. CASE highest # 0
    <2>1. updateHighestKnownUid(ss, s) = setUidNext(ss, Larger(ss.uidNext, highest + 1))
        BY <1>4 DEF updateHighestKnownUid, highest
    <2> QED
        BY <1>1, <1>2, <2>1, FieldsOfSyncState DEF Larger
<1> QED
    BY <1>3, <1>4

\* VANISHED names messages which the server had.
LEMMA VanishedAdvances ==
    ASSUME IInv, UidInv, CodesKnown, ListIsOurs, uidValidity' = uidValidity,
           NEW uids \in SUBSET (1 .. LastGiven), NEW earlier \in BOOLEAN,
           HandleVanished(uids, earlier)
    PROVE  StateAdvances /\ CacheAdvances /\ children' \in Seq(Messages(LastGiven))
<1> DEFINE removed == VanishedUids(children, uids, earlier)
           rows == VanishedRows(children, uids, earlier)
           shorter == RemoveRows(children, rows)
           list == AllHandled(IF earlier THEN PadTo(shorter, syncState.exists)
                              ELSE shorter)
           IsHighest(u) == \A v \in removed : v <= u
           highest == CHOOSE u \in removed : IsHighest(u)
           learnt == IF removed # {} /\ syncState.uidNext <= highest
                     THEN setUidNext(syncState, highest + 1) ELSE syncState
           now == setExists(learnt, Len(list))
<1>1. /\ children' = list /\ syncState' = now
      /\ \/ SaveSyncStateAndUids(list, now)
         \/ UNCHANGED <<cachedSync, cachedUids>>
    BY DEF HandleVanished
<1>2. uids \in SUBSET Nat /\ LastGiven \in Nat /\ uidNext = LastGiven + 1
    BY UidTypes
<1>3. children \in Seq(Messages(LastGiven)) /\ syncState \in SyncState
      /\ syncState.uidNext \in Nat /\ syncState.uidNext <= uidNext /\ syncState.exists \in Nat
    BY KnownByNow, UidTypes, ListFacts
<1>4. rows \subseteq 1 .. Len(children) /\ removed \subseteq uids
    BY <1>2, <1>3, VanishedTypes
<1>5. list \in Seq(Messages(LastGiven)) /\ Len(list) \in Nat
    <2> HIDE DEF rows
    <2>1. shorter \in Seq(Messages(LastGiven))
        BY <1>3, <1>4, RemoveRowsType
    <2> HIDE DEF shorter
    <2>2. PadTo(shorter, syncState.exists) \in Seq(Messages(LastGiven))
        BY <1>2, <1>3, <2>1, ListTypes
    <2>3. (IF earlier THEN PadTo(shorter, syncState.exists) ELSE shorter)
            \in Seq(Messages(LastGiven))
        BY <2>1, <2>2
    <2>4. list \in Seq(Messages(LastGiven))
        BY <1>2, <2>3, ListTypes
    <2> HIDE DEF list
    <2> QED
        BY <2>4
<1>6. removed # {} => highest \in 1 .. LastGiven
    <2> HIDE DEF removed
    <2>1. removed \in SUBSET (0 .. LastGiven)
        BY <1>4
    <2>2. removed # {} => \E u \in removed : IsHighest(u)
        BY <1>2, <2>1, GreatestNat
    <2>3. removed # {} => highest \in removed
        BY <2>2
    <2> QED
        BY <1>4, <2>3
<1>7. /\ learnt \in SyncState /\ learnt.uidValidity = syncState.uidValidity
      /\ syncState.uidNext <= learnt.uidNext /\ learnt.uidNext <= uidNext
    <2> HIDE DEF removed, highest
    <2>1. CASE removed # {} /\ syncState.uidNext <= highest
        <3>1. highest \in Nat /\ highest + 1 \in Nat /\ highest + 1 <= uidNext
            BY <1>2, <1>6, <2>1
        <3>2. learnt = setUidNext(syncState, highest + 1)
            BY <2>1
        <3>3. learnt.uidNext = highest + 1
            BY <1>3, <3>1, <3>2, FieldsOfSyncState
        <3>4. learnt \in SyncState /\ learnt.uidValidity = syncState.uidValidity
            BY <1>3, <3>1, <3>2, FieldsOfSyncState, SyncStateType
        <3>5. syncState.uidNext <= highest + 1
            BY <1>3, <2>1, <3>1
        <3> QED
            BY <3>1, <3>3, <3>4, <3>5
    <2>2. CASE ~(removed # {} /\ syncState.uidNext <= highest)
        BY <1>3, <2>2
    <2> QED
        BY <2>1, <2>2
<1>8. /\ now \in SyncState /\ now.uidValidity = syncState.uidValidity
      /\ syncState.uidNext <= now.uidNext /\ now.uidNext <= uidNext
    <2> HIDE DEF learnt, list
    <2> QED
        BY <1>5, <1>7, FieldsOfSyncState, SyncStateType
<1> HIDE DEF list, now
<1>9. now.uidNext <= syncState'.uidNext
    BY <1>1, <1>8 DEF SyncState
<1>10. StateAdvances
    BY <1>1, <1>8 DEF StateAdvances
<1>11. CacheAdvances
    BY <1>1, <1>5, <1>8, <1>9, SaveAdvances
<1> QED
    BY <1>1, <1>5, <1>10, <1>11

\* FETCH is about a message which the server has.
LEMMA FetchAdvances ==
    ASSUME IInv, UidInv, CodesKnown, ListIsOurs, uidValidity' = uidValidity,
           MadeOnce \/ Unnumbered,
           NEW r \in Response, r.type = "FETCH", r.uid <= LastGiven,
           Unnumbered => r.modseq = 0, FetchRefused(r) = "none",
           NEW obtaining \in BOOLEAN, HandleFetch(r, obtaining)
    PROVE  StateAdvances /\ CacheAdvances /\ children' \in Seq(Messages(LastGiven))
<1> DEFINE old == children[r.number]
           learnsUid == r.uid # 0 /\ old.uid = 0
           uid == IF learnsUid THEN r.uid ELSE old.uid
           raises == learnsUid /\ syncState.uidNext <= r.uid
           newFlags == ~old.handled \/ old.flags # r.flags
           known == IF raises THEN setUidNext(syncState, r.uid + 1) ELSE syncState
           newer == r.modseq > known.highestModSeq
           now == IF newer THEN setHighestModSeq(known, r.modseq) ELSE known
           state == IF raises THEN "LOADING" ELSE fetchStatus
           message == [uid |-> uid, flags |-> r.flags,
                       handled |-> old.handled \/ numbersFetched]
<1>1. /\ children' = [children EXCEPT ![r.number] = message]
      /\ syncState' = IF obtaining /\ (learnsUid \/ newFlags) /\ now.uidNext <= uid
                      THEN setUidNext(now, uid + 1) ELSE now
      /\ cachedSync' = IF newer /\ state = "DONE" THEN Reloaded(now) ELSE cachedSync
      /\ cachedUids' = cachedUids
    BY DEF HandleFetch
<1>2. /\ r.number \in Nat /\ r.uid \in 0 .. MaxUid /\ r.flags \in Nat /\ r.modseq \in Nat
      /\ LastGiven \in Nat /\ uidNext = LastGiven + 1
    BY ResponseFields, UidTypes
<1>3. r.number \in 1 .. Len(children)
    BY <1>2, ListFacts DEF FetchRefused
<1>4. /\ children \in Seq(Messages(LastGiven)) /\ syncState \in SyncState
      /\ syncState.uidNext \in Nat /\ syncState.uidNext <= uidNext
      /\ syncState.uidValidity = uidValidity
    BY KnownByNow, UidTypes
<1>5. old.uid \in 0 .. LastGiven /\ old.handled \in BOOLEAN
    BY <1>2, <1>3, <1>4, ItemType
<1>6. uid \in 0 .. LastGiven /\ uid + 1 \in Nat /\ uid + 1 <= uidNext
      /\ r.uid + 1 \in Nat /\ r.uid + 1 <= uidNext
    BY <1>2, <1>5
<1> HIDE DEF uid, newFlags, learnsUid
<1>7. children' \in Seq(Messages(LastGiven))
    <2>1. message \in Messages(LastGiven)
        <3>1. (old.handled \/ numbersFetched) \in BOOLEAN
            OBVIOUS
        <3> QED
            BY <1>2, <1>6, <3>1 DEF Messages
    <2> HIDE DEF message
    <2> QED
        BY <1>1, <1>3, <1>4, <2>1
<1>8. /\ known \in SyncState /\ known.uidValidity = uidValidity
      /\ syncState.uidNext <= known.uidNext /\ known.uidNext <= uidNext
    <2>1. CASE raises
        <3>1. syncState.uidNext <= r.uid + 1
            BY <1>2, <1>4, <2>1
        <3> HIDE DEF raises
        <3>2. known = setUidNext(syncState, r.uid + 1)
            BY <2>1
        <3>3. known.uidNext = r.uid + 1
            BY <1>4, <1>6, <3>2, FieldsOfSyncState
        <3>4. known \in SyncState /\ known.uidValidity = uidValidity
            BY <1>4, <1>6, <3>2, FieldsOfSyncState, SyncStateType
        <3> QED
            BY <1>6, <3>1, <3>3, <3>4
    <2>2. CASE ~raises
        <3> HIDE DEF raises
        <3> QED
            BY <1>4, <2>2
    <2> QED
        BY <2>1, <2>2
<1>13. known.highestModSeq \in Nat
    BY <1>8 DEF SyncState
<1> HIDE DEF known, raises
<1>9. /\ now \in SyncState /\ now.uidValidity = uidValidity
      /\ syncState.uidNext <= now.uidNext /\ now.uidNext <= uidNext /\ now.uidNext \in Nat
    <2>1. /\ now \in SyncState /\ now.uidValidity = known.uidValidity
          /\ now.uidNext = known.uidNext
        BY <1>2, <1>8, FieldsOfSyncState, SyncStateType
    <2>2. now.uidNext \in Nat
        BY <2>1 DEF SyncState
    <2> QED
        BY <1>8, <2>1, <2>2
<1> HIDE DEF now, newer, state
<1>10. /\ syncState'.uidValidity = uidValidity
       /\ now.uidNext <= syncState'.uidNext /\ syncState'.uidNext <= uidNext
    <2>1. CASE obtaining /\ (learnsUid \/ newFlags) /\ now.uidNext <= uid
        <3>1. syncState' = setUidNext(now, uid + 1)
            BY <1>1, <2>1
        <3>2. syncState'.uidNext = uid + 1 /\ syncState'.uidValidity = uidValidity
            BY <1>6, <1>9, <3>1, FieldsOfSyncState
        <3>3. now.uidNext <= uid + 1
            BY <1>6, <1>9, <2>1
        <3> QED
            BY <1>6, <3>2, <3>3
    <2>2. CASE ~(obtaining /\ (learnsUid \/ newFlags) /\ now.uidNext <= uid)
        <3>1. syncState' = now
            BY <1>1, <2>2
        <3> QED
            BY <1>9, <3>1
    <2> QED
        BY <2>1, <2>2
<1>11. StateAdvances
    <2>1. syncState'.uidNext \in Nat
        BY <1>1, <1>6, <1>9, FieldsOfSyncState
    <2> QED
        BY <1>4, <1>9, <1>10, <2>1 DEF StateAdvances
<1>12. CacheAdvances
    <2>1. CASE ~newer
        BY <1>1, <2>1, NoSaveAdvances
    <2>2. CASE newer
        <3>1. ~Unnumbered
            BY <1>2, <1>13, <2>2 DEF newer
        <3>2. cachedUids' \in Seq(0 .. LastGiven)
            BY <1>1, <3>1 DEF UidInv, CacheGiven
        <3>3. Reloaded(now).uidNext = now.uidNext /\ Reloaded(now).uidValidity = uidValidity
            BY <1>9 DEF Reloaded, SyncState
        <3> QED
            BY <1>1, <1>4, <1>9, <1>10, <3>2, <3>3 DEF CacheAdvances
    <2> QED
        BY <2>1, <2>2
<1> QED
    BY <1>7, <1>11, <1>12

\* The commands ask for changes since the mod-sequence they are given.
LEMMA SinceOfCommands ==
    /\ \A name \in CommandName : cmd(name).since = 0
    /\ \A from \in Nat : UidSearch(from).since = 0 /\ UidFetch(from).since = 0
    /\ \A to, since \in Nat : Fetch(to, since).since = since
    /\ \A known, since \in Nat :
        Select(known, since).since = since /\ Select(known, since).known = known
BY DEF cmd, Select, UidSearch, UidFetch, Fetch

\* At most one command is sent, which does not ask for changes by a number.
AsksPlainly ==
    c2s' = c2s \/ \E command \in Command : /\ Unnumbered => command.since = 0
                                           /\ Send(command)

\* So none of the commands does.
LEMMA AllAskPlainly ==
    ASSUME IInv, UidInv, AsksPlainly
    PROVE  Unnumbered => \A i \in 1 .. Len(c2s') : c2s'[i].since = 0
<1> SUFFICES ASSUME Unnumbered, NEW i \in 1 .. Len(c2s')
             PROVE  c2s'[i].since = 0
    OBVIOUS
<1>1. \A j \in 1 .. Len(c2s) : c2s[j].since = 0
    BY DEF UidInv, WireGiven
<1>2. CASE c2s' = c2s
    BY <1>1, <1>2
<1>3. CASE c2s' # c2s
    <2>1. PICK command \in Command : command.since = 0 /\ c2s' = Append(c2s, command)
        BY <1>3 DEF AsksPlainly, Send
    <2>2. c2s \in Seq(Command)
        BY UidTypes
    <2>3. CASE i \in 1 .. Len(c2s)
        BY <1>1, <2>1, <2>2, <2>3
    <2>4. CASE i \notin 1 .. Len(c2s)
        <3>1. i = Len(c2s) + 1
            BY <2>1, <2>2, <2>4
        <3>2. c2s'[i] = command
            BY <2>1, <2>2, <3>1
        <3> QED
            BY <2>1, <3>2
    <2> QED
        BY <2>3, <2>4
<1> QED
    BY <1>2, <1>3

\* A response is taken by a task which goes on as it was or leaves SELECTING.
LEMMA TakenAdvances ==
    ASSUME IInv, UidInv, s2c # <<>>, Consume, Head(s2c).type \notin {"EXISTS", "CODES"},
           UNCHANGED serverVars, AsksPlainly, StateAdvances, CacheAdvances, ListAdvances,
           Selecting' => /\ Selecting /\ c2s' = c2s /\ Head(s2c).type # "OK"
                         /\ cachedSync'.uidValidity = cachedSync.uidValidity
    PROVE  Advances
<1>1. ~Carried("CODES")
    BY KnownByNow DEF CodesKnown
<1>2. WireAdvances
    BY <1>1, AllAskPlainly DEF WireAdvances
<1> QED
    BY <1>2 DEF Advances

\* What does not touch the sync state is an advance of it.
LEMMA SameStateAdvances ==
    ASSUME IInv, UidInv, UNCHANGED syncState
    PROVE  StateAdvances
<1>1. CodesKnown => syncState.uidNext <= uidNext
    BY DEF UidInv, SyncStateGiven
<1>2. syncState.uidNext \in Nat
    BY UidTypes
<1> QED
    BY <1>1, <1>2 DEF StateAdvances

\* A changed EXISTS or HIGHESTMODSEQ is no change of the UIDNEXT.
LEMMA SetExistsAdvances ==
    ASSUME IInv, UidInv, NEW n \in Nat, syncState' = setExists(syncState, n)
    PROVE  StateAdvances
<1>1. /\ syncState'.uidNext = syncState.uidNext
      /\ syncState'.uidValidity = syncState.uidValidity
    BY UidTypes, FieldsOfSyncState
<1>2. CodesKnown => syncState.uidNext <= uidNext
    BY DEF UidInv, SyncStateGiven
<1>3. syncState.uidNext \in Nat
    BY UidTypes
<1> QED
    BY <1>1, <1>2, <1>3 DEF StateAdvances

\* The list stays the one of this mailbox.
LEMMA SameListAdvances ==
    ASSUME IInv, UidInv, ListIsOurs' => ListIsOurs,
           \/ UNCHANGED children
           \/ children \in Seq(Messages(LastGiven)) =>
                children' \in Seq(Messages(LastGiven))
    PROVE  ListAdvances
BY DEF ListAdvances, UidInv, ListGiven

-----------------------------------------------------------------------------
(* EXISTS.                                                                  *)

\* The number is remembered and the list gets rows without UIDs.
LEMMA ExistsWhileSelectingAdvances ==
    ASSUME IInv, UidInv, ExistsWhileSelecting
    PROVE  Advances
<1>1. /\ phase = "obtaining" /\ s2c # <<>> /\ Head(s2c) \in Response
      /\ Head(s2c).type = "EXISTS" /\ status = "SELECTING" /\ Consume
      /\ Head(s2c).number \in Nat
    BY ReceivedFacts, ResponseFields DEF ExistsWhileSelecting, Obtaining
<1>2. /\ UNCHANGED <<serverVars, c2s, cachedSync, cachedUids, phase, status>>
      /\ syncState' = setExists(syncState, Head(s2c).number)
      /\ \/ UNCHANGED children
         \/ children' = PadTo(children, Head(s2c).number)
    BY DEF ExistsWhileSelecting, taskVars, cacheVars
<1>3. Selecting /\ Selecting'
    BY <1>1, <1>2 DEF Selecting
<1>4. UNCHANGED uidValidity
    BY <1>2 DEF serverVars, mailboxVars
<1>5. ListAdvances
    <2>1. ListIsOurs' => ListIsOurs
        BY <1>1, <1>2, <1>3, <1>4 DEF ListIsOurs, SameAsCached
    <2>2. children \in Seq(Messages(LastGiven)) =>
            PadTo(children, Head(s2c).number) \in Seq(Messages(LastGiven))
        BY <1>1, UidTypes, ListTypes
    <2> QED
        BY <1>2, <2>1, <2>2, SameListAdvances
<1>6. StateAdvances
    BY <1>1, <1>2, SetExistsAdvances
<1>7. CacheAdvances
    BY <1>2, <1>4, NoSaveAdvances
<1>8. WireAdvances
    BY <1>1, <1>2, <1>3, AllAskPlainly DEF WireAdvances, AsksPlainly
<1> QED
    BY <1>5, <1>6, <1>7, <1>8 DEF Advances

\* updateHighestKnownUid() knows no UID beyond the last one.
LEMMA RaisedAdvances ==
    ASSUME IInv, UidInv, CodesKnown, ListIsOurs, NEW ss \in SyncState,
           ss.uidNext = syncState.uidNext, ss.uidValidity = syncState.uidValidity,
           NEW list \in Seq(Messages(LastGiven)),
           syncState' = updateHighestKnownUid(ss, list)
    PROVE  StateAdvances
<1>1. LastGiven \in Nat /\ uidNext = LastGiven + 1 /\ syncState.uidNext <= uidNext
    BY UidTypes, KnownByNow
<1>2. /\ syncState'.uidValidity = ss.uidValidity /\ ss.uidNext <= syncState'.uidNext
      /\ ss.uidNext <= LastGiven + 1 => syncState'.uidNext <= LastGiven + 1
    BY <1>1, HighestKnownUidRaises
<1> QED
    BY <1>1, <1>2 DEF StateAdvances

\* When the UIDs are known already, those of the arrivals are asked for.
LEMMA ExistsWhileSyncingAdvances ==
    ASSUME IInv, UidInv, ExistsWhileSyncing
    PROVE  Advances
<1> DEFINE n == Head(s2c).number
           now == updateHighestKnownUid(setExists(syncState, n), children)
           asksForUids == status \in {"SYNCING_FLAGS", "DONE"} /\ n > Len(children)
<1>1. /\ phase = "obtaining" /\ s2c # <<>> /\ Head(s2c) \in Response
      /\ Head(s2c).type = "EXISTS" /\ status # "SELECTING" /\ Consume
      /\ n \in Nat
    BY ReceivedFacts, ResponseFields DEF ExistsWhileSyncing, Obtaining
<1>2. /\ UNCHANGED <<serverVars, cachedSync, cachedUids, phase, status>>
      /\ children' = PadTo(children, n)
      /\ syncState' = IF status = "SYNCING_UIDS" \/ asksForUids THEN now ELSE syncState
      /\ IF asksForUids THEN Send(UidFetch(Larger(now.uidNext, 1))) ELSE UNCHANGED c2s
    BY DEF ExistsWhileSyncing, taskVars, cacheVars, HandleExists, RequestArrivals
<1>3. ~Selecting /\ ~Selecting' /\ CodesKnown /\ ListIsOurs
    BY <1>1, <1>2, KnownByNow DEF Selecting, ListIsOurs
<1>4. UNCHANGED uidValidity
    BY <1>2 DEF serverVars, mailboxVars
<1>5. children \in Seq(Messages(LastGiven)) /\ LastGiven \in Nat /\ syncState \in SyncState
    BY <1>3, KnownByNow, UidTypes
<1>6. now \in SyncState /\ setExists(syncState, n) \in SyncState
    BY <1>1, <1>5, SyncStateType, UpdateHighestKnownUidType
<1> HIDE DEF n
<1>7. StateAdvances
    <2>1. CASE syncState' = syncState
        BY <2>1, SameStateAdvances
    <2>2. CASE syncState' = now
        <3>1. /\ setExists(syncState, n).uidNext = syncState.uidNext
              /\ setExists(syncState, n).uidValidity = syncState.uidValidity
            BY <1>1, <1>5, FieldsOfSyncState
        <3> QED
            BY <1>3, <1>5, <1>6, <2>2, <3>1, RaisedAdvances
    <2> QED
        BY <1>2, <2>1, <2>2
<1>8. AsksPlainly
    <2>1. Larger(now.uidNext, 1) \in Nat
        BY <1>6 DEF SyncState, Larger
    <2>2. /\ UidFetch(Larger(now.uidNext, 1)) \in Command
          /\ UidFetch(Larger(now.uidNext, 1)).since = 0
        BY <2>1, CommandTypes, SinceOfCommands
    <2> QED
        BY <1>2, <2>2 DEF AsksPlainly
<1>9. ListAdvances
    BY <1>1, <1>2, <1>5, ListTypes DEF ListAdvances
<1>10. CacheAdvances
    BY <1>2, <1>4, NoSaveAdvances
<1>11. WireAdvances
    BY <1>1, <1>2, <1>3, <1>8, AllAskPlainly DEF WireAdvances
<1> QED
    BY <1>7, <1>9, <1>10, <1>11 DEF Advances

-----------------------------------------------------------------------------
(* The other responses while the mailbox is being synchronized.             *)

\* A response other than EXISTS and the codes, and what is known when it comes.
LEMMA TakenFacts ==
    ASSUME IInv, UidInv, NEW type, Received(type), type \notin {"EXISTS", "CODES"}
    PROVE  /\ s2c # <<>> /\ Head(s2c) \in Response /\ Head(s2c).type = type
           /\ phase # "offline" /\ CodesKnown /\ TellsGiven(Head(s2c), LastGiven)
           /\ syncState \in SyncState /\ LastGiven \in Nat /\ uidNext = LastGiven + 1
           /\ (type \in {"FETCH", "VANISHED"} \/ ~Selecting)
                => ListIsOurs /\ children \in Seq(Messages(LastGiven))
<1>1. /\ s2c # <<>> /\ Head(s2c) \in Response /\ Head(s2c).type = type
      /\ 1 \in 1 .. Len(s2c) /\ Head(s2c) = s2c[1]
    BY ReceivedFacts
<1>2. phase # "offline" /\ CodesKnown
    BY <1>1, KnownByNow
<1>3. (type \in {"FETCH", "VANISHED"} \/ ~Selecting) => ListIsOurs
    BY <1>1, <1>2, KnownByNow DEF ListIsOurs, AboutMessages
<1>4. TellsGiven(Head(s2c), LastGiven)
    BY <1>1 DEF UidInv, WireGiven
<1> QED
    BY <1>1, <1>2, <1>3, <1>4, KnownByNow, UidTypes

\* EXPUNGE takes a row from a list of known messages.
LEMMA ListWithoutRowGiven ==
    ASSUME NEW n \in Nat, children \in Seq(Messages(n)), NEW k \in 1 .. Len(children)
    PROVE  ListWithoutRow(k) \in Seq(Messages(n))
<1>1. RemoveRow(children, k) \in Seq(Messages(n))
    BY RemoveRowType
<1>2. AllHandled(RemoveRow(children, k)) \in Seq(Messages(n))
    BY <1>1, ListTypes
<1> QED
    BY <1>1, <1>2 DEF ListWithoutRow

\* EXPUNGE changes no UID; when the rest is saved at once, the codes have come.
LEMMA ObtainExpungeAdvances ==
    ASSUME IInv, UidInv, ObtainExpunge
    PROVE  Advances
<1> DEFINE n == Head(s2c).number
           now == IF syncState.exists > 0 THEN setExists(syncState, syncState.exists - 1)
                  ELSE syncState
<1>1. /\ s2c # <<>> /\ Head(s2c) \in Response /\ Head(s2c).type = "EXPUNGE"
      /\ phase = "obtaining" /\ CodesKnown
      /\ syncState \in SyncState /\ LastGiven \in Nat /\ uidNext = LastGiven + 1
      /\ ~Selecting => ListIsOurs /\ children \in Seq(Messages(LastGiven))
      /\ syncState.exists \in Nat
    <2>1. Received("EXPUNGE") /\ phase = "obtaining"
        BY DEF ObtainExpunge, Obtaining
    <2> QED
        BY <2>1, TakenFacts, ListFacts
<1>2. n \in Nat
    BY <1>1, ResponseFields
<1>3. /\ RowIsKnown(n) => ~ExpungeOutOfBounds(n)
      /\ IF RowIsKnown(n) THEN children' = ListWithoutRow(n) ELSE UNCHANGED children
      /\ syncState' = now /\ Consume
      /\ IF status = "DONE" THEN SaveSyncStateAndUids(ListWithoutRow(n), now)
         ELSE UNCHANGED <<cachedSync, cachedUids>>
      /\ UNCHANGED <<serverVars, c2s, phase, status>>
    BY DEF ObtainExpunge, HandleExpunge
<1> HIDE DEF n
<1>4. UNCHANGED uidValidity /\ (Selecting' <=> Selecting)
    BY <1>3 DEF serverVars, mailboxVars, Selecting
<1>5. /\ now \in SyncState /\ now.uidNext = syncState.uidNext
      /\ now.uidValidity = syncState.uidValidity
    <2>1. CASE syncState.exists > 0
        <3>1. syncState.exists - 1 \in Nat
            BY <1>1, <2>1
        <3> QED
            BY <1>1, <2>1, <3>1, FieldsOfSyncState, SyncStateType
    <2>2. CASE ~(syncState.exists > 0)
        BY <1>1, <2>2
    <2> QED
        BY <2>1, <2>2
<1> HIDE DEF now
<1>6. RowIsKnown(n) => n \in 1 .. Len(children)
    BY <1>2, <1>3, ListFacts DEF ExpungeOutOfBounds
<1>7. (RowIsKnown(n) /\ children \in Seq(Messages(LastGiven)))
            => ListWithoutRow(n) \in Seq(Messages(LastGiven))
    BY <1>1, <1>6, ListWithoutRowGiven
<1>8. StateAdvances
    <2>1. syncState.uidNext <= uidNext /\ syncState.uidNext \in Nat
        BY <1>1, KnownByNow, UidTypes
    <2> QED
        BY <1>3, <1>5, <2>1 DEF StateAdvances
<1>9. CacheAdvances
    <2>1. CASE status # "DONE"
        BY <1>3, <1>4, <2>1, NoSaveAdvances
    <2>2. CASE status = "DONE"
        <3>1. ~Selecting /\ RowIsKnown(n)
            BY <2>2 DEF Selecting, RowIsKnown
        <3>2. ListWithoutRow(n) \in Seq(Messages(LastGiven))
            BY <1>1, <1>7, <3>1
        <3>3. now.uidNext \in Nat
            BY <1>5, UidTypes
        <3> QED
            BY <1>1, <1>3, <1>4, <1>5, <2>2, <3>2, <3>3, SaveAdvances
    <2> QED
        BY <2>1, <2>2
<1>10. Selecting => UNCHANGED cachedSync
    BY <1>3 DEF Selecting
<1>11. ListAdvances
    <2>1. ListIsOurs' => ListIsOurs
        BY <1>1, <1>4, <1>10 DEF ListIsOurs, SameAsCached
    <2> QED
        BY <1>3, <1>7, <2>1, SameListAdvances
<1>12. AsksPlainly
    BY <1>3 DEF AsksPlainly
<1> QED
    BY <1>1, <1>3, <1>4, <1>8, <1>9, <1>10, <1>11, <1>12, TakenAdvances

\* VANISHED and FETCH while synchronizing or later.
LEMMA ToldAdvances ==
    ASSUME IInv, UidInv, MadeOnce \/ Unnumbered, s2c # <<>>, Consume,
           \/ /\ Received("VANISHED")
              /\ HandleVanished(Head(s2c).uids, Head(s2c).earlier)
           \/ /\ Received("FETCH") /\ FetchRefused(Head(s2c)) = "none"
              /\ \E obtaining \in BOOLEAN : HandleFetch(Head(s2c), obtaining),
           UNCHANGED <<serverVars, c2s, phase, status>>
    PROVE  Advances
<1>1. /\ Head(s2c) \in Response /\ Head(s2c).type \in {"VANISHED", "FETCH"}
      /\ phase # "offline" /\ CodesKnown /\ TellsGiven(Head(s2c), LastGiven)
      /\ ListIsOurs
    BY TakenFacts
<1>2. UNCHANGED uidValidity /\ (Selecting' <=> Selecting)
    BY DEF serverVars, mailboxVars, Selecting
<1>3. StateAdvances /\ CacheAdvances /\ children' \in Seq(Messages(LastGiven))
    <2>1. CASE Received("VANISHED") /\ HandleVanished(Head(s2c).uids, Head(s2c).earlier)
        <3>1. Head(s2c).uids \in SUBSET (1 .. LastGiven) /\ Head(s2c).earlier \in BOOLEAN
            BY <1>1, <2>1, ResponseFields DEF Received, TellsGiven
        <3> QED
            BY <1>1, <1>2, <2>1, <3>1, VanishedAdvances
    <2>2. CASE /\ Received("FETCH") /\ FetchRefused(Head(s2c)) = "none"
               /\ \E obtaining \in BOOLEAN : HandleFetch(Head(s2c), obtaining)
        <3>1. Head(s2c).type = "FETCH" /\ Head(s2c).uid <= LastGiven
              /\ (Unnumbered => Head(s2c).modseq = 0)
            BY <1>1, <2>2 DEF Received, TellsGiven
        <3> QED
            BY <1>1, <1>2, <2>2, <3>1, FetchAdvances
    <2> QED
        BY <2>1, <2>2
<1>4. Selecting => cachedSync'.uidValidity = cachedSync.uidValidity
    BY <1>1, <1>3, KnownByNow DEF CacheAdvances, ListIsOurs, SameAsCached
<1>5. ListAdvances /\ AsksPlainly
    BY <1>3 DEF ListAdvances, AsksPlainly
<1> QED
    BY <1>1, <1>2, <1>3, <1>4, <1>5, TakenAdvances

\* RECENT, VANISHED and FETCH of ObtainSynchronizedMailboxTask.
LEMMA ObtainQuietAdvances ==
    ASSUME IInv, UidInv, MadeOnce \/ Unnumbered,
           ObtainVanished \/ ObtainFetch \/ ObtainRecent
    PROVE  Advances
<1>1. CASE ObtainVanished
    <2>1. UNCHANGED <<serverVars, c2s, phase, status>> /\ Received("VANISHED") /\ Consume
        BY <1>1 DEF ObtainVanished, Obtaining, taskVars
    <2> QED
        BY <1>1, <2>1, ToldAdvances DEF ObtainVanished, Received
<1>2. CASE ObtainFetch
    <2>1. UNCHANGED <<serverVars, c2s, phase, status>> /\ Received("FETCH") /\ Consume
        BY <1>2 DEF ObtainFetch, Obtaining, taskVars
    <2>2. TRUE \in BOOLEAN
        OBVIOUS
    <2> QED
        BY <1>2, <2>1, <2>2, ToldAdvances DEF ObtainFetch, Received
<1>3. CASE ObtainRecent
    <2>1. /\ UNCHANGED <<serverVars, c2s, phase, status, children, syncState, cachedSync,
                         cachedUids>>
          /\ Received("RECENT") /\ Consume /\ phase = "obtaining"
        BY <1>3 DEF ObtainRecent, Obtaining, taskVars, treeVars, cacheVars
    <2>2. UNCHANGED uidValidity /\ (Selecting' <=> Selecting)
        BY <2>1 DEF serverVars, mailboxVars, Selecting
    <2>3. ListIsOurs' => ListIsOurs
        BY <2>1, <2>2 DEF ListIsOurs, SameAsCached
    <2>4. ListAdvances /\ StateAdvances /\ CacheAdvances /\ AsksPlainly
        BY <2>1, <2>2, <2>3, SameListAdvances, SameStateAdvances, NoSaveAdvances
        DEF AsksPlainly
    <2> QED
        BY <2>1, <2>2, <2>4, TakenAdvances DEF Received
<1> QED
    BY <1>1, <1>2, <1>3

\* The UIDs of a SEARCH are those of messages which the server has.
LEMMA FinalizeSearchAdvances ==
    ASSUME IInv, UidInv, finalizeSearch
    PROVE  Advances
<1> DEFINE uids == Head(s2c).uids
           list == applyUids(children, firstUnknownUidOffset, uids)
<1>1. /\ s2c # <<>> /\ Head(s2c).type = "SEARCH" /\ phase = "obtaining" /\ CodesKnown
      /\ syncState \in SyncState /\ LastGiven \in Nat
      /\ ListIsOurs /\ children \in Seq(Messages(LastGiven))
      /\ uids \in Seq(1 .. LastGiven) /\ ~Selecting
    <2>1. Received("SEARCH") /\ phase = "obtaining"
        BY DEF finalizeSearch, Obtaining
    <2>2. ~Selecting
        <3>1. 1 \in 1 .. Len(s2c) /\ s2c[1].type = "SEARCH"
            BY <2>1, ReceivedFacts
        <3> QED
            BY <3>1 DEF IInv, WireInv, SelectIsAlone, Carried
    <2> QED
        BY <2>1, <2>2, TakenFacts DEF TellsGiven
<1>2. /\ children' = list /\ syncState' = updateHighestKnownUid(syncState, list)
      /\ Consume /\ ~RowsMissing /\ status' = "SYNCING_FLAGS"
      /\ UNCHANGED <<serverVars, c2s, phase, cachedSync, cachedUids>>
    BY DEF finalizeSearch
<1>3. list \in Seq(Messages(LastGiven))
    <2>1. firstUnknownUidOffset \in 0 .. Len(children)
        <3>1. firstUnknownUidOffset \in Nat
            BY DEF IInv, TypeOK, TaskTypeOK
        <3> QED
            BY <1>2, <3>1, ListFacts DEF RowsMissing
    <2> QED
        BY <1>1, <2>1, ApplyUidsType
<1> HIDE DEF list, uids
<1>4. StateAdvances
    BY <1>1, <1>2, <1>3, RaisedAdvances
<1>5. UNCHANGED uidValidity /\ ~Selecting'
    BY <1>2 DEF serverVars, mailboxVars, Selecting
<1>6. CacheAdvances /\ ListAdvances /\ AsksPlainly
    BY <1>2, <1>3, <1>5, NoSaveAdvances DEF ListAdvances, AsksPlainly
<1> QED
    BY <1>1, <1>2, <1>4, <1>5, <1>6, TakenAdvances

-----------------------------------------------------------------------------
(* The tagged OK of SELECT, UID SEARCH, FETCH and UID FETCH.                *)

\* What is left of a tagged OK when it is clear what has been saved.
LEMMA OkAdvances ==
    ASSUME IInv, UidInv, Obtaining("OK"), Consume, UNCHANGED serverVars, ~Selecting',
           AsksPlainly, StateAdvances, CacheAdvances,
           children' \in Seq(Messages(LastGiven))
    PROVE  Advances
<1>1. s2c # <<>> /\ Head(s2c).type = "OK"
    BY TakenFacts DEF Obtaining
<1>2. ListAdvances
    BY DEF ListAdvances
<1> QED
    BY <1>1, <1>2, TakenAdvances

\* What is known at a tagged OK; after SELECT the list may be about another mailbox.
LEMMA OkKnows ==
    ASSUME IInv, UidInv, Obtaining("OK"), UNCHANGED serverVars
    PROVE  /\ CodesKnown /\ UNCHANGED uidValidity
           /\ syncState \in SyncState /\ syncState.uidNext \in Nat
           /\ LastGiven \in Nat /\ uidNext = LastGiven + 1
           /\ syncState.uidValidity = uidValidity /\ syncState.uidNext <= uidNext
           /\ (Head(s2c).name # "SELECT" \/ syncState.uidValidity = cachedSync.uidValidity)
                => /\ children \in Seq(Messages(LastGiven))
           /\ syncState.uidValidity = cachedSync.uidValidity
                => cachedUids \in Seq(0 .. LastGiven)
<1>1. /\ Received("OK") /\ phase # "offline" /\ CodesKnown /\ syncState \in SyncState
      /\ LastGiven \in Nat /\ uidNext = LastGiven + 1
    BY TakenFacts DEF Obtaining
<1>2. /\ syncState.uidValidity = uidValidity /\ syncState.uidNext <= uidNext
      /\ syncState.uidNext \in Nat
    BY <1>1, KnownByNow, UidTypes
<1>3. UNCHANGED uidValidity
    BY DEF serverVars, mailboxVars
<1>4. Head(s2c).name # "SELECT" => ~Selecting
    BY OkFacts
<1>5. syncState.uidValidity = cachedSync.uidValidity => SameAsCached
    BY <1>2 DEF SameAsCached
<1>6. SameAsCached => cachedUids \in Seq(0 .. LastGiven)
    BY DEF UidInv, CacheGiven
<1>7. (~Selecting \/ SameAsCached) => children \in Seq(Messages(LastGiven))
    BY <1>1 DEF UidInv, ListGiven, ListIsOurs
<1> QED
    BY <1>1, <1>2, <1>3, <1>4, <1>5, <1>6, <1>7

\* A finished task has saved the list and the sync state.
LEMMA CompleteAdvances ==
    ASSUME IInv, UidInv, CodesKnown, UNCHANGED uidValidity,
           NEW list \in Seq(Messages(LastGiven)), NEW ss \in SyncState,
           ss.uidValidity = syncState.uidValidity, ss.uidNext = syncState.uidNext,
           syncState' = ss, Complete(list, ss)
    PROVE  CacheAdvances /\ ~Selecting'
<1>1. syncState.uidNext \in Nat
    BY UidTypes
<1>2. CacheAdvances
    BY <1>1, SaveAdvances DEF Complete
<1> QED
    BY <1>2 DEF Complete, Selecting

\* UID SEARCH asks for no changes.
LEMMA SyncUidsAdvances ==
    ASSUME NEW from \in Nat, NEW only, NEW offset, NEW old,
           syncUids(from, only, offset, old)
    PROVE  AsksPlainly /\ ~Selecting'
<1>1. UidSearch(from) \in Command /\ UidSearch(from).since = 0
    BY CommandTypes, SinceOfCommands
<1>2. AsksPlainly
    BY <1>1 DEF syncUids, AsksPlainly
<1> QED
    BY <1>2 DEF syncUids, Selecting

\* fullMboxSync() has a list without UIDs.
LEMMA FullMboxSyncAdvances ==
    ASSUME IInv, UidInv, SelectOk, NEW ss \in SyncState,
           ss.uidValidity = syncState.uidValidity, ss.uidNext = syncState.uidNext,
           NEW old, NEW forget \in BOOLEAN, NEW qresync, fullMboxSync(ss, old, forget, qresync)
    PROVE  Advances
<1>1. /\ Obtaining("OK") /\ Consume /\ UNCHANGED serverVars
    BY DEF SelectOk, SelectArrived
<1>2. /\ CodesKnown /\ UNCHANGED uidValidity /\ LastGiven \in Nat
      /\ syncState.uidNext <= uidNext /\ syncState.uidNext \in Nat
    BY <1>1, OkKnows
<1>3. ss.exists \in Nat
    BY DEF SyncState
<1>4. children' = Fresh(ss.exists) /\ syncState' = ss
    BY DEF fullMboxSync
<1>5. children' \in Seq(Messages(LastGiven))
    <2>1. <<>> \in Seq(Messages(LastGiven))
        OBVIOUS
    <2> QED
        BY <1>2, <1>3, <1>4, <2>1, ListTypes
<1>6. StateAdvances
    BY <1>2, <1>4 DEF StateAdvances
<1>7. CASE ss.exists > 0
    <2>1. syncUids(0, FALSE, 0, old) /\ UNCHANGED cachedSync
        BY <1>7 DEF fullMboxSync
    <2>2. cachedUids' = <<>> \/ cachedUids' = cachedUids
        BY <1>7 DEF fullMboxSync
    <2>3. AsksPlainly /\ ~Selecting'
        BY <2>1, SyncUidsAdvances
    <2>4. CacheAdvances
        BY <1>2, <2>1, <2>2, NoSaveAdvances
    <2> QED
        BY <1>1, <1>5, <1>6, <2>3, <2>4, OkAdvances
<1>8. CASE ~(ss.exists > 0)
    <2>1. Complete(<<>>, ss) /\ c2s' = c2s
        BY <1>8 DEF fullMboxSync
    <2>2. <<>> \in Seq(Messages(LastGiven))
        OBVIOUS
    <2>3. CacheAdvances /\ ~Selecting'
        BY <1>2, <1>4, <2>1, <2>2, CompleteAdvances
    <2> QED
        BY <1>1, <1>5, <1>6, <2>1, <2>3, OkAdvances DEF AsksPlainly
<1> QED
    BY <1>7, <1>8

\* syncFlags() asks for changes only if they are numbered.
LEMMA SyncFlagsAdvances ==
    ASSUME IInv, UidInv, Obtaining("OK"), Consume, UNCHANGED serverVars,
           NEW list \in Seq(Messages(LastGiven)), NEW status0, NEW old \in SyncState,
           children' = list, UNCHANGED syncState,
           syncFlags(list, status0, syncState, old)
    PROVE  Advances
<1>1. CodesKnown /\ UNCHANGED uidValidity /\ syncState \in SyncState
    BY OkKnows
<1>2. StateAdvances
    BY SameStateAdvances
<1>3. CASE NoFlagChanges(syncState, old) /\ newArrivalsFetch = 0
    <2>1. Complete(list, syncState) /\ c2s' = c2s
        BY <1>3 DEF syncFlags
    <2>2. CacheAdvances /\ ~Selecting'
        BY <1>1, <2>1, CompleteAdvances
    <2> QED
        BY <1>2, <2>1, <2>2, OkAdvances DEF AsksPlainly
<1>4. CASE ~(NoFlagChanges(syncState, old) /\ newArrivalsFetch = 0)
    <2> DEFINE since == IF CanUseModSeq(syncState, old)
                            /\ old.highestModSeq < syncState.highestModSeq
                        THEN old.highestModSeq ELSE 0
    <2>1. /\ status' # "SELECTING" /\ UNCHANGED <<cachedSync, cachedUids>>
          /\ Send(Fetch(syncState.exists, since))
        BY <1>4 DEF syncFlags
    <2>2. syncState.exists \in Nat /\ since \in Nat /\ (Unnumbered => since = 0)
        BY <1>1 DEF SyncState, CanUseModSeq, Unnumbered
    <2> HIDE DEF since
    <2>3. AsksPlainly
        <3>1. Fetch(syncState.exists, since) \in Command
            BY <2>2, CommandTypes
        <3>2. Fetch(syncState.exists, since).since = since
            BY <2>2, SinceOfCommands
        <3> QED
            BY <2>1, <2>2, <3>1, <3>2 DEF AsksPlainly
    <2>4. ~Selecting'
        BY <2>1 DEF Selecting
    <2> QED
        BY <1>1, <1>2, <2>1, <2>3, <2>4, NoSaveAdvances, OkAdvances
<1> QED
    BY <1>3, <1>4

\* Every outcome of finalizeSelect() that throws nothing.
LEMMA FinalizeSelectAdvances ==
    ASSUME IInv, UidInv, FinalizeSelect
    PROVE  Advances \/ Throw("child count mismatch")
<1>1. /\ SelectOk => Obtaining("OK") /\ Consume /\ UNCHANGED serverVars
      /\ syncState \in SyncState /\ cachedSync \in SyncState /\ LastGiven \in Nat
      /\ TRUE \in BOOLEAN /\ FALSE \in BOOLEAN
    BY UidTypes DEF SelectOk, SelectArrived
<1>2. SelectOk => StateAdvances \/ ~UNCHANGED syncState
    BY SameStateAdvances
<1>3. CASE FinalizeInconsistentCache
    BY <1>1, <1>3, FullMboxSyncAdvances DEF FinalizeInconsistentCache
<1>4. CASE FinalizeQresyncContradiction
    BY <1>1, <1>4, FullMboxSyncAdvances, FieldsOfSyncState, SyncStateType
    DEF FinalizeQresyncContradiction
<1>5. CASE FinalizeEmptyMailbox
    BY <1>1, <1>5, FullMboxSyncAdvances DEF FinalizeEmptyMailbox
<1>6. CASE FinalizeFromScratch
    BY <1>1, <1>6, FullMboxSyncAdvances DEF FinalizeFromScratch
<1>7. CASE FinalizeQresync
    <2>1. /\ SelectOk /\ UNCHANGED syncState
          /\ syncState.uidValidity = cachedSync.uidValidity
        BY <1>7 DEF FinalizeQresync, QresyncUsable, SameIncarnation
    <2>2. /\ children \in Seq(Messages(LastGiven)) /\ CodesKnown /\ UNCHANGED uidValidity
          /\ Obtaining("OK") /\ Consume /\ UNCHANGED serverVars /\ StateAdvances
        BY <1>1, <1>2, <2>1, OkKnows
    <2>3. CASE UidsMissing
        <3>1. /\ Send(UidFetch(Larger(cachedSync.uidNext, 1))) /\ status' = "DONE"
              /\ UNCHANGED <<children, cachedSync, cachedUids>>
            BY <1>7, <2>3 DEF FinalizeQresync, RequestArrivals
        <3>2. Larger(cachedSync.uidNext, 1) \in Nat
            BY <1>1 DEF SyncState, Larger
        <3>3. AsksPlainly
            BY <3>1, <3>2, CommandTypes, SinceOfCommands DEF AsksPlainly
        <3>4. ~Selecting' /\ CacheAdvances
            BY <2>2, <3>1, NoSaveAdvances DEF Selecting
        <3> QED
            BY <2>2, <3>1, <3>3, <3>4, OkAdvances
    <2>4. CASE ~UidsMissing
        <3>1. children' = AllHandled(children) /\ Complete(children, syncState) /\ UNCHANGED c2s
            BY <1>7, <2>4 DEF FinalizeQresync
        <3>2. children' \in Seq(Messages(LastGiven))
            BY <1>1, <2>2, <3>1, ListTypes
        <3>3. ~Selecting' /\ CacheAdvances
            BY <1>1, <2>1, <2>2, <3>1, CompleteAdvances
        <3> QED
            BY <2>2, <3>1, <3>2, <3>3, OkAdvances DEF AsksPlainly
    <2> QED
        BY <2>3, <2>4
<1>8. CASE FinalizeOnlyAdditions \/ FinalizeGeneric
    <2>1. /\ SelectOk /\ UNCHANGED <<syncState, children, cachedSync, cachedUids>>
          /\ syncState.uidValidity = cachedSync.uidValidity
          /\ \/ syncUids(cachedSync.uidNext, TRUE, cachedSync.exists, cachedSync)
             \/ syncUids(0, FALSE, 0, cachedSync)
        BY <1>8 DEF FinalizeOnlyAdditions, FinalizeGeneric, Incremental, SameIncarnation,
                    cacheVars
    <2>2. cachedSync.uidNext \in Nat
        BY UidTypes
    <2>3. AsksPlainly /\ ~Selecting'
        BY <2>1, <2>2, SyncUidsAdvances
    <2>4. /\ children \in Seq(Messages(LastGiven)) /\ UNCHANGED uidValidity
          /\ Obtaining("OK") /\ Consume /\ UNCHANGED serverVars /\ StateAdvances
        BY <1>1, <1>2, <2>1, OkKnows
    <2>5. CacheAdvances
        BY <2>1, <2>4, NoSaveAdvances
    <2> QED
        BY <2>1, <2>3, <2>4, <2>5, OkAdvances
<1>9. CASE FinalizeNoNewNoDeletions
    <2>1. /\ SelectArrived /\ Incremental /\ syncState.exists = cachedSync.exists
          /\ \/ Throw("child count mismatch")
             \/ /\ Consume /\ syncNoNewNoDeletions
                /\ UNCHANGED <<serverVars, syncState>>
        BY <1>9 DEF FinalizeNoNewNoDeletions
    <2>2. CASE /\ Consume /\ syncNoNewNoDeletions
               /\ UNCHANGED <<serverVars, syncState>>
        <3> DEFINE list == IF children # <<>> THEN children
                           ELSE [i \in 1 .. syncState.exists |->
                                    [NewMessage EXCEPT !.uid = cachedUids[i]]]
        <3>1. children' = list /\ syncFlags(list, "DONE", syncState, cachedSync)
            BY <2>2 DEF syncNoNewNoDeletions
        <3>2. Obtaining("OK") /\ syncState.uidValidity = cachedSync.uidValidity
            BY <2>1 DEF SelectArrived, Incremental, SameIncarnation
        <3>3. children \in Seq(Messages(LastGiven)) /\ cachedUids \in Seq(0 .. LastGiven)
            BY <2>2, <3>2, OkKnows
        <3>4. Len(cachedUids) = syncState.exists /\ syncState.exists \in Nat
            BY <1>1, <2>1 DEF Incremental, MapMatches, SyncState
        <3>5. \A i \in 1 .. syncState.exists :
                [NewMessage EXCEPT !.uid = cachedUids[i]] \in Messages(LastGiven)
            <4>1. \A i \in 1 .. syncState.exists : cachedUids[i] \in 0 .. LastGiven
                BY <3>3, <3>4, SeqItem
            <4> QED
                BY <4>1 DEF NewMessage, Messages
        <3>6. list \in Seq(Messages(LastGiven))
            <4>1. [i \in 1 .. syncState.exists |-> [NewMessage EXCEPT !.uid = cachedUids[i]]]
                    \in [1 .. syncState.exists -> Messages(LastGiven)]
                BY <3>5
            <4> QED
                BY <3>3, <3>4, <4>1, SeqOfRange
        <3> HIDE DEF list
        <3> QED
            BY <1>1, <2>2, <3>1, <3>2, <3>6, SyncFlagsAdvances
    <2> QED
        BY <2>1, <2>2
<1> QED
    BY <1>3, <1>4, <1>5, <1>6, <1>7, <1>8, <1>9 DEF FinalizeSelect

\* The OK of UID SEARCH, of FETCH and of UID FETCH.
LEMMA ObtainOkAdvances ==
    ASSUME IInv, UidInv, UidSearchOk \/ FlagsOk \/ ObtainArrivalsOk
    PROVE  Advances
<1>1. /\ Obtaining("OK") /\ Head(s2c).name # "SELECT" /\ Consume
      /\ UNCHANGED <<serverVars, syncState>>
    BY DEF UidSearchOk, FlagsOk, ObtainArrivalsOk
<1>2. /\ children \in Seq(Messages(LastGiven)) /\ CodesKnown /\ UNCHANGED uidValidity
      /\ syncState \in SyncState /\ LastGiven \in Nat /\ oldSyncState \in SyncState
      /\ StateAdvances
    BY <1>1, OkKnows, SameStateAdvances DEF IInv, TypeOK, TaskTypeOK
<1>3. phase = "obtaining" /\ ~Selecting
    BY <1>1, OkFacts
<1>4. CASE UidSearchOk
    BY <1>1, <1>2, <1>4, SyncFlagsAdvances DEF UidSearchOk
<1>5. CASE FlagsOk \/ ObtainArrivalsOk
    <2>1. /\ children' = AllHandled(children) \/ UNCHANGED children
          /\ UNCHANGED c2s
          /\ \/ Complete(children, syncState)
             \/ UNCHANGED <<cachedSync, cachedUids, phase>> /\ status' \in {"DONE", status}
        BY <1>5 DEF FlagsOk, ObtainArrivalsOk, taskVars
    <2>2. children' \in Seq(Messages(LastGiven))
        <3>1. AllHandled(children) \in Seq(Messages(LastGiven))
            BY <1>2, ListTypes
        <3> QED
            BY <1>2, <2>1, <3>1
    <2>3. CacheAdvances /\ ~Selecting'
        <3>1. CASE Complete(children, syncState)
            BY <1>1, <1>2, <3>1, CompleteAdvances
        <3>2. CASE UNCHANGED <<cachedSync, cachedUids, phase>> /\ status' \in {"DONE", status}
            BY <1>2, <1>3, <3>2, NoSaveAdvances DEF Selecting
        <3> QED
            BY <2>1, <3>1, <3>2
    <2> QED
        BY <1>1, <1>2, <2>1, <2>2, <2>3, OkAdvances DEF AsksPlainly
<1> QED
    BY <1>4, <1>5

-----------------------------------------------------------------------------
(* KeepMailboxOpenTask and the timers.                                      *)

\* The mailbox is open, so the codes have come and the list is about it.
LEMMA OpenKnows ==
    ASSUME IInv, UidInv, phase = "open", UNCHANGED serverVars
    PROVE  /\ CodesKnown /\ UNCHANGED uidValidity /\ ~Selecting
           /\ children \in Seq(Messages(LastGiven))
           /\ syncState \in SyncState /\ LastGiven \in Nat /\ syncState.uidNext \in Nat
           /\ syncState.uidNext <= uidNext
<1>1. UNCHANGED uidValidity /\ ~Selecting /\ ListIsOurs
    BY DEF serverVars, mailboxVars, Selecting, ListIsOurs
<1> QED
    BY <1>1, KnownByNow, UidTypes

\* Saving at once or later, of a list of this mailbox.
LEMMA SaveIfPossibleAdvances ==
    ASSUME IInv, UidInv, CodesKnown, UNCHANGED uidValidity,
           NEW list \in Seq(Messages(LastGiven)), NEW ss \in SyncState,
           ss.uidValidity = syncState.uidValidity, ss.uidNext = syncState.uidNext,
           syncState' = ss,
           \/ SaveIfPossible(list, ss) \/ SaveSyncStateAndUids(list, ss)
           \/ UNCHANGED <<cachedSync, cachedUids>>
    PROVE  StateAdvances /\ CacheAdvances
<1>1. syncState.uidNext \in Nat /\ syncState.uidNext <= uidNext
    BY UidTypes, KnownByNow
<1>2. CacheAdvances
    BY <1>1, SaveAdvances DEF SaveIfPossible
<1>3. StateAdvances
    BY <1>1 DEF StateAdvances
<1> QED
    BY <1>2, <1>3

\* A response to the open mailbox.
LEMMA KeepAdvances ==
    ASSUME IInv, UidInv, MadeOnce \/ Unnumbered, Keep
    PROVE  Advances
<1>1. /\ phase = "open" /\ phase' = "open" /\ s2c # <<>> /\ Head(s2c) \in Response
      /\ Head(s2c).type # "CODES" /\ Consume
      /\ UNCHANGED <<serverVars, phase, status>>
    <2>1. PICK type \in {"EXISTS", "RECENT", "EXPUNGE", "VANISHED", "FETCH", "OK"} : Open(type)
        BY DEF Keep, KeepExists, KeepRecent, KeepExpunge, KeepVanished, KeepFetch,
               KeepArrivalsOk, NoopOk
    <2>2. Consume /\ KeepUnchanged
        BY DEF Keep, KeepExists, KeepRecent, KeepExpunge, KeepVanished, KeepFetch,
               KeepArrivalsOk, NoopOk
    <2>3. /\ phase = "open" /\ s2c # <<>> /\ Head(s2c) \in Response
          /\ Head(s2c).type = type
        BY <2>1, OpenFacts
    <2> QED
        BY <2>2, <2>3 DEF KeepUnchanged, taskVars
<1>2. /\ CodesKnown /\ UNCHANGED uidValidity /\ ~Selecting /\ ~Selecting'
      /\ children \in Seq(Messages(LastGiven))
      /\ syncState \in SyncState /\ LastGiven \in Nat
      /\ syncState.exists \in Nat /\ syncState.exists = Len(children)
    BY <1>1, OpenKnows, ListFacts DEF Selecting, IInv, ExistsMatchesList
<1>3. (/\ AsksPlainly /\ StateAdvances /\ CacheAdvances
       /\ children' \in Seq(Messages(LastGiven))) => Advances
    BY <1>1, <1>2, AllAskPlainly DEF Advances, WireAdvances, ListAdvances
<1>4. CASE KeepExists
    <2> DEFINE n == Head(s2c).number
    <2>1. /\ children' = PadTo(children, n) /\ UNCHANGED <<cachedSync, cachedUids>>
          /\ \/ syncState' = setExists(syncState, n) /\ Send(UidFetch(ArrivalsFrom))
             \/ UNCHANGED <<syncState, c2s>>
          /\ n \in Nat
        BY <1>1, <1>4, ResponseFields, OpenFacts
        DEF KeepExists, HandleExists, RequestArrivals, cacheVars
    <2>2. children' \in Seq(Messages(LastGiven))
        BY <1>2, <2>1, ListTypes
    <2>3. ArrivalsFrom \in Nat
        <3>1. HighestKnownUid(children) \in Nat /\ syncState.uidNext \in Nat
            BY <1>2, HighestKnownUidType DEF SyncState
        <3> QED
            BY <3>1 DEF ArrivalsFrom, Larger
    <2>4. AsksPlainly
        BY <2>1, <2>3, CommandTypes, SinceOfCommands DEF AsksPlainly
    <2>5. StateAdvances
        BY <2>1, SetExistsAdvances, SameStateAdvances
    <2>6. CacheAdvances
        BY <1>2, <2>1, NoSaveAdvances
    <2> QED
        BY <1>3, <2>2, <2>4, <2>5, <2>6
<1>5. CASE KeepExpunge
    <2> DEFINE n == Head(s2c).number
               now == setExists(syncState, syncState.exists - 1)
    <2>1. /\ children' = ListWithoutRow(n) /\ syncState' = now /\ UNCHANGED c2s
          /\ ~ExpungeOutOfBounds(n) /\ n \in Nat
          /\ saveSyncStateNowOrLater(ListWithoutRow(n), now)
        BY <1>1, <1>5, ResponseFields, OpenFacts DEF KeepExpunge, HandleExpunge
    <2> HIDE DEF n
    <2>2. n \in 1 .. Len(children)
        BY <2>1, ListFacts DEF ExpungeOutOfBounds
    <2>3. ListWithoutRow(n) \in Seq(Messages(LastGiven))
        BY <1>2, <2>2, ListWithoutRowGiven
    <2>4. syncState.exists - 1 \in Nat
        BY <1>2, <2>2
    <2>5. /\ now \in SyncState /\ now.uidNext = syncState.uidNext
          /\ now.uidValidity = syncState.uidValidity
        BY <1>2, <2>4, SyncStateType, FieldsOfSyncState
    <2> HIDE DEF now
    <2>6. StateAdvances /\ CacheAdvances
        BY <1>2, <2>1, <2>3, <2>5, SaveIfPossibleAdvances DEF saveSyncStateNowOrLater
    <2> QED
        BY <1>3, <2>1, <2>3, <2>6 DEF AsksPlainly
<1>6. CASE KeepVanished \/ KeepFetch
    <2>1. UNCHANGED <<serverVars, c2s, phase, status>>
        BY <1>1, <1>6 DEF KeepVanished, KeepFetch
    <2>2. TRUE \in BOOLEAN /\ FALSE \in BOOLEAN
        OBVIOUS
    <2>3. CASE KeepVanished
        <3>1. /\ Received("VANISHED") /\ ~Head(s2c).earlier
              /\ HandleVanished(Head(s2c).uids, FALSE)
            BY <2>3 DEF KeepVanished, Open
        <3>2. Head(s2c).earlier = FALSE
            BY <1>1, <3>1, ResponseFields DEF Received
        <3> QED
            BY <1>1, <2>1, <3>1, <3>2, ToldAdvances
    <2>4. CASE KeepFetch
        BY <1>1, <2>1, <2>2, <2>4, ToldAdvances DEF KeepFetch, Open
    <2> QED
        BY <1>6, <2>3, <2>4
<1>7. CASE KeepRecent \/ KeepArrivalsOk \/ NoopOk
    <2>1. /\ UNCHANGED <<children, syncState, c2s>>
          /\ \/ SaveIfPossible(children, syncState) \/ SaveSyncStateAndUids(children, syncState)
             \/ UNCHANGED <<cachedSync, cachedUids>>
        BY <1>7 DEF KeepRecent, KeepArrivalsOk, NoopOk, treeVars, cacheVars,
                    saveSyncStateNowOrLater
    <2>2. StateAdvances /\ CacheAdvances
        BY <1>2, <2>1, SaveIfPossibleAdvances
    <2> QED
        BY <1>2, <1>3, <2>1, <2>2 DEF AsksPlainly
<1> QED
    BY <1>4, <1>5, <1>6, <1>7 DEF Keep

\* The timer which saves, and the one which sends NOOP, take no response.
LEMMA TimeoutAdvances ==
    ASSUME IInv, UidInv, syncingTimeout \/ PerformNoop
    PROVE  Advances
<1>1. /\ phase = "open" /\ UNCHANGED <<serverVars, s2c, children, syncState, phase>>
      /\ \/ UNCHANGED c2s
         \/ Send(cmd("NOOP"))
      /\ \/ SaveIfPossible(children, syncState)
         \/ UNCHANGED <<cachedSync, cachedUids>>
    BY DEF syncingTimeout, PerformNoop, wireVars, treeVars, cacheVars, KeepUnchanged
<1>2. /\ CodesKnown /\ UNCHANGED uidValidity /\ ~Selecting
      /\ children \in Seq(Messages(LastGiven)) /\ syncState \in SyncState
    BY <1>1, OpenKnows
<1>3. StateAdvances /\ CacheAdvances
    BY <1>1, <1>2, SaveIfPossibleAdvances
<1>4. AsksPlainly
    <2>1. "NOOP" \in CommandName
        BY DEF CommandName
    <2>2. cmd("NOOP") \in Command /\ cmd("NOOP").since = 0
        BY <2>1, CommandTypes, SinceOfCommands
    <2> QED
        BY <1>1, <2>2 DEF AsksPlainly
<1>5. ~Selecting'
    BY <1>1 DEF Selecting
<1>6. WireAdvances
    BY <1>1, <1>2, <1>4, <1>5, AllAskPlainly DEF WireAdvances
<1> QED
    BY <1>1, <1>2, <1>3, <1>6 DEF Advances, ListAdvances

-----------------------------------------------------------------------------
(* The codes; the connection comes and goes.                                *)

\* UIDVALIDITY and UIDNEXT are those of the mailbox, and no lower than saved.
LEMMA HandleCodesKnows ==
    ASSUME IInv, IInv', UidInv, HandleCodes
    PROVE  UidInv' /\ NeverBack
<1> DEFINE codes == Head(s2c)
<1>1. /\ s2c # <<>> /\ codes \in Response /\ codes.type = "CODES" /\ phase = "obtaining"
      /\ 1 \in 1 .. Len(s2c) /\ codes = s2c[1] /\ Consume
      /\ codes.uidNext \in Nat /\ codes.uidValidity \in Nat /\ codes.modseq \in Nat
    BY ReceivedFacts, ResponseFields DEF HandleCodes, Obtaining
<1>2. /\ UNCHANGED <<store, uidNext, uidValidity, gone, selected, started, vanishing,
                     reporting, c2s, children, cachedSync, cachedUids, phase, status>>
      /\ syncState' = setHighestModSeq(setUidNext(setUidValidity(syncState,
                            codes.uidValidity), codes.uidNext), codes.modseq)
    BY DEF HandleCodes, serverVars, mailboxVars, sessionVars, cacheVars
<1>3. /\ Selecting /\ codes.uidValidity = uidValidity /\ codes.uidNext <= uidNext
      /\ SameAsCached => cachedSync.uidNext <= codes.uidNext
    BY <1>1 DEF UidInv, CodesFirst
<1> HIDE DEF codes
<1>4. /\ LastGiven' = LastGiven /\ (SameAsCached' <=> SameAsCached) /\ Selecting'
      /\ (ListIsOurs' <=> ListIsOurs) /\ MadeOnce' = MadeOnce
    BY <1>2, <1>3 DEF LastGiven, SameAsCached, Selecting, ListIsOurs, MadeOnce
<1>5. \A i \in 1 .. Len(s2c') : i + 1 \in 1 .. Len(s2c) /\ s2c'[i] = s2c[i + 1]
    BY <1>1, RestOfWire
<1>6. GivenOnly'
    BY <1>2, <1>4 DEF UidInv, GivenOnly
<1>7. WireGiven'
    <2>1. \A i \in 1 .. Len(s2c') : TellsGiven(s2c'[i], LastGiven')
        BY <1>4, <1>5 DEF UidInv, WireGiven
    <2>2. selected
        BY <1>1, KnownByNow
    <2> QED
        BY <1>2, <2>1, <2>2 DEF UidInv, WireGiven
<1>8. CodesFirst' /\ ~Carried("CODES")'
    <2>1. ASSUME NEW i \in 1 .. Len(s2c'), s2c'[i].type = "CODES" PROVE FALSE
        <3>1. i + 1 \in 1 .. Len(s2c) /\ s2c[i + 1].type = "CODES" /\ i >= 1
            BY <1>5, <2>1
        <3>2. i + 1 = 1 \/ s2c[1].type = "EXISTS"
            BY <3>1 DEF UidInv, CodesFirst
        <3> QED
            BY <1>1, <3>1, <3>2 DEF codes
    <2> QED
        BY <2>1 DEF CodesFirst, Carried
<1>9. ToldAfterOk'
    <2> SUFFICES ASSUME ~SameAsCached, NEW i \in 1 .. Len(s2c'), AboutMessages(s2c'[i])
                 PROVE  \E j \in 1 .. i - 1 : s2c'[j].type = "OK"
        BY <1>4 DEF ToldAfterOk, AboutMessages
    <2>1. i + 1 \in 1 .. Len(s2c) /\ s2c'[i] = s2c[i + 1]
        BY <1>5
    <2>2. PICK j \in 1 .. (i + 1) - 1 : s2c[j].type = "OK"
        BY <1>3, <2>1 DEF UidInv, ToldAfterOk
    <2>3. j # 1
        BY <1>1, <2>2 DEF codes
    <2>4. Len(s2c) \in Nat /\ i \in Nat
        BY UidTypes
    <2>5. j \in 2 .. Len(s2c) /\ j - 1 \in 1 .. i - 1
        BY <2>1, <2>2, <2>3, <2>4
    <2>6. s2c'[j - 1] = s2c[j]
        BY <1>1, <2>5, RestOfWire
    <2> QED
        BY <2>2, <2>5, <2>6
<1>10. SelectsAsCached'
    <2>1. Carried("OK") => Carried("OK")'
        <3>1. ASSUME NEW j \in 1 .. Len(s2c), s2c[j].type = "OK"
              PROVE  \E i \in 1 .. Len(s2c') : s2c'[i].type = "OK"
            <4>1. j \in 2 .. Len(s2c)
                <5>1. j # 1
                    BY <1>1, <3>1 DEF codes
                <5>2. Len(s2c) \in Nat
                    BY UidTypes
                <5> QED
                    BY <3>1, <5>1, <5>2
            <4> QED
                BY <1>1, <3>1, <4>1, RestOfWire
        <3> QED
            BY <3>1 DEF Carried
    <2> QED
        BY <1>2, <1>3, <1>4, <2>1 DEF UidInv, SelectsAsCached
<1>11. CacheGiven'
    BY <1>2, <1>4 DEF UidInv, CacheGiven
<1>12. SyncStateGiven'
    <2>1. syncState'.uidNext = codes.uidNext /\ syncState'.uidValidity = codes.uidValidity
        <3>1. syncState \in SyncState
            BY UidTypes
        <3>2. /\ setUidValidity(syncState, codes.uidValidity) \in SyncState
              /\ setUidValidity(syncState, codes.uidValidity).uidValidity = codes.uidValidity
            BY <1>1, <3>1, SyncStateType, FieldsOfSyncState
        <3> DEFINE ss == setUidNext(setUidValidity(syncState, codes.uidValidity), codes.uidNext)
        <3>3. /\ ss \in SyncState /\ ss.uidValidity = codes.uidValidity
              /\ ss.uidNext = codes.uidNext
            BY <1>1, <3>2, SyncStateType, FieldsOfSyncState
        <3> HIDE DEF ss
        <3>4. syncState' = setHighestModSeq(ss, codes.modseq)
            BY <1>2 DEF ss
        <3> QED
            BY <1>1, <3>3, <3>4, FieldsOfSyncState
    <2> QED
        BY <1>2, <1>3, <1>4, <2>1 DEF SyncStateGiven
<1>13. ListGiven'
    BY <1>2, <1>4 DEF UidInv, ListGiven
<1>14. NeverBack
    BY <1>2, UidTypes DEF NeverBack
<1> QED
    BY <1>6, <1>7, <1>8, <1>9, <1>10, <1>11, <1>12, <1>13, <1>14 DEF UidInv

\* Offline nothing is known but the cache.
LEMMA GoOfflineKnows ==
    ASSUME IInv, UidInv, GoOffline, UNCHANGED cacheVars
    PROVE  UidInv' /\ NeverBack
<1>1. /\ UNCHANGED <<store, uidNext, uidValidity, gone, cachedSync, cachedUids>>
      /\ phase' = "offline" /\ c2s' = <<>> /\ s2c' = <<>> /\ selected' = FALSE
      /\ vanishing' = {}
    BY DEF GoOffline, mailboxVars, cacheVars
<1>2. /\ LastGiven' = LastGiven /\ (SameAsCached' <=> SameAsCached) /\ ~Selecting'
      /\ ~CodesKnown' /\ ~ListIsOurs' /\ MadeOnce' = MadeOnce
    BY <1>1 DEF LastGiven, SameAsCached, Selecting, CodesKnown, ListIsOurs, MadeOnce
<1>3. GivenOnly'
    BY <1>1, <1>2 DEF UidInv, GivenOnly
<1>4. WireGiven' /\ CodesFirst' /\ ToldAfterOk' /\ SelectsAsCached'
    BY <1>1, <1>2 DEF WireGiven, CodesFirst, ToldAfterOk, SelectsAsCached
<1>5. CacheGiven'
    BY <1>1, <1>2 DEF UidInv, CacheGiven
<1>6. SyncStateGiven' /\ ListGiven'
    BY <1>2 DEF SyncStateGiven, ListGiven
<1>7. NeverBack
    BY <1>1, UidTypes DEF NeverBack
<1> QED
    BY <1>3, <1>4, <1>5, <1>6, <1>7 DEF UidInv

\* A new session starts from the cache and asks for the mailbox it remembers.
LEMMA OpenMailboxKnows ==
    ASSUME IInv, UidInv, Perform
    PROVE  UidInv' /\ NeverBack
<1>1. /\ UNCHANGED <<store, uidNext, uidValidity, gone, selected, started, vanishing,
                     reporting, s2c, cachedSync, cachedUids>>
      /\ phase = "offline" /\ phase' = "obtaining" /\ status' = "SELECTING"
      /\ askForMessagesInMailbox
      /\ Send(IF Qresync /\ isUsableForCondstore(cachedSync)
              THEN Select(cachedSync.uidValidity, cachedSync.highestModSeq)
              ELSE Select(0, 0))
    BY DEF Perform, serverVars, mailboxVars, sessionVars, cacheVars
<1>2. c2s = <<>> /\ s2c = <<>> /\ ~started /\ ~selected
    BY <1>1 DEF IInv, WireInv, OfflineIsSilent
<1>3. vanishing = {} /\ reporting = {}
    BY <1>2 DEF UidInv, WireGiven, IInv, WireInv, ReportsWhatItHas
<1>4. /\ LastGiven' = LastGiven /\ (SameAsCached' <=> SameAsCached)
      /\ ~CodesKnown' /\ MadeOnce' = MadeOnce
    BY <1>1, <1>2 DEF LastGiven, SameAsCached, CodesKnown, MadeOnce
<1> DEFINE command == IF Qresync /\ isUsableForCondstore(cachedSync)
                      THEN Select(cachedSync.uidValidity, cachedSync.highestModSeq)
                      ELSE Select(0, 0)
<1>5. /\ command.known \in {0, cachedSync.uidValidity}
      /\ Unnumbered => command.since = 0
    <2>1. cachedSync.uidValidity \in Nat /\ cachedSync.highestModSeq \in Nat
        BY UidTypes DEF SyncState
    <2>2. /\ Select(cachedSync.uidValidity, cachedSync.highestModSeq).known
                = cachedSync.uidValidity
          /\ Select(0, 0).known = 0 /\ Select(0, 0).since = 0
        BY <2>1, SinceOfCommands
    <2>3. Unnumbered => ~Qresync
        BY DEF Unnumbered, Qresync
    <2> QED
        BY <2>2, <2>3
<1> HIDE DEF command
<1>6. c2s' = <<command>>
    BY <1>1, <1>2 DEF Send, command
<1>7. GivenOnly'
    BY <1>1, <1>4 DEF UidInv, GivenOnly
<1>8. WireGiven' /\ CodesFirst' /\ ToldAfterOk'
    <2>1. Unnumbered => \A i \in 1 .. Len(c2s') : c2s'[i].since = 0
        BY <1>5, <1>6
    <2>2. s2c' = <<>> /\ vanishing' = {}
        BY <1>1, <1>2, <1>3
    <2> QED
        BY <2>1, <2>2 DEF WireGiven, CodesFirst, ToldAfterOk
<1>9. SelectsAsCached'
    <2>1. c2s' # <<>> /\ Head(c2s') = command
        BY <1>6
    <2> QED
        BY <1>1, <1>2, <1>3, <1>5, <2>1 DEF SelectsAsCached
<1>10. CacheGiven'
    BY <1>1, <1>4 DEF UidInv, CacheGiven
<1>11. SyncStateGiven'
    BY <1>4 DEF SyncStateGiven
<1>12. ListGiven'
    <2> SUFFICES ASSUME SameAsCached
                 PROVE  children' \in Seq(Messages(LastGiven))
        BY <1>1, <1>4 DEF ListGiven, ListIsOurs, Selecting
    <2>1. cachedUids \in Seq(0 .. LastGiven) /\ LastGiven \in Nat /\ LastGiven <= MaxUid
          /\ MaxUid \in Nat /\ cachedFlags \in [0 .. MaxUid -> Nat]
        BY UidTypes, ListFacts DEF UidInv, CacheGiven
    <2>2. \A i \in 1 .. Len(cachedUids) :
            CachedMessage(cachedUids[i]) \in Messages(LastGiven)
        <3>1. TAKE i \in 1 .. Len(cachedUids)
        <3>2. cachedUids[i] \in 0 .. LastGiven /\ cachedUids[i] \in 0 .. MaxUid
            BY <2>1, SeqItem
        <3>3. cachedFlags[cachedUids[i]] \in Nat
            BY <2>1, <3>2
        <3> QED
            BY <3>2, <3>3 DEF CachedMessage, Messages
    <2>3. Len(cachedUids) \in Nat
        BY <2>1
    <2>4. [i \in 1 .. Len(cachedUids) |-> CachedMessage(cachedUids[i])]
            \in [1 .. Len(cachedUids) -> Messages(LastGiven)]
        BY <2>2
    <2>5. [i \in 1 .. Len(cachedUids) |-> CachedMessage(cachedUids[i])]
            \in Seq(Messages(LastGiven))
        BY <2>3, <2>4, SeqOfRange
    <2> QED
        BY <1>1, <2>5 DEF askForMessagesInMailbox
<1>13. NeverBack
    BY <1>1, UidTypes DEF NeverBack
<1> QED
    BY <1>7, <1>8, <1>9, <1>10, <1>11, <1>12, <1>13 DEF UidInv

-----------------------------------------------------------------------------
(* The server and the other clients.                                        *)

\* A response about a message names one which the server has given, and does not
\* come before the answer to SELECT unless the remembered mailbox is meant.
Tells(r) ==
    /\ r \in Response /\ r.type # "CODES" /\ TellsGiven(r, LastGiven')
    /\ (AboutMessages(r) /\ Selecting /\ ~SameAsCached) => Carried("OK")

\* Nothing, or one or two such responses, are put on the wire.
TellsOnly ==
    \/ UNCHANGED s2c
    \/ \E r \in Response : Tells(r) /\ Announce(r)
    \/ \E r, q \in Response : Tells(r) /\ Tells(q) /\ s2c' = s2c \o <<r, q>>

\* What has been on the wire stays where it was.
LEMMA WireGrows ==
    ASSUME IInv, TellsOnly
    PROVE  /\ \A i \in 1 .. Len(s2c) : i \in 1 .. Len(s2c') /\ s2c'[i] = s2c[i]
           /\ \A i \in 1 .. Len(s2c') :
                i \in 1 .. Len(s2c) \/ (i > Len(s2c) /\ Tells(s2c'[i]))
<1>1. s2c \in Seq(Response) /\ Len(s2c) \in Nat
    BY UidTypes
<1>2. CASE UNCHANGED s2c
    BY <1>1, <1>2
<1>3. ASSUME NEW r \in Response, Tells(r), Announce(r)
      PROVE  /\ \A i \in 1 .. Len(s2c) : i \in 1 .. Len(s2c') /\ s2c'[i] = s2c[i]
             /\ \A i \in 1 .. Len(s2c') :
                i \in 1 .. Len(s2c) \/ (i > Len(s2c) /\ Tells(s2c'[i]))
    <2>1. /\ Len(s2c') = Len(s2c) + 1 /\ s2c'[Len(s2c) + 1] = r
          /\ \A i \in 1 .. Len(s2c) : s2c'[i] = s2c[i]
        BY <1>1, <1>3 DEF Announce
    <2>2. \A i \in 1 .. Len(s2c') : i \in 1 .. Len(s2c) \/ i = Len(s2c) + 1
        BY <1>1, <2>1
    <2> QED
        BY <1>1, <1>3, <2>1, <2>2
<1>4. ASSUME NEW r \in Response, NEW q \in Response, Tells(r), Tells(q),
             s2c' = s2c \o <<r, q>>
      PROVE  /\ \A i \in 1 .. Len(s2c) : i \in 1 .. Len(s2c') /\ s2c'[i] = s2c[i]
             /\ \A i \in 1 .. Len(s2c') :
                i \in 1 .. Len(s2c) \/ (i > Len(s2c) /\ Tells(s2c'[i]))
    <2>1. <<r, q>> \in Seq(Response)
        OBVIOUS
    <2>2. /\ Len(s2c') = Len(s2c) + 2
          /\ \A i \in 1 .. Len(s2c) : s2c'[i] = s2c[i]
          /\ s2c'[Len(s2c) + 1] = r /\ s2c'[Len(s2c) + 2] = q
        BY <1>1, <1>4, <2>1
    <2>3. \A i \in 1 .. Len(s2c') :
            i \in 1 .. Len(s2c) \/ i = Len(s2c) + 1 \/ i = Len(s2c) + 2
        BY <1>1, <2>2
    <2> QED
        BY <1>1, <1>4, <2>2, <2>3
<1> QED
    BY <1>2, <1>3, <1>4 DEF TellsOnly

\* UIDs that were given stay given.
LEMMA GivenGrows ==
    ASSUME NEW m \in Nat, NEW n \in Nat, m <= n
    PROVE  /\ \A s \in Seq(Messages(m)) : s \in Seq(Messages(n))
           /\ \A s \in Seq(0 .. m) : s \in Seq(0 .. n)
           /\ \A r \in Response : TellsGiven(r, m) => TellsGiven(r, n)
<1>1. 0 .. m \subseteq 0 .. n /\ 1 .. m \subseteq 1 .. n
    OBVIOUS
<1>2. Messages(m) \subseteq Messages(n)
    BY <1>1 DEF Messages
<1>3. ASSUME NEW r \in Response, TellsGiven(r, m)
      PROVE  TellsGiven(r, n)
    <2>1. r.type = "FETCH" => r.uid \in 0 .. MaxUid
        BY ResponseFields
    <2>2. r.type = "FETCH" => r.uid <= n /\ (Unnumbered => r.modseq = 0)
        BY <1>3, <2>1, BoundsAssumption DEF TellsGiven
    <2>3. r.type = "VANISHED" => r.uids \subseteq 1 .. n
        BY <1>1, <1>3 DEF TellsGiven
    <2>4. r.type = "SEARCH" => r.uids \in Seq(1 .. n)
        BY <1>1, <1>3 DEF TellsGiven
    <2> QED
        BY <2>2, <2>3, <2>4 DEF TellsGiven
<1> QED
    BY <1>1, <1>2, <1>3

\* What a change of the mailbox and a running command have in common.
ServerOnly ==
    /\ UNCHANGED clientVars
    /\ uidNext <= uidNext' /\ UNCHANGED <<uidValidity, selected>>
    /\ GivenOnly' /\ SelectsAsCached'
    /\ TellsOnly
    /\ ~selected => UNCHANGED s2c /\ vanishing' = {}
    /\ \A i \in 1 .. Len(c2s') : \E j \in 1 .. Len(c2s) : c2s'[i] = c2s[j]

\* The client knows no more of UIDs than before.
LEMMA ServerOnlyKnows ==
    ASSUME IInv, IInv', UidInv, ServerOnly
    PROVE  UidInv' /\ NeverBack
<1>1. /\ UNCHANGED <<children, cachedSync, cachedUids, syncState, phase, status,
                     uidValidity, selected>>
      /\ uidNext <= uidNext' /\ GivenOnly' /\ SelectsAsCached' /\ TellsOnly
    BY DEF ServerOnly, clientVars, treeVars, cacheVars, taskVars
<1>2. /\ LastGiven \in Nat /\ LastGiven' \in Nat /\ LastGiven <= LastGiven'
      /\ uidNext \in Nat /\ uidNext' \in Nat
      /\ cachedSync.uidNext \in Nat /\ syncState.uidNext \in Nat
    <2>1. /\ uidNext \in Nat /\ uidNext' \in Nat /\ uidNext >= 1
          /\ cachedSync.uidNext \in Nat /\ syncState.uidNext \in Nat
        BY UidTypes, UidTypesAfter
    <2>2. uidNext <= uidNext'
        BY <1>1
    <2>3. uidNext - 1 \in Nat /\ uidNext' - 1 \in Nat /\ uidNext - 1 <= uidNext' - 1
        <3>1. \A m, n \in Nat : (m >= 1 /\ m <= n) =>
                m - 1 \in Nat /\ n - 1 \in Nat /\ m - 1 <= n - 1
            OBVIOUS
        <3> QED
            BY <2>1, <2>2, <3>1
    <2>4. LastGiven \in Nat /\ LastGiven' \in Nat /\ LastGiven <= LastGiven'
        BY <2>3 DEF LastGiven
    <2> QED
        BY <2>1, <2>4
<1>3. /\ (SameAsCached' <=> SameAsCached) /\ (Selecting' <=> Selecting)
      /\ (ListIsOurs' <=> ListIsOurs) /\ MadeOnce' = MadeOnce
    BY <1>1 DEF SameAsCached, Selecting, ListIsOurs, MadeOnce
<1>4. /\ \A i \in 1 .. Len(s2c) : i \in 1 .. Len(s2c') /\ s2c'[i] = s2c[i]
      /\ \A i \in 1 .. Len(s2c') :
            i \in 1 .. Len(s2c) \/ (i > Len(s2c) /\ Tells(s2c'[i]))
    BY <1>1, WireGrows
<1>5. s2c \in Seq(Response) /\ Len(s2c) \in Nat
    BY UidTypes
<1>6. WireGiven'
    <2>1. ASSUME NEW i \in 1 .. Len(s2c')
          PROVE  TellsGiven(s2c'[i], LastGiven')
        <3>1. CASE i \in 1 .. Len(s2c)
            <4>1. s2c[i] \in Response /\ TellsGiven(s2c[i], LastGiven)
                BY <1>5, <3>1 DEF UidInv, WireGiven
            <4>2. TellsGiven(s2c[i], LastGiven')
                BY <1>2, <4>1, GivenGrows
            <4> QED
                BY <1>4, <3>1, <4>2
        <3>2. CASE i \notin 1 .. Len(s2c)
            BY <1>4, <3>2 DEF Tells
        <3> QED
            BY <3>1, <3>2
    <2>2. ~selected' => s2c' = <<>> /\ vanishing' = {}
        BY <1>1 DEF ServerOnly, UidInv, WireGiven
    <2>3. Unnumbered => \A i \in 1 .. Len(c2s') : c2s'[i].since = 0
        BY DEF ServerOnly, UidInv, WireGiven
    <2> QED
        BY <2>1, <2>2, <2>3 DEF WireGiven
<1>7. CodesFirst'
    <2> SUFFICES ASSUME NEW i \in 1 .. Len(s2c'), s2c'[i].type = "CODES"
                 PROVE  /\ i = 1 \/ (i = 2 /\ s2c'[1].type = "EXISTS")
                        /\ Selecting'
                        /\ s2c'[i].uidValidity = uidValidity' /\ s2c'[i].uidNext <= uidNext'
                        /\ SameAsCached' => cachedSync'.uidNext <= s2c'[i].uidNext
        BY DEF CodesFirst
    <2>1. i \in 1 .. Len(s2c) /\ s2c'[i] = s2c[i]
        BY <1>4 DEF Tells
    <2>2. /\ i = 1 \/ (i = 2 /\ s2c[1].type = "EXISTS")
          /\ Selecting
          /\ s2c[i].uidValidity = uidValidity /\ s2c[i].uidNext <= uidNext
          /\ SameAsCached => cachedSync.uidNext <= s2c[i].uidNext
        BY <2>1 DEF UidInv, CodesFirst
    <2>3. s2c[i].uidNext \in Nat
        BY <1>5, <2>1, SeqItem, ResponseFields
    <2>4. i = 2 => s2c'[1] = s2c[1]
        BY <1>4, <1>5, <2>1
    <2> QED
        BY <1>1, <1>2, <1>3, <2>1, <2>2, <2>3, <2>4
<1>8. ToldAfterOk'
    <2> SUFFICES ASSUME Selecting, ~SameAsCached, NEW i \in 1 .. Len(s2c'),
                        AboutMessages(s2c'[i])
                 PROVE  \E j \in 1 .. i - 1 : s2c'[j].type = "OK"
        BY <1>3 DEF ToldAfterOk, AboutMessages
    <2>1. CASE i \in 1 .. Len(s2c)
        <3>1. PICK j \in 1 .. i - 1 : s2c[j].type = "OK"
            BY <1>4, <2>1 DEF UidInv, ToldAfterOk
        <3>2. j \in 1 .. Len(s2c)
            BY <1>5, <2>1, <3>1
        <3> QED
            BY <1>4, <3>1, <3>2
    <2>2. CASE i \notin 1 .. Len(s2c)
        <3>1. i > Len(s2c) /\ Carried("OK")
            BY <1>4, <2>2 DEF Tells
        <3>2. PICK j \in 1 .. Len(s2c) : s2c[j].type = "OK"
            BY <3>1 DEF Carried
        <3>3. j \in 1 .. i - 1
            BY <1>5, <3>1, <3>2
        <3> QED
            BY <1>4, <3>2, <3>3
    <2> QED
        BY <2>1, <2>2
<1>9. CacheGiven'
    <2>1. (SameAsCached' \/ MadeOnce') => cachedUids' \in Seq(0 .. LastGiven')
        BY <1>1, <1>2, <1>3, GivenGrows DEF UidInv, CacheGiven
    <2>2. SameAsCached' => cachedSync'.uidNext <= uidNext'
        BY <1>1, <1>2, <1>3 DEF UidInv, CacheGiven
    <2> QED
        BY <1>1, <2>1, <2>2 DEF UidInv, CacheGiven
<1>10. SyncStateGiven'
    <2>1. Carried("CODES")' <=> Carried("CODES")
        BY <1>4 DEF Carried, Tells
    <2>2. CodesKnown' <=> CodesKnown
        BY <1>1, <2>1 DEF CodesKnown
    <2> QED
        BY <1>1, <1>2, <1>3, <2>2 DEF UidInv, SyncStateGiven
<1>11. ListGiven'
    BY <1>1, <1>2, <1>3, GivenGrows DEF UidInv, ListGiven
<1>12. NeverBack
    BY <1>1, <1>2 DEF NeverBack
<1> QED
    BY <1>1, <1>6, <1>7, <1>8, <1>9, <1>10, <1>11, <1>12 DEF UidInv

\* What is asked of SELECT stays when it is not touched.
LEMMA SelectsTheSame ==
    ASSUME IInv, UidInv,
           UNCHANGED <<phase, status, cachedSync, uidValidity, c2s, selected, started>>,
           TellsOnly, vanishing' \subseteq vanishing, reporting' \subseteq reporting
    PROVE  SelectsAsCached'
<1>1. /\ (SameAsCached' <=> SameAsCached) /\ (Selecting' <=> Selecting)
      /\ vanishing' # {} => vanishing # {}
      /\ reporting' # {} => reporting # {}
    BY DEF SameAsCached, Selecting
<1>2. Carried("OK") => Carried("OK")'
    BY WireGrows DEF Carried
<1> QED
    BY <1>1, <1>2 DEF UidInv, SelectsAsCached

\* A change is announced before the answer to SELECT has been seen only after it
\* has been given.
LEMMA AnnouncedAfterOk ==
    ASSUME IInv, UidInv, selected, Selecting,
           c2s # <<>> => Head(c2s).name # "SELECT"
    PROVE  Carried("OK")
<1>1. c2s = <<>>
    BY HeadCommand
<1> QED
    BY <1>1 DEF UidInv, SelectsAsCached

\* A UID of the mailbox is one of its messages', which the server has given.
LEMMA StoredGiven ==
    ASSUME IInv, UidInv
    PROVE  /\ \A k \in 1 .. Len(store) : store[k].uid \in 1 .. LastGiven
           /\ StoredUids \subseteq 1 .. LastGiven
<1>1. \A k \in 1 .. Len(store) : store[k].uid \in Uid
    BY StoredTypes DEF IInv, TypeOK
<1>2. ASSUME NEW k \in 1 .. Len(store)
      PROVE  store[k].uid \in 1 .. LastGiven
    <2>1. store[k].uid \in 1 .. MaxUid /\ store[k].uid <= LastGiven
        BY <1>1 DEF UidInv, GivenOnly, Uid
    <2>2. LastGiven \in Nat /\ MaxUid \in Nat
        BY UidTypes
    <2> QED
        BY <2>1, <2>2
<1> QED
    BY <1>2 DEF StoredUids

\* A new message gets the next UID.
LEMMA DeliverGives ==
    ASSUME IInv, IInv', UidInv, Deliver(Announced), UNCHANGED clientVars
    PROVE  ServerOnly
<1> DEFINE m == [uid |-> uidNext, added |-> highestModSeq + 1,
                 modseq |-> highestModSeq + 1]
<1>1. /\ store' = Append(store, m) /\ uidNext' = uidNext + 1 /\ m.uid = uidNext
      /\ UNCHANGED <<uidValidity, gone, selected, started, vanishing, reporting, c2s>>
    BY DEF Deliver, sessionVars
<1> HIDE DEF m
<1>2. /\ uidNext \in Nat /\ uidNext >= 1 /\ LastGiven \in Nat /\ uidNext = LastGiven + 1
      /\ store \in Seq(StoredMessage) /\ Len(store) \in Nat
    BY UidTypes
<1>3. LastGiven' = uidNext
    BY <1>1, <1>2 DEF LastGiven
<1>4. GivenOnly'
    <2>1. /\ Len(store') = Len(store) + 1 /\ store'[Len(store) + 1] = m
          /\ \A i \in 1 .. Len(store) : store'[i] = store[i]
        BY <1>1, <1>2
    <2>2. ASSUME NEW i \in 1 .. Len(store')
          PROVE  store'[i].uid <= LastGiven'
        <3>1. CASE i \in 1 .. Len(store)
            <4>1. store[i].uid \in 1 .. LastGiven
                BY <3>1, StoredGiven
            <4> QED
                BY <1>2, <1>3, <2>1, <3>1, <4>1
        <3>2. CASE i = Len(store) + 1
            BY <1>1, <1>2, <1>3, <2>1, <3>2
        <3> QED
            BY <1>2, <2>1, <2>2, <3>1, <3>2
    <2>3. \A u \in Uid : gone'[u] # 0 => u <= LastGiven'
        BY <1>1, <1>2, <1>3 DEF UidInv, GivenOnly, Uid
    <2>4. vanishing' \subseteq 1 .. LastGiven' /\ uidValidity' >= 1
        BY <1>1, <1>2, <1>3 DEF UidInv, GivenOnly
    <2> QED
        BY <2>2, <2>3, <2>4 DEF GivenOnly
<1>5. TellsOnly
    <2> DEFINE e == Exists(Len(store) + 1)
    <2>1. e \in Response /\ e.type = "EXISTS" /\ Recent \in Response /\ Recent.type = "RECENT"
        BY <1>2, ResponseTypes DEF Exists, Recent
    <2>2. UNCHANGED s2c \/ Announce(e) \/ s2c' = s2c \o <<e, Recent>>
        BY DEF Deliver
    <2> HIDE DEF e
    <2>3. Tells(e) /\ Tells(Recent)
        BY <2>1 DEF Tells, TellsGiven, AboutMessages
    <2> QED
        BY <2>1, <2>2, <2>3 DEF TellsOnly
<1>6. SelectsAsCached'
    BY <1>1, <1>5, SelectsTheSame DEF clientVars, taskVars, cacheVars
<1>7. ~selected => UNCHANGED s2c /\ vanishing' = {}
    BY <1>1 DEF Deliver, UidInv, WireGiven
<1> QED
    BY <1>1, <1>2, <1>4, <1>5, <1>6, <1>7 DEF ServerOnly

\* The mailbox and what is left to tell of it stay.
LEMMA GivenStays ==
    ASSUME UidInv, UNCHANGED <<uidNext, uidValidity>>, vanishing' \subseteq vanishing,
           \A i \in 1 .. Len(store') : \E k \in 1 .. Len(store) : store'[i].uid = store[k].uid,
           \A u \in Uid : gone'[u] # 0 => (gone[u] # 0 \/
                \E k \in 1 .. Len(store) : store[k].uid = u)
    PROVE  GivenOnly' /\ LastGiven' = LastGiven
<1>1. LastGiven' = LastGiven
    BY DEF LastGiven
<1> QED
    BY <1>1 DEF UidInv, GivenOnly

\* A message that is expunged had a UID.
LEMMA ExpungeGives ==
    ASSUME IInv, IInv', UidInv, Expunge(Announced), UNCHANGED clientVars
    PROVE  ServerOnly
<1>1. PICK k \in 1 .. Len(store) :
        /\ store' = RemoveRow(store, k)
        /\ IF Qresync
           THEN /\ highestModSeq' = highestModSeq + 1
                /\ gone' = [gone EXCEPT ![store[k].uid] = highestModSeq + 1]
           ELSE UNCHANGED <<highestModSeq, gone>>
        /\ IF selected
           THEN Announce(IF Qresync THEN Vanished({store[k].uid}, FALSE) ELSE Expunged(k))
           ELSE UNCHANGED s2c
        /\ vanishing' = vanishing
        /\ reporting' = reporting \ {store[k].uid}
    BY DEF Expunge
<1>2. UNCHANGED <<uidNext, uidValidity, selected, started, c2s>>
    BY DEF Expunge
<1>3. store \in Seq(StoredMessage) /\ Len(store) \in Nat /\ store[k].uid \in 1 .. LastGiven
      /\ uidNext \in Nat /\ gone \in [Uid -> Nat] /\ store[k].uid \in Uid
    <2>1. store[k].uid \in Uid
        BY StoredTypes DEF IInv, TypeOK
    <2> QED
        BY <2>1, UidTypes, StoredGiven
<1>4. Len(store') = Len(store) - 1
    BY <1>1, <1>3, RemoveRowType
<1>5. ASSUME NEW i \in 1 .. Len(store')
      PROVE  \E j \in 1 .. Len(store) : store'[i].uid = store[j].uid
    <2>1. store'[i] = IF i < k THEN store[i] ELSE store[i + 1]
        BY <1>1, <1>4, <1>5 DEF RemoveRow
    <2>2. i \in 1 .. Len(store) /\ i + 1 \in 1 .. Len(store)
        BY <1>3, <1>4, <1>5
    <2> QED
        BY <2>1, <2>2
<1>6. \A u \in Uid : gone'[u] # 0 => gone[u] # 0 \/ u = store[k].uid
    BY <1>1, <1>3
<1>7. GivenOnly' /\ LastGiven' = LastGiven
    <2>1. \A u \in Uid : gone'[u] # 0 => (gone[u] # 0 \/
                \E j \in 1 .. Len(store) : store[j].uid = u)
        BY <1>6
    <2> QED
        BY <1>1, <1>2, <1>5, <2>1, GivenStays
<1>8. TellsOnly
    <2>1. CASE selected
        <3>1. Head(c2s).name \in {"UID SEARCH", "UID FETCH", "NOOP"} /\ c2s # <<>>
            BY <2>1 DEF Expunge
        <3>2. ~Selecting
            BY <3>1, HeadCommand
        <3> DEFINE v == Vanished({store[k].uid}, FALSE)
        <3>3. /\ v \in Response /\ v.type = "VANISHED" /\ v.uids = {store[k].uid}
              /\ Expunged(k) \in Response /\ Expunged(k).type = "EXPUNGE"
            <4>1. {store[k].uid} \in SUBSET Uid /\ k \in Nat
                BY <1>3
            <4>2. v \in Response /\ Expunged(k) \in Response
                BY <4>1, ResponseTypes
            <4> QED
                BY <4>2 DEF Vanished, Expunged
        <3>4. Announce(v) \/ Announce(Expunged(k))
            BY <1>1, <2>1
        <3> HIDE DEF v
        <3>5. Tells(v) /\ Tells(Expunged(k))
            BY <1>3, <1>7, <3>2, <3>3 DEF Tells, TellsGiven
        <3> QED
            BY <3>3, <3>4, <3>5 DEF TellsOnly
    <2>2. CASE ~selected
        BY <1>1, <2>2 DEF TellsOnly
    <2> QED
        BY <2>1, <2>2
<1>9. SelectsAsCached'
    BY <1>1, <1>2, <1>8, SelectsTheSame DEF clientVars, taskVars, cacheVars
<1>10. ~selected => UNCHANGED s2c /\ vanishing' = {}
    BY <1>1 DEF UidInv, WireGiven
<1> QED
    BY <1>2, <1>3, <1>7, <1>8, <1>9, <1>10 DEF ServerOnly

\* A change of flags names a message of the mailbox.
LEMMA SetFlagsGives ==
    ASSUME IInv, IInv', UidInv, SetFlags(Announced), UNCHANGED clientVars
    PROVE  ServerOnly
<1>1. PICK k \in 1 .. Len(store) :
        /\ store' = [store EXCEPT ![k].modseq = highestModSeq + 1]
        /\ IF selected
           THEN Announce(Fetched(k, IF Qresync THEN store[k].uid ELSE 0,
                                 highestModSeq + 1,
                                 IF Capabilities = {} THEN 0 ELSE highestModSeq + 1))
           ELSE UNCHANGED s2c
    BY DEF SetFlags
<1>2. UNCHANGED <<uidNext, uidValidity, gone, selected, started, vanishing, reporting, c2s>>
    BY DEF SetFlags, sessionVars
<1>3. /\ store \in Seq(StoredMessage) /\ Len(store) \in Nat /\ uidNext \in Nat
      /\ highestModSeq + 1 \in Nat /\ store[k].uid \in 1 .. LastGiven /\ store[k].uid \in Uid
    <2>1. store[k].uid \in Uid
        BY StoredTypes DEF IInv, TypeOK
    <2>2. highestModSeq + 1 \in Nat
        BY DEF IInv, TypeOK, ServerTypeOK
    <2> QED
        BY <2>1, <2>2, UidTypes, StoredGiven
<1>4. Len(store') = Len(store) /\ \A i \in 1 .. Len(store) : store'[i].uid = store[i].uid
    BY <1>1, <1>3, StoredTypes DEF TypeOK, StoredMessage, IInv
<1>5. GivenOnly' /\ LastGiven' = LastGiven
    BY <1>2, <1>4, GivenStays
<1>6. TellsOnly
    <2>1. CASE selected
        <3> DEFINE r == Fetched(k, IF Qresync THEN store[k].uid ELSE 0, highestModSeq + 1,
                                IF Capabilities = {} THEN 0 ELSE highestModSeq + 1)
        <3>1. /\ (IF Qresync THEN store[k].uid ELSE 0) \in 0 .. MaxUid
              /\ (IF Qresync THEN store[k].uid ELSE 0) <= LastGiven
            <4>1. LastGiven \in Nat /\ MaxUid \in Nat
                BY UidTypes
            <4>2. store[k].uid \in 1 .. LastGiven /\ store[k].uid \in 1 .. MaxUid
                BY <1>3 DEF Uid
            <4> QED
                BY <4>1, <4>2
        <3>2. r \in Response
            BY <1>3, <3>1, ResponseTypes
        <3>3. r.type = "FETCH" /\ r.uid <= LastGiven /\ (Unnumbered => r.modseq = 0)
            BY <3>1 DEF Fetched, Unnumbered
        <3>4. Announce(r)
            BY <1>1, <2>1
        <3> HIDE DEF r
        <3>5. c2s # <<>> => Head(c2s).name # "SELECT"
            BY <2>1 DEF SetFlags, MayAnnounce
        <3>6. Selecting => Carried("OK")
            BY <2>1, <3>5, AnnouncedAfterOk
        <3>7. Tells(r)
            BY <1>5, <3>2, <3>3, <3>6 DEF Tells, TellsGiven
        <3> QED
            BY <3>2, <3>4, <3>7 DEF TellsOnly
    <2>2. CASE ~selected
        BY <1>1, <2>2 DEF TellsOnly
    <2> QED
        BY <2>1, <2>2
<1>7. SelectsAsCached'
    BY <1>2, <1>6, SelectsTheSame DEF clientVars, taskVars, cacheVars
<1>8. ~selected => UNCHANGED s2c /\ vanishing' = {}
    BY <1>1, <1>2 DEF UidInv, WireGiven
<1> QED
    BY <1>2, <1>3, <1>5, <1>6, <1>7, <1>8 DEF ServerOnly

\* Not even a mistake names a UID that was not given.
LEMMA MistakeGives ==
    ASSUME IInv, IInv', UidInv, Mistake, UNCHANGED clientVars
    PROVE  ServerOnly
<1>1. PICK r \in Impossible : Announce(r)
    BY DEF Mistake
<1>2. /\ UNCHANGED <<store, gone, uidNext, uidValidity, selected, started, vanishing,
                     reporting, c2s>>
      /\ selected /\ (c2s # <<>> => Head(c2s).name # "SELECT")
    BY DEF Mistake, mailboxVars
<1>3. GivenOnly' /\ LastGiven' = LastGiven
    BY <1>2, GivenStays
<1>4. LastGiven \in Nat /\ MaxUid \in Nat /\ uidNext \in Nat
    BY UidTypes
<1>5. Selecting => Carried("OK")
    BY <1>2, AnnouncedAfterOk
<1>6. r \in Response /\ Tells(r)
    <2>1. /\ Exists(0) \in Response /\ Expunged(MaxUid + 1) \in Response
          /\ Fetched(MaxUid + 1, 0, 1, 0) \in Response
        BY ResponseTypes, BoundsAssumption
    <2>2. /\ Exists(0).type = "EXISTS" /\ Expunged(MaxUid + 1).type = "EXPUNGE"
          /\ Fetched(MaxUid + 1, 0, 1, 0).type = "FETCH"
          /\ Fetched(MaxUid + 1, 0, 1, 0).uid = 0 /\ Fetched(MaxUid + 1, 0, 1, 0).modseq = 0
        BY DEF Exists, Expunged, Fetched
    <2>3. Tells(Exists(0)) /\ Tells(Expunged(MaxUid + 1))
        BY <2>1, <2>2 DEF Tells, TellsGiven, AboutMessages
    <2>4. Tells(Fetched(MaxUid + 1, 0, 1, 0))
        BY <1>3, <1>4, <1>5, <2>1, <2>2 DEF Tells, TellsGiven
    <2>5. ASSUME NEW k \in 2 .. Len(store)
          PROVE  /\ Fetched(1, store[k].uid, store[k].modseq, 0) \in Response
                 /\ Tells(Fetched(1, store[k].uid, store[k].modseq, 0))
        <3> DEFINE q == Fetched(1, store[k].uid, store[k].modseq, 0)
        <3>1. k \in 1 .. Len(store)
            BY UidTypes
        <3>2. store[k].uid \in 1 .. LastGiven
            BY <3>1, StoredGiven
        <3>3. q \in Response
            BY <3>1, StoredTypes, ResponseTypes DEF TypeOK, IInv
        <3>4. q.type = "FETCH" /\ q.uid <= LastGiven /\ q.modseq = 0
            BY <1>4, <3>2 DEF Fetched
        <3> HIDE DEF q
        <3>5. Tells(q)
            BY <1>3, <1>5, <3>3, <3>4 DEF Tells, TellsGiven
        <3> QED
            BY <3>3, <3>5 DEF q
    <2> QED
        BY <2>1, <2>3, <2>4, <2>5 DEF Impossible
<1>7. TellsOnly
    BY <1>1, <1>6 DEF TellsOnly
<1>8. SelectsAsCached'
    BY <1>2, <1>7, SelectsTheSame DEF clientVars, taskVars, cacheVars
<1> QED
    BY <1>2, <1>3, <1>4, <1>7, <1>8 DEF ServerOnly

\* A running command belongs to a selected mailbox.
LEMMA RunningIsSelected ==
    ASSUME IInv, started
    PROVE  selected /\ c2s # <<>>
BY DEF IInv, WireInv, ReportsWhatItHas

\* The mailbox stays while a command is executed, and no command is added.
LEMMA ExecuteGives ==
    ASSUME IInv, UidInv, UNCHANGED <<clientVars, mailboxVars, selected>>, selected,
           vanishing' \subseteq vanishing, TellsOnly, SelectsAsCached',
           c2s' = c2s \/ (c2s # <<>> /\ c2s' = Tail(c2s))
    PROVE  ServerOnly
<1>1. UNCHANGED <<store, uidNext, uidValidity, gone>>
    BY DEF mailboxVars
<1>2. GivenOnly'
    BY <1>1, GivenStays
<1>3. ASSUME NEW i \in 1 .. Len(c2s')
      PROVE  \E j \in 1 .. Len(c2s) : c2s'[i] = c2s[j]
    <2>1. CASE c2s' = c2s
        BY <1>3, <2>1
    <2>2. CASE c2s # <<>> /\ c2s' = Tail(c2s)
        <3>1. i + 1 \in 1 .. Len(c2s) /\ c2s'[i] = c2s[i + 1]
            BY <1>3, <2>2, UidTypes
        <3> QED
            BY <3>1
    <2> QED
        BY <2>1, <2>2
<1>4. uidNext <= uidNext'
    BY <1>1, UidTypes
<1> QED
    BY <1>1, <1>2, <1>3, <1>4 DEF ServerOnly

\* A command that is not SELECT tells nothing, or the UIDs of messages.
LEMMA StartOtherGives ==
    ASSUME IInv, UidInv, UNCHANGED clientVars,
           StartUidSearch \/ StartUidFetch \/ StartFetch \/ StartNoop
    PROVE  ServerOnly
<1>1. /\ c2s # <<>> /\ Head(c2s).name # "SELECT"
      /\ UNCHANGED <<mailboxVars, selected, vanishing, c2s>>
    BY DEF StartUidSearch, StartUidFetch, StartFetch, StartNoop, Starting, wireVars
<1>2. selected /\ ~Selecting /\ Head(c2s).from \in Nat
    BY <1>1, HeadCommand
<1>3. SelectsAsCached'
    BY <1>2 DEF SelectsAsCached, Selecting, clientVars, taskVars
<1>4. TellsOnly
    <2>1. CASE StartUidSearch
        <3> DEFINE uids == UidsFrom(Head(c2s).from)
                   r == Searched(uids)
        <3>1. uids \in Seq(Uid) /\ \A i \in 1 .. Len(uids) : uids[i] \in StoredUids
            BY <1>2, UidsFromType DEF IInv, TypeOK
        <3>2. Announce(r)
            BY <2>1 DEF StartUidSearch
        <3>3. r \in Response /\ r.type = "SEARCH" /\ r.uids = uids
            BY <3>1, ResponseTypes DEF Searched
        <3> HIDE DEF uids, r
        <3>4. \A i \in 1 .. Len(uids) : uids[i] \in 1 .. LastGiven
            BY <3>1, StoredGiven
        <3>5. uids \in Seq(1 .. LastGiven)
            <4>1. Len(uids) \in Nat /\ uids \in [1 .. Len(uids) -> 1 .. LastGiven]
                BY <3>1, <3>4
            <4> QED
                BY <4>1, SeqOfRange
        <3>6. LastGiven' = LastGiven
            BY <1>1 DEF LastGiven, mailboxVars
        <3>7. Tells(r)
            BY <3>3, <3>5, <3>6 DEF Tells, TellsGiven, AboutMessages
        <3> QED
            BY <3>2, <3>3, <3>7 DEF TellsOnly
    <2>2. CASE ~StartUidSearch
        BY <2>2 DEF StartUidFetch, StartFetch, StartNoop, wireVars, TellsOnly
    <2> QED
        BY <2>1, <2>2
<1> QED
    BY <1>1, <1>2, <1>3, <1>4, ExecuteGives

\* A running command reports UIDs that were given, and SELECT does so when it was
\* asked to compare them with those of the cache.
LEMMA ReportGives ==
    ASSUME IInv, UidInv, UNCHANGED clientVars, ReportVanished \/ ReportFetch
    PROVE  ServerOnly
<1>1. started /\ UNCHANGED <<mailboxVars, selected, started, c2s>>
      /\ vanishing' \subseteq vanishing /\ reporting' \subseteq reporting
      /\ (vanishing # {} \/ reporting # {})
    BY DEF ReportVanished, ReportFetch
<1>2. selected /\ c2s # <<>>
    BY <1>1, RunningIsSelected
<1>3. Selecting => SameAsCached
    BY <1>1, <1>2 DEF UidInv, SelectsAsCached
<1>4. LastGiven' = LastGiven
    BY <1>1 DEF LastGiven, mailboxVars
<1>5. TellsOnly
    <2>1. CASE ReportVanished
        <3> DEFINE r == Vanished(vanishing, TRUE)
        <3>1. r \in Response /\ r.type = "VANISHED" /\ r.uids = vanishing
            <4>1. vanishing \in SUBSET Uid
                BY UidTypes
            <4>2. r \in Response
                BY <4>1, ResponseTypes
            <4> QED
                BY <4>2 DEF Vanished
        <3>2. Announce(r)
            BY <2>1 DEF ReportVanished
        <3> HIDE DEF r
        <3>3. vanishing \subseteq 1 .. LastGiven
            BY DEF UidInv, GivenOnly
        <3>4. Tells(r)
            BY <1>3, <1>4, <3>1, <3>3 DEF Tells, TellsGiven
        <3> QED
            BY <3>1, <3>2, <3>4 DEF TellsOnly
    <2>2. CASE ReportFetch
        <3> DEFINE uid == Lowest(reporting)
                   row == RowOfUid(uid)
                   told == IF Head(c2s).name = "FETCH" THEN 0 ELSE uid
                   modseq == IF Head(c2s).since > 0 THEN store[row].modseq ELSE 0
                   r == Fetched(row, told, store[row].modseq, modseq)
        <3>1. uid \in reporting
            <4> DEFINE IsLowest(u) == \A v \in reporting : u <= v
            <4>1. reporting \in SUBSET Nat /\ reporting # {}
                BY <2>2 DEF ReportFetch, IInv, TypeOK, ServerTypeOK, Uid
            <4>2. \E u \in reporting : IsLowest(u)
                BY <4>1, LeastNat
            <4>3. (CHOOSE u \in reporting : IsLowest(u)) \in reporting
                BY <4>2
            <4> QED
                BY <4>3 DEF Lowest
        <3> HIDE DEF uid
        <3>2. uid \in StoredUids
            BY <3>1 DEF IInv, WireInv, ReportsWhatItHas
        <3>3. row \in 1 .. Len(store)
            BY <3>2 DEF RowOfUid, StoredUids
        <3> HIDE DEF row
        <3>4. row \in Nat /\ store[row].modseq \in Nat /\ uid \in 1 .. LastGiven
            BY <3>2, <3>3, StoredTypes, StoredGiven DEF IInv, TypeOK
        <3>5. told \in 0 .. MaxUid /\ told <= LastGiven /\ modseq \in Nat
            <4>1. LastGiven \in Nat /\ LastGiven <= MaxUid /\ MaxUid \in Nat
                BY UidTypes
            <4> QED
                BY <3>4, <4>1
        <3>6. Unnumbered => modseq = 0
            <4>1. Unnumbered => Head(c2s).since = 0
                BY <1>2, HeadCommand DEF UidInv, WireGiven
            <4> QED
                BY <4>1
        <3> HIDE DEF told, modseq
        <3>7. r \in Response
            BY <3>4, <3>5, ResponseTypes
        <3>8. r.type = "FETCH" /\ r.uid = told /\ r.modseq = modseq
            BY DEF Fetched
        <3> HIDE DEF r
        <3>9. Announce(r)
            BY <2>2 DEF ReportFetch, r, told, modseq, row, uid
        <3>10. Tells(r)
            BY <1>3, <1>4, <3>5, <3>6, <3>7, <3>8 DEF Tells, TellsGiven
        <3> QED
            BY <3>7, <3>9, <3>10 DEF TellsOnly
    <2> QED
        BY <2>1, <2>2
<1>6. SelectsAsCached'
    <2>1. UNCHANGED <<phase, status, cachedSync, uidValidity>>
        BY <1>1 DEF clientVars, taskVars, cacheVars, mailboxVars
    <2> QED
        BY <1>1, <1>5, <2>1, SelectsTheSame
<1> QED
    BY <1>1, <1>2, <1>5, <1>6, ExecuteGives

\* The answer to SELECT is complete when the command is.
LEMMA FinishGives ==
    ASSUME IInv, UidInv, UNCHANGED clientVars, Finish
    PROVE  ServerOnly
<1> DEFINE r == Ok(Head(c2s).name)
<1>1. started /\ UNCHANGED <<mailboxVars, selected, vanishing>> /\ c2s' = Tail(c2s)
      /\ Announce(r)
    BY DEF Finish
<1>2. selected /\ c2s # <<>>
    BY <1>1, RunningIsSelected
<1>3. r \in Response /\ r.type = "OK"
    <2>1. Head(c2s).name \in CommandName
        BY <1>2, HeadCommand
    <2>2. r \in Response
        BY <2>1, ResponseTypes
    <2> QED
        BY <2>2 DEF Ok
<1> HIDE DEF r
<1>4. Tells(r)
    BY <1>3 DEF Tells, TellsGiven, AboutMessages
<1>5. TellsOnly
    BY <1>1, <1>3, <1>4 DEF TellsOnly
<1>6. SelectsAsCached'
    <2> SUFFICES ASSUME Selecting
                 PROVE  c2s' = <<>> /\ Carried("OK")'
        BY DEF SelectsAsCached, Selecting, clientVars, taskVars
    <2>1. Len(c2s) <= 1
        BY DEF IInv, WireInv, SelectIsAlone
    <2>2. c2s' = <<>>
        <3>1. c2s \in Seq(Command)
            BY UidTypes
        <3> QED
            BY <1>1, <1>2, <2>1, <3>1
    <2>3. Len(s2c') = Len(s2c) + 1 /\ s2c'[Len(s2c) + 1] = r /\ Len(s2c) \in Nat
        <3>1. s2c \in Seq(Response)
            BY UidTypes
        <3> QED
            BY <1>1, <1>3, <3>1 DEF Announce
    <2> QED
        BY <1>3, <2>2, <2>3 DEF Carried
<1> QED
    BY <1>1, <1>2, <1>5, <1>6, ExecuteGives

\* SELECT is answered by codes which are true, and by nothing about messages.
LEMMA StartSelectKnows ==
    ASSUME IInv, IInv', UidInv, UNCHANGED clientVars, StartSelect
    PROVE  UidInv' /\ NeverBack
<1>1. PICK codes \in {Codes, CodesBehind} :
        \/ s2c' = s2c \o <<Exists(Len(store)), codes>>
        \/ s2c' = s2c \o <<codes, Exists(Len(store))>>
    BY DEF StartSelect
<1>2. /\ c2s # <<>> /\ Head(c2s).name = "SELECT" /\ ~started /\ started' /\ selected'
      /\ UNCHANGED <<mailboxVars, c2s>>
    BY DEF StartSelect, Starting
<1>3. Selecting /\ Head(c2s).since \in Nat
    BY <1>2, HeadCommand
<1>4. ~selected /\ Head(c2s).known \in {0, cachedSync.uidValidity}
    BY <1>2, <1>3 DEF UidInv, SelectsAsCached
<1>5. s2c = <<>>
    BY <1>4 DEF UidInv, WireGiven
<1>6. codes.type = "CODES" /\ codes.uidNext = uidNext /\ codes.uidValidity = uidValidity
    <2> DEFINE modseq == IF Capabilities = {} THEN 0 ELSE highestModSeq
    <2>1. Codes = [type |-> "CODES", uidNext |-> uidNext, uidValidity |-> uidValidity,
                   modseq |-> modseq]
        BY DEF Codes
    <2> HIDE DEF modseq
    <2>2. CodesBehind = [type |-> "CODES", uidNext |-> uidNext,
                         uidValidity |-> uidValidity, modseq |-> Smaller(modseq, 1)]
        BY <2>1 DEF CodesBehind
    <2> QED
        BY <2>1, <2>2
<1>7. Exists(Len(store)).type = "EXISTS"
    BY DEF Exists
<1>8. s2c' = <<Exists(Len(store)), codes>> \/ s2c' = <<codes, Exists(Len(store))>>
    BY <1>1, <1>5
<1>9. /\ Len(s2c') = 2
      /\ \/ s2c'[1].type = "EXISTS" /\ s2c'[2] = codes
         \/ s2c'[1] = codes /\ s2c'[2].type = "EXISTS"
    BY <1>7, <1>8
<1>10. /\ UNCHANGED <<children, cachedSync, cachedUids, syncState, phase, status, store,
                      uidNext, uidValidity, gone>>
       /\ (SameAsCached' <=> SameAsCached) /\ (Selecting' <=> Selecting)
       /\ (ListIsOurs' <=> ListIsOurs) /\ MadeOnce' = MadeOnce /\ LastGiven' = LastGiven
    BY <1>2 DEF clientVars, treeVars, cacheVars, taskVars, mailboxVars, SameAsCached,
                Selecting, ListIsOurs, MadeOnce, LastGiven
<1>11. (vanishing' # {} \/ reporting' # {}) => SameAsCached
    BY <1>4 DEF StartSelect, SameAsCached
<1>12. GivenOnly'
    <2>1. vanishing' \subseteq 1 .. LastGiven
        <3>1. vanishing' \subseteq {u \in Uid : gone[u] > Head(c2s).since}
            BY DEF StartSelect
        <3>2. \A u \in Uid : gone[u] \in Nat /\ (gone[u] # 0 => u <= LastGiven)
            BY UidTypes DEF UidInv, GivenOnly
        <3>3. LastGiven \in Nat
            BY UidTypes
        <3> QED
            BY <1>3, <3>1, <3>2, <3>3 DEF Uid
    <2> QED
        BY <1>10, <2>1 DEF UidInv, GivenOnly
<1>13. \A i \in 1 .. Len(s2c') : i \in {1, 2} /\ s2c'[i].type \in {"EXISTS", "CODES"}
    BY <1>6, <1>9
<1>14. WireGiven'
    BY <1>2, <1>13 DEF UidInv, WireGiven, TellsGiven
<1>15. CodesFirst'
    <2>1. SameAsCached => cachedSync.uidNext <= uidNext
        BY DEF UidInv, CacheGiven
    <2>2. uidNext <= uidNext
        BY UidTypes
    <2>3. \A i \in 1 .. Len(s2c') : s2c'[i].type = "CODES" =>
            s2c'[i] = codes /\ (i = 1 \/ (i = 2 /\ s2c'[1].type = "EXISTS"))
        BY <1>6, <1>9, <1>13
    <2> QED
        BY <1>3, <1>6, <1>10, <2>1, <2>2, <2>3 DEF CodesFirst
<1>16. ToldAfterOk'
    BY <1>13 DEF ToldAfterOk, AboutMessages
<1>17. SelectsAsCached'
    BY <1>2, <1>4, <1>10, <1>11 DEF SelectsAsCached
<1>18. CacheGiven'
    BY <1>10 DEF UidInv, CacheGiven
<1>19. SyncStateGiven'
    <2>1. 1 \in 1 .. Len(s2c') /\ 2 \in 1 .. Len(s2c')
        BY <1>9
    <2>2. Carried("CODES")'
        BY <1>6, <1>9, <2>1 DEF Carried
    <2> QED
        BY <2>2 DEF SyncStateGiven, CodesKnown
<1>20. ListGiven'
    BY <1>10 DEF UidInv, ListGiven
<1>21. NeverBack
    BY <1>10, UidTypes DEF NeverBack
<1> QED
    BY <1>12, <1>14, <1>15, <1>16, <1>17, <1>18, <1>19, <1>20, <1>21 DEF UidInv

\* A mailbox that is made anew has a UIDVALIDITY which nobody has heard of.
LEMMA RecreateKnows ==
    ASSUME IInv, IInv', UidInv, UNCHANGED clientVars, Recreate
    PROVE  UidInv' /\ NeverBack
<1>1. /\ ~selected /\ uidValidity < MaxUidValidity /\ uidValidity' = uidValidity + 1
      /\ store' = <<>> /\ uidNext' = 1 /\ gone' = [u \in Uid |-> 0]
      /\ UNCHANGED <<selected, started, vanishing, reporting, c2s, s2c>>
      /\ UNCHANGED <<children, cachedSync, cachedUids, syncState, phase, status>>
    BY DEF Recreate, sessionVars, wireVars, clientVars, treeVars, cacheVars, taskVars
<1>2. /\ uidValidity \in Nat /\ uidValidity >= 1 /\ MaxUidValidity \in Nat
      /\ cachedSync.uidValidity \in Nat /\ cachedSync.uidNext \in Nat
      /\ cachedSync.uidValidity <= uidValidity
    BY UidTypes, BoundsAssumption DEF UidInv, GivenOnly, CacheGiven
<1>3. ~MadeOnce /\ ~MadeOnce' /\ ~SameAsCached'
    BY <1>1, <1>2 DEF MadeOnce, SameAsCached
<1>4. s2c = <<>> /\ vanishing = {} /\ reporting = {}
      /\ (phase = "offline" \/ Selecting)
    BY <1>1 DEF UidInv, WireGiven, IInv, WireInv, ReportsWhatItHas
<1>5. (Selecting' <=> Selecting) /\ ~CodesKnown' /\ ~ListIsOurs'
    BY <1>1, <1>3, <1>4 DEF Selecting, CodesKnown, ListIsOurs
<1>6. GivenOnly'
    <2>1. LastGiven' = 0 /\ uidValidity' >= 1 /\ vanishing' = {}
        BY <1>1, <1>2, <1>4 DEF LastGiven
    <2> QED
        BY <1>1, <2>1 DEF GivenOnly
<1>7. WireGiven' /\ CodesFirst' /\ ToldAfterOk'
    BY <1>1, <1>4 DEF UidInv, WireGiven, CodesFirst, ToldAfterOk
<1>8. SelectsAsCached'
    <2>1. Carried("OK")' <=> Carried("OK")
        BY <1>1 DEF Carried
    <2> QED
        BY <1>1, <1>4, <1>5, <2>1 DEF UidInv, SelectsAsCached
<1>9. CacheGiven'
    BY <1>1, <1>2, <1>3 DEF CacheGiven
<1>10. SyncStateGiven' /\ ListGiven'
    BY <1>5 DEF SyncStateGiven, ListGiven
<1>11. NeverBack
    BY <1>1, <1>2 DEF NeverBack
<1> QED
    BY <1>6, <1>7, <1>8, <1>9, <1>10, <1>11 DEF UidInv

-----------------------------------------------------------------------------
(* The whole session.                                                       *)

\* Nothing is known that was not given when the program is started.
LEMMA GivenAtFirst ==
    ASSUME Init
    PROVE  UidInv
<1>1. PICK n \in InitialMessages :
        /\ store = [i \in 1 .. n |-> [uid |-> i, added |-> 1, modseq |-> 1]]
        /\ uidNext = n + 1
        /\ uidValidity = 1
        /\ gone = [u \in Uid |-> 0]
        /\ \/ /\ cachedSync = NoSyncState
              /\ cachedUids = <<>>
           \/ /\ cachedSync = [exists |-> n, uidNext |-> n + 1, uidValidity |-> 1,
                               highestModSeq |-> IF Capabilities = {} THEN 0 ELSE 1,
                               has |-> Fields]
              /\ cachedUids = [i \in 1 .. n |-> i]
    BY DEF Init
<1>2. n \in Nat /\ LastGiven = n
    BY <1>1, BoundsAssumption DEF LastGiven
<1>3. /\ ~selected /\ vanishing = {} /\ s2c = <<>> /\ c2s = <<>> /\ phase = "offline"
      /\ ~Selecting /\ ~CodesKnown /\ ~ListIsOurs
    BY DEF Init, Selecting, CodesKnown, ListIsOurs
<1>4. GivenOnly
    <2>1. \A i \in 1 .. Len(store) : store[i].uid <= LastGiven
        BY <1>1, <1>2
    <2>2. /\ \A u \in Uid : gone[u] = 0
          /\ vanishing \subseteq 1 .. LastGiven /\ uidValidity >= 1
        BY <1>1, <1>3
    <2> QED
        BY <2>1, <2>2 DEF GivenOnly
<1>5. WireGiven /\ CodesFirst /\ ToldAfterOk /\ SelectsAsCached
    BY <1>3 DEF WireGiven, CodesFirst, ToldAfterOk, SelectsAsCached
<1>6. CacheGiven
    <2>1. CASE cachedSync = NoSyncState /\ cachedUids = <<>>
        <3>1. cachedSync.uidValidity = 0 /\ cachedUids \in Seq(0 .. LastGiven)
            BY <2>1 DEF NoSyncState
        <3> QED
            BY <1>1, <3>1 DEF CacheGiven, SameAsCached
    <2>2. CASE cachedSync.uidValidity = 1 /\ cachedSync.uidNext = n + 1
               /\ cachedUids = [i \in 1 .. n |-> i]
        <3>1. cachedUids \in [1 .. n -> 0 .. n]
            BY <1>2, <2>2
        <3>2. cachedUids \in Seq(0 .. LastGiven)
            BY <1>2, <3>1, SeqOfRange
        <3> QED
            BY <1>1, <1>2, <2>2, <3>2 DEF CacheGiven
    <2> QED
        BY <1>1, <2>1, <2>2
<1>7. SyncStateGiven /\ ListGiven
    BY <1>3 DEF SyncStateGiven, ListGiven
<1> QED
    BY <1>4, <1>5, <1>6, <1>7 DEF UidInv

\* A step which changes nothing gives nothing.
LEMMA StutterKnows ==
    ASSUME UidInv, IInv, UNCHANGED vars
    PROVE  UidInv' /\ NeverBack
<1>1. UNCHANGED <<store, uidNext, uidValidity, gone, selected, started, vanishing, reporting,
                  c2s, s2c, children, cachedSync, cachedUids, syncState, phase, status>>
    BY DEF vars, serverVars, mailboxVars, sessionVars, wireVars, treeVars, cacheVars, taskVars
<1>2. /\ (SameAsCached' <=> SameAsCached) /\ (Selecting' <=> Selecting)
      /\ (ListIsOurs' <=> ListIsOurs) /\ LastGiven' = LastGiven
      /\ (Carried("OK")' <=> Carried("OK")) /\ (CodesKnown' <=> CodesKnown)
    BY <1>1 DEF SameAsCached, Selecting, ListIsOurs, LastGiven, Carried, CodesKnown
<1>3. GivenOnly' /\ WireGiven' /\ CodesFirst' /\ ToldAfterOk'
    BY <1>1, <1>2 DEF UidInv, GivenOnly, WireGiven, CodesFirst, ToldAfterOk
<1>4. SelectsAsCached' /\ CacheGiven'
    BY <1>1, <1>2 DEF UidInv, SelectsAsCached, CacheGiven, MadeOnce
<1>5. SyncStateGiven' /\ ListGiven'
    BY <1>1, <1>2 DEF UidInv, SyncStateGiven, ListGiven
<1>6. NeverBack
    BY <1>1, UidTypes DEF NeverBack
<1> QED
    BY <1>3, <1>4, <1>5, <1>6 DEF UidInv

\* Every step of every session keeps UidInv, and the saved UIDNEXT.
LEMMA NextKnows ==
    ASSUME IInv, IInv', UidInv, MadeOnce \/ Unnumbered, Next
    PROVE  UidInv' /\ NeverBack
<1>1. CASE OtherClients
    BY <1>1, DeliverGives, ExpungeGives, SetFlagsGives, MistakeGives, RecreateKnows,
       ServerOnlyKnows
    DEF OtherClients
<1>2. CASE ServerStep
    BY <1>2, StartSelectKnows, StartOtherGives, ReportGives, FinishGives, ServerOnlyKnows
    DEF ServerStep, Execute
<1>3. CASE OpenMailbox
    BY <1>3, OpenMailboxKnows DEF OpenMailbox
<1>4. CASE ObtainStep \/ KeepStep
    <2>1. \A reason : Throw(reason) => GoOffline /\ UNCHANGED cacheVars
        BY DEF Throw
    <2>2. CASE ExistsRefused \/ ObtainExpungeRefused \/ ObtainFetchRefused
               \/ SearchRefused \/ KeepRefuses \/ Throw("child count mismatch")
        <3>1. GoOffline /\ UNCHANGED cacheVars
            BY <2>1, <2>2
            DEF ExistsRefused, ObtainExpungeRefused, ObtainFetchRefused, SearchRefused,
                KeepRefuses, KeepExistsRefused, KeepExpungeRefused, KeepFetchRefused
        <3> QED
            BY <3>1, GoOfflineKnows
    <2>3. CASE HandleCodes
        BY <2>3, HandleCodesKnows
    <2>4. \/ FinalizeSelect \/ ExistsWhileSelecting \/ ExistsWhileSyncing \/ ObtainExpunge
          \/ ObtainVanished \/ ObtainFetch \/ ObtainRecent \/ finalizeSearch
          \/ UidSearchOk \/ FlagsOk \/ ObtainArrivalsOk \/ Keep
          \/ HandleCodes
          \/ ExistsRefused \/ ObtainExpungeRefused \/ ObtainFetchRefused
          \/ SearchRefused \/ KeepRefuses
        BY <1>4 DEF ObtainStep, Obtain, KeepStep
    <2>5. Advances \/ Throw("child count mismatch") \/ HandleCodes
          \/ ExistsRefused \/ ObtainExpungeRefused \/ ObtainFetchRefused
          \/ SearchRefused \/ KeepRefuses
        BY <2>4, FinalizeSelectAdvances, ExistsWhileSelectingAdvances,
           ExistsWhileSyncingAdvances, ObtainExpungeAdvances, ObtainQuietAdvances,
           FinalizeSearchAdvances, ObtainOkAdvances, KeepAdvances
    <2> QED
        BY <2>2, <2>3, <2>5, AdvancesStep
<1>5. CASE SyncingTimeout \/ NoopTimeout
    BY <1>5, TimeoutAdvances, AdvancesStep DEF SyncingTimeout, NoopTimeout
<1>6. CASE LoseConnection
    BY <1>6, GoOfflineKnows DEF LoseConnection
<1> QED
    BY <1>1, <1>2, <1>3, <1>4, <1>5, <1>6 DEF Next

\* The UIDNEXT of TreeItemMailbox::syncState, which saveSyncStateAndUids() puts into
\* the cache, is raised by EXISTS, FETCH, VANISHED and SEARCH in many places and set
\* by the answer to SELECT.  For one incarnation of a mailbox the saved one never
\* goes back: it is never above that of the server, in no session.  With a server
\* that numbers changes this needs a mailbox which is not made anew (MaxUidValidity).
THEOREM SavedUidNextNeverGoesBack ==
    ASSUME Capabilities = {} \/ MaxUidValidity <= 1
    PROVE  Spec => SavedUidNextGrows
<1>1. MadeOnce \/ Unnumbered
    BY DEF MadeOnce, Unnumbered
<1>2. Init => UidInv
    BY GivenAtFirst
<1>3. IInv /\ IInv' /\ UidInv /\ [Next]_vars => UidInv' /\ NeverBack
    BY <1>1, NextKnows, StutterKnows
<1>4. NeverBack => [cachedSync'.uidValidity = cachedSync.uidValidity =>
                        cachedSync'.uidNext >= cachedSync.uidNext]_cachedSync
    BY DEF NeverBack
<1> QED
    BY <1>2, <1>3, <1>4, SessionInvariant, PTL DEF Spec, SavedUidNextGrows

=============================================================================
