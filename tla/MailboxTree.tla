------------------------------ MODULE MailboxTree ------------------------------
(***************************************************************************)
(* The data of one opened mailbox and the pure part of what the client     *)
(* does to it: TreeItemMsgList and its TreeItemMessage children            *)
(* (src/Imap/Model/MailboxTree.cpp) and SyncState                          *)
(* (src/Imap/Model/MailboxMetadata.cpp).                                   *)
(*                                                                         *)
(* A message of the list is a record: its UID (0 while it is not known),   *)
(* its flags, and m_flagsHandled.  A set of flags is abstracted to the     *)
(* mod-sequence of the change that produced it, so two sets of flags are   *)
(* equal exactly when they come from the same change; 0 is "none seen".    *)
(***************************************************************************)
EXTENDS Integers, Sequences, FiniteSets

\* A TreeItemMessage as its constructor leaves it.
NewMessage == [uid |-> 0, flags |-> 0, handled |-> FALSE]

Larger(a, b) == IF a >= b THEN a ELSE b
Smaller(a, b) == IF a <= b THEN a ELSE b

-----------------------------------------------------------------------------
(* SyncState: four numbers, each with its m_has... flag.                    *)

Fields == {"exists", "uidNext", "uidValidity", "highestModSeq"}

SyncState == [exists: Nat, uidNext: Nat, uidValidity: Nat,
              highestModSeq: Nat, has: SUBSET Fields]

NoSyncState == [exists |-> 0, uidNext |-> 0, uidValidity |-> 0,
                highestModSeq |-> 0, has |-> {}]

setExists(ss, n) == [ss EXCEPT !.exists = n, !.has = @ \cup {"exists"}]
setUidNext(ss, n) == [ss EXCEPT !.uidNext = n, !.has = @ \cup {"uidNext"}]
setUidValidity(ss, n) ==
    [ss EXCEPT !.uidValidity = n, !.has = @ \cup {"uidValidity"}]
setHighestModSeq(ss, n) ==
    [ss EXCEPT !.highestModSeq = n, !.has = @ \cup {"highestModSeq"}]

isUsableForSyncing(ss) == {"exists", "uidNext", "uidValidity"} \subseteq ss.has
isUsableForSyncingWithoutUidNext(ss) == {"exists", "uidValidity"} \subseteq ss.has
isUsableForCondstore(ss) ==
    /\ "highestModSeq" \in ss.has
    /\ ss.highestModSeq > 0
    /\ isUsableForSyncing(ss)

\* A state that went through the database: operator>> calls every setter.
Reloaded(ss) == [ss EXCEPT !.has = Fields]

-----------------------------------------------------------------------------
(* The list of messages.                                                    *)

RemoveRow(s, k) ==
    [i \in 1 .. Len(s) - 1 |-> IF i < k THEN s[i] ELSE s[i + 1]]

\* The list without the rows of a set: row k of it is the k-th of the others.
RemoveRows(s, rows) ==
    [k \in 1 .. Len(s) - Cardinality(rows) |->
        s[CHOOSE i \in 1 .. Len(s) : /\ i \notin rows
                                     /\ Cardinality((1 .. i) \ rows) = k]]

\* Messages with an unknown UID added until the list has n items.
PadTo(s, n) ==
    [i \in 1 .. Larger(n, Len(s)) |-> IF i <= Len(s) THEN s[i] ELSE NewMessage]

Fresh(n) == [i \in 1 .. n |-> NewMessage]

\* recalcVariousMessageCounts() marks the flags of every child as handled.
AllHandled(s) == [i \in 1 .. Len(s) |-> [s[i] EXCEPT !.handled = TRUE]]

\* The sequence-to-UID map of a list, as Model::saveUidMap() builds it.
UidsOf(s) == [i \in 1 .. Len(s) |-> s[i].uid]

\* The last known UID of the list, or 0.
HighestKnownUid(s) ==
    IF \E i \in 1 .. Len(s) : s[i].uid # 0
    THEN LET last == CHOOSE i \in 1 .. Len(s) :
                        /\ s[i].uid # 0
                        /\ \A j \in i + 1 .. Len(s) : s[j].uid = 0
         IN s[last].uid
    ELSE 0

\* Mutant: UIDNEXT follows the last message even when that takes it back.
updateHighestKnownUidAnyway(ss, s) ==
    IF HighestKnownUid(s) = 0 THEN ss ELSE setUidNext(ss, HighestKnownUid(s) + 1)

updateHighestKnownUid(ss, s) ==
    IF HighestKnownUid(s) = 0 THEN ss
    ELSE setUidNext(ss, Larger(ss.uidNext, HighestKnownUid(s) + 1))

\* The first row with a UID that is known and not below uid; the row after the
\* last one when there is none.
findMessageOrNextOneByUid(s, uid) ==
    CHOOSE k \in 1 .. Len(s) + 1 :
        /\ k <= Len(s) => s[k].uid # 0 /\ s[k].uid >= uid
        /\ \A j \in 1 .. k - 1 : s[j].uid = 0 \/ s[j].uid < uid

\* Mutant: whatever is at the place of the UID goes.
VanishedRowNearest(s, uid) ==
    IF s = <<>> \/ uid = 0 THEN 0
    ELSE Smaller(findMessageOrNextOneByUid(s, uid), Len(s))

\* The row that VANISHED uid removes, 0 when it names no message of the list.
\* A UID that is not in the list is the UID of a message with an unknown one.
VanishedRow(s, uid) ==
    LET found == Smaller(findMessageOrNextOneByUid(s, uid), Len(s))
    IN  IF s = <<>> \/ uid = 0 THEN 0
        ELSE IF s[found].uid \in {0, uid} THEN found
        ELSE IF found > 1 /\ s[found - 1].uid = 0 THEN found - 1
        ELSE 0

\* The rows that a VANISHED with these UIDs removes, and which of the UIDs had a
\* row.  VANISHED (EARLIER) is not about messages with an unknown UID.  Without
\* EARLIER there is one UID.
VanishedRows(s, uids, earlier) ==
    IF earlier THEN {k \in 1 .. Len(s) : s[k].uid # 0 /\ s[k].uid \in uids}
    ELSE {VanishedRow(s, uid) : uid \in uids} \ {0}

VanishedUids(s, uids, earlier) ==
    IF earlier THEN {s[k].uid : k \in VanishedRows(s, uids, earlier)}
    ELSE {uid \in uids : VanishedRow(s, uid) # 0}

(* ObtainSynchronizedMailboxTask::applyUids() walks the list from row        *)
(* offset + 1 and makes its UIDs equal to uids: an item with the wanted UID   *)
(* stays, an item with an unknown UID takes it, other items go, and new ones  *)
(* are added at the end.  This is what the walk computes when a message with  *)
(* a wanted UID has as many unknown UIDs before it as uids has new ones.      *)
IsListed(s, offset, uid) == \E j \in offset + 1 .. Len(s) : s[j].uid = uid

RowOf(s, offset, uid) == CHOOSE j \in offset + 1 .. Len(s) : s[j].uid = uid

\* Is row j the n-th of those with an unknown UID?
IsUnknown(s, offset, j, n) ==
    /\ s[j].uid = 0
    /\ Cardinality({k \in offset + 1 .. j : s[k].uid = 0}) = n

\* The item which the walk leaves at the place of uids[i].
ItemFor(s, offset, uids, i) ==
    LET n == Cardinality({k \in 1 .. i : ~IsListed(s, offset, uids[k])})
        rows == {j \in offset + 1 .. Len(s) : IsUnknown(s, offset, j, n)}
    IN  IF IsListed(s, offset, uids[i]) THEN s[RowOf(s, offset, uids[i])]
        ELSE IF rows # {} THEN s[CHOOSE j \in rows : TRUE]
        ELSE NewMessage

applyUids(s, offset, uids) ==
    [k \in 1 .. offset + Len(uids) |->
        IF k <= offset THEN s[k]
        ELSE [ItemFor(s, offset, uids, k - offset) EXCEPT !.uid = uids[k - offset]]]

\* The UIDs whose cached data the walk drops: the items it removes while there
\* is still a UID to place.  What it cuts off at the end stays in the cache.
ClearedByApplyUids(s, offset, uids) ==
    LET stays(j) == s[j].uid = 0 \/ \E k \in 1 .. Len(uids) : uids[k] = s[j].uid
        goes == {j \in offset + 1 .. Len(s) :
                    /\ ~stays(j)
                    /\ Cardinality({k \in offset + 1 .. j : stays(k)}) < Len(uids)}
    IN  {s[j].uid : j \in goes}

=============================================================================
