--------------------------- MODULE MCMailboxSession ----------------------------
(***************************************************************************)
(* MailboxSession for TLC, and the loops of MailboxLoops against the       *)
(* closed forms of MailboxTree that the specification uses: for every list *)
(* of up to MaxLen messages and every set of UIDs up to MaxListed, once,   *)
(* and for the lists that sessions meet.                                   *)
(***************************************************************************)
EXTENDS MailboxSession, MailboxLoops, SequencesExt

CONSTANTS MaxLen, MaxListed
ASSUME SizesAssumption == MaxLen \in Nat /\ MaxListed \in Nat

\* Known UIDs ascend; unknown ones may be anywhere.
Ordered(s) ==
    \A i, j \in 1 .. Len(s) : (i < j /\ s[j].uid # 0) => s[i].uid < s[j].uid

\* The flags of a message say which row it had, so that messages can be told apart.
Lists ==
    {s \in UNION {[1 .. n -> [uid : 0 .. MaxListed, flags : 1 .. n, handled : {TRUE}]] :
                    n \in 0 .. MaxLen} :
        Ordered(s) /\ \A i \in 1 .. Len(s) : s[i].flags = i}

\* The binary search finds what a search from the beginning would find, wherever
\* the unknown UIDs are (lowerBoundWithUnknownElements(), FindWithUnknown.h).
SearchesAlike(list) ==
    \A uid \in 1 .. MaxListed + 1 :
        lowerBound(list, 1, Len(list), uid) = findMessageOrNextOneByUid(list, uid)

VanishesAlike(list, uids, earlier) ==
    vanish(list, uids, earlier, {}) =
        [list |-> RemoveRows(list, VanishedRows(list, uids, earlier)),
         removed |-> VanishedUids(list, uids, earlier)]

AllVanishes ==
    \A list \in Lists :
        /\ SearchesAlike(list)
        /\ \A uids \in SUBSET (1 .. MaxListed) : VanishesAlike(list, uids, TRUE)
        /\ \A uid \in 1 .. MaxListed :
               LET left == vanish(list, {uid}, FALSE, {}).list
               IN  /\ VanishesAlike(list, {uid}, FALSE)
                   /\ \A i \in 1 .. Len(list) : list[i].uid \notin {0, uid} =>
                          \E j \in 1 .. Len(left) : left[j] = list[i]
                   /\ Ordered(left)

\* VANISHED (EARLIER) takes away the messages that are in it and no others, in
\* whatever order its UIDs come (TreeItemMailbox::handleVanished()).  VANISHED of one
\* UID takes its message, or one with an unknown UID that can be it, and never a
\* message which is known to be another one.  The search it relies on finds its way in
\* every list of a session.
VanishedTakesItsMessages == AllVanishes /\ SearchesAlike(children)

AppliesAlike(list, offset, uids) ==
    LET result == walkUids(list, offset + 1, offset, uids, {})
    IN  /\ result.list = applyUids(list, offset, uids)
        /\ result.cleared = ClearedByApplyUids(list, offset, uids)

\* The walk leaves exactly the given UIDs after the first rows, and, if each message
\* it has got already stands behind as many unknown UIDs as there are new ones before
\* it, keeps every such message and computes what the model says.
Walks(list, offset, uids) ==
    LET target == SetToSortSeq(uids, <)
        unknownBefore(j) == {k \in offset + 1 .. j - 1 : list[k].uid = 0}
        newBefore(j) == {u \in uids : u < list[j].uid /\ ~IsListed(list, offset, u)}
        inPlace == \A j \in offset + 1 .. Len(list) : list[j].uid \in uids =>
                        Cardinality(unknownBefore(j)) = Cardinality(newBefore(j))
    IN  /\ UidsOf(walkUids(list, offset + 1, offset, target, {}).list)
               = UidsOf(SubSeq(list, 1, offset)) \o target
        /\ inPlace => AppliesAlike(list, offset, target)

AllWalks ==
    \A list \in Lists, uids \in SUBSET (1 .. MaxListed) :
        \A offset \in 0 .. Len(list) : Walks(list, offset, uids)

\* applyUids() leaves exactly the UIDs of the server, from every list; and whenever a
\* session applies the result of UID SEARCH, its list is one from which the messages
\* that are still there are kept (ObtainSynchronizedMailboxTask::applyUids()).
WalkMakesUidsEqual ==
    /\ AllWalks
    /\ (/\ Obtaining("SEARCH") /\ ~SearchCountWrong /\ ~RowsMissing) =>
           AppliesAlike(children, firstUnknownUidOffset, Head(s2c).uids)

\* The loops over the list as written compute what the operators say which the sessions use:
\* those of VANISHED (handleVanished()), of the search among unknown UIDs
\* (FindWithUnknown.h) and of UID SEARCH (applyUids()).
LoopsMeetDefinitions == VanishedTakesItsMessages /\ WalkMakesUidsEqual

=============================================================================
