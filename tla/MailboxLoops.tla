------------------------------ MODULE MailboxLoops -----------------------------
(***************************************************************************)
(* The loops over a list of messages, step by step as the code runs them.  *)
(* MailboxTree says in closed form what they compute, so that it can be    *)
(* proved about; here are the loops, and what the two must agree on.       *)
(***************************************************************************)
EXTENDS MailboxTree

-----------------------------------------------------------------------------
(* lowerBoundWithUnknownElements(): a binary search, linear as soon as it    *)
(* meets an unknown UID.  The range is n rows from row begin on.             *)

RECURSIVE linearLowerBound(_, _, _, _)
linearLowerBound(s, begin, n, uid) ==
    IF n > 0 /\ (s[begin].uid = 0 \/ s[begin].uid < uid)
    THEN linearLowerBound(s, begin + 1, n - 1, uid)
    ELSE begin

RECURSIVE lowerBound(_, _, _, _)
lowerBound(s, begin, n, uid) ==
    LET half == n \div 2
        middle == begin + half
    IN  IF n = 0 THEN begin
        ELSE IF s[middle].uid = 0 THEN linearLowerBound(s, begin, n, uid)
        ELSE IF s[middle].uid < uid THEN lowerBound(s, middle + 1, n - half - 1, uid)
        ELSE lowerBound(s, begin, half, uid)

-----------------------------------------------------------------------------
(* The loop of TreeItemMailbox::handleVanished() over the UIDs, from the     *)
(* highest one down.  It yields the list and the UIDs that had a row.        *)

Highest(uids) == CHOOSE u \in uids : \A v \in uids : v <= u

RECURSIVE vanish(_, _, _, _)
vanish(s, uids, earlier, removed) ==
    LET uid == Highest(uids)
        found == Smaller(lowerBound(s, 1, Len(s), uid), Len(s))
        before == Larger(found - 1, 1)
        row == IF s[found].uid = uid THEN found
               ELSE IF earlier THEN 0
               ELSE IF s[found].uid = 0 THEN found
               ELSE IF s[before].uid = 0 THEN before
               ELSE 0
    IN  IF uids = {} \/ s = <<>> THEN [list |-> s, removed |-> removed]
        ELSE IF row = 0 THEN vanish(s, uids \ {uid}, earlier, removed)
        ELSE vanish(RemoveRow(s, row), uids \ {uid}, earlier, removed \cup {uid})

-----------------------------------------------------------------------------
(* The loop of ObtainSynchronizedMailboxTask::applyUids(), with the list at  *)
(* row i and uids[i - offset] to be placed there.  It yields the list and    *)
(* the UIDs whose data it has dropped from the cache.                        *)

SetUid(s, i, uid) == [s EXCEPT ![i].uid = uid]

RECURSIVE walkUids(_, _, _, _, _)
walkUids(s, i, offset, uids, cleared) ==
    LET uid == uids[i - offset]
    IN  IF i > offset + Len(uids)
        THEN [list |-> SubSeq(s, 1, i - 1), cleared |-> cleared]
        ELSE IF i = Len(s) + 1
        THEN walkUids(Append(s, [NewMessage EXCEPT !.uid = uid]),
                      i + 1, offset, uids, cleared)
        ELSE IF s[i].uid \in {0, uid}
        THEN walkUids(SetUid(s, i, uid), i + 1, offset, uids, cleared)
        ELSE walkUids(RemoveRow(s, i), i, offset, uids, cleared \cup {s[i].uid})

=============================================================================
