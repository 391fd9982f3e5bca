----------------------------- MODULE MailboxClient -----------------------------
(***************************************************************************)
(* The state the client keeps about one mailbox, shared by the task which  *)
(* synchronizes it (ObtainSync) and the one which keeps it open            *)
(* (KeepOpen): the mailbox in the tree, what the cache has saved about it, *)
(* and the members of the two tasks; and what both of them do through      *)
(* TreeItemMailbox (src/Imap/Model/MailboxTree.cpp).                       *)
(*                                                                         *)
(* The cache is SQLCache (src/Imap/Model/SQLCache.cpp): a sync state, a    *)
(* UID map and the flags of each UID, which outlive the connection and the *)
(* process.                                                                *)
(***************************************************************************)
EXTENDS ImapServer

VARIABLES
    children,       \* TreeItemMsgList::m_children
    fetchStatus,    \* its m_fetchStatus: "LOADING", "DONE"
    numbersFetched, \* its m_numberFetchingStatus is DONE
    syncState,      \* TreeItemMailbox::syncState
    cachedSync,     \* AbstractCache::mailboxSyncState()
    cachedUids,     \* AbstractCache::uidMapping()
    cachedFlags,    \* AbstractCache::msgFlags() of each UID
    phase,          \* "offline", "obtaining" (ObtainSynchronizedMailboxTask is
                    \* active) or "open" (KeepMailboxOpenTask is RUNNING)
    newArrivalsFetch, \* how many UID FETCHes of new arrivals are pending
    failure         \* what went wrong in this session, "none" if nothing

treeVars == <<children, fetchStatus, numbersFetched, syncState>>
cacheVars == <<cachedSync, cachedUids, cachedFlags>>

Message == [uid: 0 .. MaxUid, flags: Nat, handled: BOOLEAN]

\* Exceptions thrown at a response, and the assertions of the handlers.
Thrown == {"EXISTS decreased", "EXPUNGE out of bounds", "FETCH out of bounds",
           "UID mismatch", "UID count mismatch", "child count mismatch"}
Asserted == {"status is not STATE_SYNCING_FLAGS", "message without UID",
             "row out of bounds", "fewer messages than known"}
Failure == {"none"} \cup Thrown \cup Asserted

TreeTypeOK ==
    /\ children \in Seq(Message)
    /\ fetchStatus \in {"LOADING", "DONE"}
    /\ numbersFetched \in BOOLEAN
    /\ syncState \in SyncState

CacheTypeOK ==
    /\ cachedSync \in SyncState
    /\ cachedUids \in Seq(0 .. MaxUid)
    /\ cachedFlags \in [0 .. MaxUid -> Nat]

NoFlags == [u \in 0 .. MaxUid |-> 0]

-----------------------------------------------------------------------------
(* The wire.                                                                *)

Received(type) == s2c # <<>> /\ Head(s2c).type = type
Consume == s2c' = Tail(s2c)
Send(command) == c2s' = Append(c2s, command)

\* UID FETCH of the arrivals whose UIDs are not known.
RequestArrivals(from) ==
    /\ Send(UidFetch(from))
    /\ newArrivalsFetch' = newArrivalsFetch + 1

-----------------------------------------------------------------------------
(* The cache.                                                               *)

\* setMailboxSyncState() and saveUidMap(): one call of saveSyncStateAndUids().
SaveSyncStateAndUids(s, ss) ==
    /\ cachedSync' = Reloaded(ss)
    /\ cachedUids' = UidsOf(s)

-----------------------------------------------------------------------------
(* TreeItemMailbox.  These operators leave c2s, s2c and the variables of    *)
(* the tasks to their callers.                                              *)

\* The list after EXISTS n: new messages, whose UID is not known yet.
ExistsTooLow(n) == n < Len(children)

HandleExists(n) ==
    /\ children' = PadTo(children, n)
    /\ fetchStatus' = IF n > Len(children) THEN "LOADING" ELSE fetchStatus

ExpungeOutOfBounds(n) == n = 0 \/ n > Len(children)

\* The list after EXPUNGE n; the message goes from the cache as well.
ListWithoutRow(n) ==
    IF numbersFetched THEN RemoveRow(children, n)
    ELSE AllHandled(RemoveRow(children, n))

HandleExpunge(n) ==
    /\ children' = ListWithoutRow(n)
    /\ numbersFetched' = TRUE
    /\ cachedFlags' = [cachedFlags EXCEPT ![children[n].uid] = 0]

\* VANISHED removes a message, VANISHED (EARLIER) adds those which EXISTS had
\* promised already.  A list which was synced is saved.
HandleVanished(uids, earlier) ==
    LET removed == VanishedUids(children, uids, earlier)
        shorter == RemoveRows(children, VanishedRows(children, uids, earlier))
        list == AllHandled(IF earlier THEN PadTo(shorter, syncState.exists)
                           ELSE shorter)
        highest == CHOOSE u \in removed : \A v \in removed : v <= u
        learnt == IF removed # {} /\ syncState.uidNext <= highest
                  THEN setUidNext(syncState, highest + 1) ELSE syncState
        now == setExists(learnt, Len(list))
    IN  /\ children' = list
        /\ numbersFetched' = TRUE
        /\ syncState' = now
        /\ cachedFlags' = [u \in 0 .. MaxUid |->
                             IF u \in removed THEN 0 ELSE cachedFlags[u]]
        /\ IF fetchStatus = "DONE" THEN SaveSyncStateAndUids(list, now)
           ELSE UNCHANGED <<cachedSync, cachedUids>>
        /\ UNCHANGED fetchStatus

\* What a FETCH is refused for, "none" if it is not.
FetchRefused(r) ==
    IF r.number = 0 \/ r.number > Len(children) THEN "FETCH out of bounds"
    ELSE IF r.uid # 0 /\ children[r.number].uid \notin {0, r.uid} THEN "UID mismatch"
    ELSE "none"

\* Mutant: flags are saved under the UID of the response.
CachesFlagsOfResponse(r, uid, new) == r.uid # 0 /\ new

\* Flags of a message with a known UID are saved at once.
CachesFlags(r, uid, new) == uid # 0 /\ new

\* handleFetchResponse(), then what ObtainSynchronizedMailboxTask::handleFetch()
\* adds to it (obtaining).  The sync state which MODSEQ makes dirty is saved at
\* once, without the UID map, when the list is considered synced.
HandleFetch(r, obtaining) ==
    LET old == children[r.number]
        learnsUid == r.uid # 0 /\ old.uid = 0
        uid == IF learnsUid THEN r.uid ELSE old.uid
        raises == learnsUid /\ syncState.uidNext <= r.uid
        newFlags == ~old.handled \/ old.flags # r.flags
        known == IF raises THEN setUidNext(syncState, r.uid + 1) ELSE syncState
        newer == r.modseq > known.highestModSeq
        now == IF newer THEN setHighestModSeq(known, r.modseq) ELSE known
        state == IF raises THEN "LOADING" ELSE fetchStatus
    IN  /\ children' = [children EXCEPT ![r.number] =
                [uid |-> uid, flags |-> r.flags,
                 handled |-> old.handled \/ numbersFetched]]
        /\ fetchStatus' = state
        /\ syncState' = IF obtaining /\ (learnsUid \/ newFlags) /\ now.uidNext <= uid
                        THEN setUidNext(now, uid + 1) ELSE now
        /\ cachedSync' = IF newer /\ state = "DONE" THEN Reloaded(now) ELSE cachedSync
        /\ cachedFlags' = IF CachesFlags(r, uid, newFlags)
                          THEN [cachedFlags EXCEPT ![uid] = r.flags] ELSE cachedFlags
        /\ UNCHANGED <<numbersFetched, cachedUids>>

=============================================================================
