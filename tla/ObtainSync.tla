------------------------------- MODULE ObtainSync ------------------------------
(***************************************************************************)
(* ObtainSynchronizedMailboxTask                                           *)
(* (src/Imap/Tasks/ObtainSynchronizedMailboxTask.cpp): it selects the      *)
(* mailbox and, from what the cache remembers and what the server reports, *)
(* makes the list of messages equal to the mailbox with as few commands as *)
(* it dares.  Everything the server says meanwhile goes through it.        *)
(***************************************************************************)
EXTENDS MailboxClient

VARIABLES
    status,         \* MailboxSyncingProgress
    usingQresync,   \* m_usingQresync
    onlyNew,        \* uidSyncingMode is UID_SYNC_ONLY_NEW
    firstUnknownUidOffset,
    oldSyncState,
    flagsCmd        \* the FETCH of flags is pending

taskVars == <<status, usingQresync, onlyNew, firstUnknownUidOffset,
              oldSyncState, flagsCmd>>

Status == {"WAIT_FOR_CONN", "SELECTING", "SYNCING_UIDS", "SYNCING_FLAGS", "DONE"}

TaskTypeOK ==
    /\ phase \in {"offline", "obtaining", "open"}
    /\ newArrivalsFetch \in Nat
    /\ failure \in Failure
    /\ status \in Status
    /\ usingQresync \in BOOLEAN /\ onlyNew \in BOOLEAN /\ flagsCmd \in BOOLEAN
    /\ firstUnknownUidOffset \in Nat
    /\ oldSyncState \in SyncState

Obtaining(type) == phase = "obtaining" /\ Received(type)

\* A finished task is deleted; its members take one value here so that equal
\* futures are equal states.
ForgetTask ==
    /\ status' = "WAIT_FOR_CONN"
    /\ usingQresync' = FALSE
    /\ onlyNew' = FALSE
    /\ firstUnknownUidOffset' = 0
    /\ oldSyncState' = NoSyncState
    /\ flagsCmd' = FALSE

-----------------------------------------------------------------------------
(* An exception thrown by a handler kills the connection and makes the      *)
(* program go offline; so does a lost connection.  The next time online the *)
(* tree is built anew and only the cache is left.                           *)

GoOffline ==
    /\ phase' = "offline"
    /\ c2s' = <<>> /\ s2c' = <<>>
    /\ selected' = FALSE /\ started' = FALSE
    /\ vanishing' = {} /\ reporting' = {}
    /\ children' = <<>>
    /\ fetchStatus' = "LOADING"
    /\ numbersFetched' = FALSE
    /\ syncState' = NoSyncState
    /\ newArrivalsFetch' = 0
    /\ ForgetTask
    /\ UNCHANGED <<mailboxVars, mistakes>>

Throw(reason) ==
    /\ GoOffline
    /\ failure' = reason
    /\ UNCHANGED cacheVars

-----------------------------------------------------------------------------
(* Model::askForMessagesInMailbox() fills the tree from the cache, perform()*)
(* sends SELECT.                                                            *)

CachedMessage(uid) == [uid |-> uid, flags |-> cachedFlags[uid], handled |-> TRUE]

askForMessagesInMailbox ==
    /\ children' = IF isUsableForSyncing(cachedSync)
                   THEN [i \in 1 .. Len(cachedUids) |-> CachedMessage(cachedUids[i])]
                   ELSE <<>>
    /\ numbersFetched' = isUsableForSyncing(cachedSync)

Perform ==
    /\ phase = "offline"
    /\ phase' = "obtaining"
    /\ askForMessagesInMailbox
    /\ fetchStatus' = "LOADING"
    /\ syncState' = NoSyncState
    /\ oldSyncState' = cachedSync
    /\ status' = "SELECTING"
    /\ usingQresync' = (Qresync /\ isUsableForCondstore(cachedSync))
    /\ Send(IF Qresync /\ isUsableForCondstore(cachedSync)
            THEN Select(cachedSync.uidValidity, cachedSync.highestModSeq)
            ELSE Select(0, 0))
    /\ failure' = "none"
    /\ UNCHANGED <<serverVars, s2c, cacheVars, newArrivalsFetch, onlyNew,
                   firstUnknownUidOffset, flagsCmd>>

-----------------------------------------------------------------------------
(* The ways of synchronizing.  list and ss are the messages and the sync    *)
(* state at that moment, old is the remembered sync state.                  *)

\* saveSyncStateAndUids() and _completed(): KeepMailboxOpenTask takes over.
Complete(list, ss) ==
    /\ SaveSyncStateAndUids(list, ss)
    /\ fetchStatus' = "DONE"
    /\ phase' = "open"
    /\ ForgetTask

\* UID SEARCH from the lowest UID of interest; offset rows are known already.
syncUids(from, only, offset, old) ==
    /\ status' = "SYNCING_UIDS"
    /\ Send(UidSearch(from))
    /\ numbersFetched' = FALSE
    /\ onlyNew' = only
    /\ firstUnknownUidOffset' = offset
    /\ oldSyncState' = old
    /\ UNCHANGED <<phase, flagsCmd, fetchStatus>>

\* Everything anew, after clearAllMessages() if forget, and with QRESYNC given up
\* or not.  An empty mailbox is finished at once.
fullMboxSync(ss, old, forget, qresync) ==
    /\ children' = Fresh(ss.exists)
    /\ syncState' = ss
    /\ cachedFlags' = IF forget THEN NoFlags ELSE cachedFlags
    /\ IF ss.exists > 0
       THEN /\ syncUids(0, FALSE, 0, old)
            /\ usingQresync' = qresync
            /\ cachedUids' = IF forget THEN <<>> ELSE cachedUids
            /\ UNCHANGED cachedSync
       ELSE /\ Complete(<<>>, ss)
            /\ numbersFetched' = TRUE
            /\ UNCHANGED c2s
    /\ UNCHANGED <<newArrivalsFetch, failure>>

\* The flags: nothing to ask for, those changed since the last time, or all.
\* status0 is the fetch status of the list so far.
CanUseModSeq(ss, old) ==
    /\ Capabilities # {}
    /\ old.highestModSeq > 0
    /\ isUsableForCondstore(ss)
    /\ old.uidValidity = ss.uidValidity

\* Mutant: mod-sequences are not compared at all.
NoFlagChangesByCount(ss, old) ==
    CanUseModSeq(ss, old) /\ old.exists = ss.exists /\ old.uidNext = ss.uidNext

NoFlagChanges(ss, old) ==
    /\ CanUseModSeq(ss, old)
    /\ old.highestModSeq = ss.highestModSeq
    /\ old.exists <= ss.exists
    /\ old.uidNext = ss.uidNext

syncFlags(list, status0, ss, old) ==
    IF NoFlagChanges(ss, old) /\ newArrivalsFetch = 0
    THEN /\ Complete(list, ss)
         /\ UNCHANGED <<c2s, numbersFetched>>
    ELSE /\ status' = IF NoFlagChanges(ss, old) THEN "DONE" ELSE "SYNCING_FLAGS"
         /\ flagsCmd' = TRUE
         /\ Send(Fetch(ss.exists,
                       IF CanUseModSeq(ss, old) /\ old.highestModSeq < ss.highestModSeq
                       THEN old.highestModSeq ELSE 0))
         /\ numbersFetched' = FALSE
         /\ fetchStatus' = status0
         /\ oldSyncState' = old
         /\ UNCHANGED <<phase, cachedSync, cachedUids, usingQresync, onlyNew,
                        firstUnknownUidOffset>>

-----------------------------------------------------------------------------
(* The tagged OK of SELECT: finalizeSelect() chooses a way.                 *)

SelectArrived == Obtaining("OK") /\ Head(s2c).name = "SELECT"

SelectOk ==
    /\ SelectArrived
    /\ Consume
    /\ UNCHANGED serverVars

MapMatches == Len(cachedUids) = cachedSync.exists

SameIncarnation ==
    /\ isUsableForSyncing(syncState) /\ isUsableForSyncing(cachedSync)
    /\ syncState.uidValidity = cachedSync.uidValidity

QresyncUsable ==
    /\ MapMatches /\ SameIncarnation
    /\ usingQresync
    /\ isUsableForCondstore(cachedSync) /\ isUsableForCondstore(syncState)

\* The numbers of the server contradict each other.
QresyncContradiction ==
    \/ cachedSync.highestModSeq > syncState.highestModSeq
    \/ Len(children) # syncState.exists
    \/ /\ cachedSync.highestModSeq = syncState.highestModSeq
       /\ \/ cachedSync.exists # syncState.exists
          \/ cachedSync.uidNext # syncState.uidNext

\* The incremental ways without QRESYNC; exists is not 0.
Incremental ==
    /\ MapMatches /\ SameIncarnation /\ ~QresyncUsable
    /\ syncState.exists > 0

FinalizeInconsistentCache ==
    /\ SelectOk /\ ~MapMatches
    /\ fullMboxSync(syncState, setHighestModSeq(cachedSync, 0), FALSE, usingQresync)

FinalizeQresyncContradiction ==
    /\ SelectOk /\ QresyncUsable /\ QresyncContradiction
    /\ fullMboxSync(setHighestModSeq(syncState, 0), cachedSync, TRUE, FALSE)

UidsMissing ==
    /\ cachedSync.uidNext < syncState.uidNext
    /\ \E i \in 1 .. Len(children) : children[i].uid = 0

\* VANISHED and FETCH have brought the list up to date; only the UIDs of new
\* messages may be missing.
FinalizeQresync ==
    /\ SelectOk /\ QresyncUsable /\ ~QresyncContradiction
    /\ IF UidsMissing
       THEN /\ RequestArrivals(Larger(cachedSync.uidNext, 1))
            /\ status' = "DONE"
            /\ fetchStatus' = "DONE"
            /\ oldSyncState' = cachedSync
            /\ UNCHANGED <<children, numbersFetched, cachedSync, cachedUids, phase,
                           usingQresync, onlyNew, firstUnknownUidOffset, flagsCmd>>
       ELSE /\ children' = AllHandled(children)
            /\ numbersFetched' = TRUE
            /\ Complete(children, syncState)
            /\ UNCHANGED <<c2s, newArrivalsFetch>>
    /\ UNCHANGED <<syncState, cachedFlags, failure>>

FinalizeEmptyMailbox ==
    /\ SelectOk /\ MapMatches /\ SameIncarnation /\ ~QresyncUsable
    /\ syncState.exists = 0
    /\ fullMboxSync(syncState, cachedSync, FALSE, usingQresync)

\* Nothing arrived and nothing was deleted: the remembered UIDs are still right.
syncNoNewNoDeletions ==
    LET list == IF children # <<>> THEN children
                ELSE [i \in 1 .. syncState.exists |->
                         [NewMessage EXCEPT !.uid = cachedUids[i]]]
    IN  /\ children' = list
        /\ syncFlags(list, "DONE", syncState, cachedSync)
        /\ failure' = IF \E i \in 1 .. Len(children) : children[i].uid = 0
                      THEN "message without UID" ELSE failure

FinalizeNoNewNoDeletions ==
    /\ SelectArrived /\ Incremental
    /\ syncState.uidNext = cachedSync.uidNext
    /\ syncState.exists = cachedSync.exists
    /\ IF children # <<>> /\ Len(children) # syncState.exists
       THEN Throw("child count mismatch")
       ELSE /\ Consume
            /\ syncNoNewNoDeletions
            /\ UNCHANGED <<serverVars, syncState, cachedFlags, newArrivalsFetch>>

\* Mutant: UIDNEXT is left out of the comparison.
OnlyAdditionsByCount == syncState.exists > cachedSync.exists

OnlyAdditions ==
    syncState.uidNext - cachedSync.uidNext = syncState.exists - cachedSync.exists

FinalizeOnlyAdditions ==
    /\ SelectOk /\ Incremental
    /\ syncState.uidNext > cachedSync.uidNext
    /\ OnlyAdditions
    /\ syncUids(cachedSync.uidNext, TRUE, cachedSync.exists, cachedSync)
    /\ UNCHANGED <<children, syncState, cacheVars, usingQresync, failure,
                   newArrivalsFetch>>

FinalizeGeneric ==
    /\ SelectOk
    /\ \/ /\ Incremental
          /\ syncState.uidNext >= cachedSync.uidNext
          /\ ~OnlyAdditions
       \/ /\ MapMatches /\ ~SameIncarnation
          /\ isUsableForSyncingWithoutUidNext(cachedSync)
          /\ isUsableForSyncingWithoutUidNext(syncState)
          /\ cachedSync.uidValidity = syncState.uidValidity
    /\ syncUids(0, FALSE, 0, cachedSync)
    /\ UNCHANGED <<children, syncState, cacheVars, usingQresync, failure,
                   newArrivalsFetch>>

\* UIDNEXT went down, or the cache is about another incarnation of the mailbox,
\* or there is nothing in it.
FinalizeFromScratch ==
    /\ SelectOk /\ MapMatches
    /\ \/ Incremental /\ syncState.uidNext < cachedSync.uidNext
       \/ /\ ~SameIncarnation
          /\ \/ ~isUsableForSyncingWithoutUidNext(cachedSync)
             \/ ~isUsableForSyncingWithoutUidNext(syncState)
             \/ cachedSync.uidValidity # syncState.uidValidity
    /\ fullMboxSync(syncState, cachedSync, TRUE, usingQresync)

FinalizeSelect ==
    \/ FinalizeInconsistentCache \/ FinalizeQresyncContradiction
    \/ FinalizeQresync \/ FinalizeEmptyMailbox \/ FinalizeNoNewNoDeletions
    \/ FinalizeOnlyAdditions \/ FinalizeGeneric \/ FinalizeFromScratch

-----------------------------------------------------------------------------
(* The other responses.                                                     *)

\* UIDVALIDITY, UIDNEXT and HIGHESTMODSEQ; without CONDSTORE there is none, which
\* is as good as NOMODSEQ.
HandleCodes ==
    /\ Obtaining("CODES") /\ Consume
    /\ syncState' = setHighestModSeq(
            setUidNext(setUidValidity(syncState, Head(s2c).uidValidity),
                       Head(s2c).uidNext),
            Head(s2c).modseq)
    /\ usingQresync' = (usingQresync /\ Head(s2c).modseq > 0)
    /\ UNCHANGED <<serverVars, c2s, children, fetchStatus, numbersFetched, cacheVars,
                   phase, newArrivalsFetch, failure, status, onlyNew,
                   firstUnknownUidOffset, oldSyncState, flagsCmd>>

\* While SELECT is in progress the number is only remembered, but QRESYNC needs
\* rows for the messages it will talk about.
ExistsWhileSelecting ==
    /\ Obtaining("EXISTS") /\ status = "SELECTING" /\ Consume
    /\ syncState' = setExists(syncState, Head(s2c).number)
    /\ children' = IF usingQresync THEN PadTo(children, Head(s2c).number) ELSE children
    /\ UNCHANGED <<serverVars, c2s, fetchStatus, numbersFetched, cacheVars, phase,
                   newArrivalsFetch, failure, taskVars>>

ExistsWhileSyncing ==
    LET n == Head(s2c).number
        now == updateHighestKnownUid(setExists(syncState, n), children)
        asksForUids == status \in {"SYNCING_FLAGS", "DONE"} /\ n > Len(children)
    IN  /\ Obtaining("EXISTS") /\ status # "SELECTING"
        /\ ~ExistsTooLow(n)
        /\ Consume
        /\ HandleExists(n)
        /\ syncState' = IF status = "SYNCING_UIDS" \/ asksForUids THEN now ELSE syncState
        /\ IF asksForUids
           THEN RequestArrivals(Larger(now.uidNext, 1))
           ELSE UNCHANGED <<c2s, newArrivalsFetch>>
        /\ UNCHANGED <<serverVars, numbersFetched, cacheVars, phase, failure, taskVars>>

ExistsRefused ==
    /\ Obtaining("EXISTS") /\ status # "SELECTING"
    /\ ExistsTooLow(Head(s2c).number)
    /\ Throw("EXISTS decreased")

\* Mutant: an EXPUNGE while the flags are synchronized is left to UID SEARCH.
RowIsKnownLater(n) == status = "DONE" \/ n <= firstUnknownUidOffset

\* The UIDs are known, so the row goes at once; when only an arrival is still
\* being asked for (DONE), the rest is saved at once, too.
RowIsKnown(n) ==
    status \in {"SYNCING_FLAGS", "DONE"} \/ n <= firstUnknownUidOffset

ObtainExpunge ==
    LET n == Head(s2c).number
        now == IF syncState.exists > 0 THEN setExists(syncState, syncState.exists - 1)
               ELSE syncState
    IN  /\ Obtaining("EXPUNGE")
        /\ RowIsKnown(n) => ~ExpungeOutOfBounds(n)
        /\ Consume
        /\ IF RowIsKnown(n) THEN HandleExpunge(n)
           ELSE UNCHANGED <<children, numbersFetched, cachedFlags>>
        /\ syncState' = now
        /\ firstUnknownUidOffset' = IF status = "SYNCING_UIDS" /\ RowIsKnown(n)
                THEN firstUnknownUidOffset - 1 ELSE firstUnknownUidOffset
        /\ IF status = "DONE"
           THEN /\ SaveSyncStateAndUids(ListWithoutRow(n), now)
                /\ fetchStatus' = "DONE"
           ELSE UNCHANGED <<cachedSync, cachedUids, fetchStatus>>
        /\ UNCHANGED <<serverVars, c2s, phase, newArrivalsFetch, failure, status,
                       usingQresync, onlyNew, oldSyncState, flagsCmd>>

ObtainExpungeRefused ==
    /\ Obtaining("EXPUNGE")
    /\ RowIsKnown(Head(s2c).number) /\ ExpungeOutOfBounds(Head(s2c).number)
    /\ Throw("EXPUNGE out of bounds")

ObtainVanished ==
    /\ Obtaining("VANISHED") /\ Consume
    /\ HandleVanished(Head(s2c).uids, Head(s2c).earlier)
    /\ UNCHANGED <<serverVars, c2s, phase, newArrivalsFetch, failure, taskVars>>

ObtainFetch ==
    /\ Obtaining("FETCH") /\ FetchRefused(Head(s2c)) = "none" /\ Consume
    /\ HandleFetch(Head(s2c), TRUE)
    /\ UNCHANGED <<serverVars, c2s, phase, newArrivalsFetch, failure, taskVars>>

\* RECENT is a number for the user interface.
ObtainRecent ==
    /\ Obtaining("RECENT") /\ Consume
    /\ UNCHANGED <<serverVars, c2s, treeVars, cacheVars, phase, newArrivalsFetch,
                   failure, taskVars>>

ObtainFetchRefused ==
    /\ Obtaining("FETCH") /\ FetchRefused(Head(s2c)) # "none"
    /\ Throw(FetchRefused(Head(s2c)))

-----------------------------------------------------------------------------
(* UID SEARCH and the commands after it.                                    *)

SearchCountWrong ==
    Len(Head(s2c).uids)
        # syncState.exists - (IF onlyNew THEN firstUnknownUidOffset ELSE 0)

\* applyUids() asserts that there are as many rows as it is told to skip.
RowsMissing == firstUnknownUidOffset > Len(children)

\* finalizeSearch() asserts that there are as many messages as are known already.
FewerThanKnown == onlyNew /\ syncState.exists < firstUnknownUidOffset

finalizeSearch ==
    LET uids == Head(s2c).uids
        list == applyUids(children, firstUnknownUidOffset, uids)
    IN  /\ Obtaining("SEARCH") /\ ~SearchCountWrong /\ ~RowsMissing /\ Consume
        /\ children' = list
        /\ cachedFlags' = [u \in 0 .. MaxUid |->
                IF u \in ClearedByApplyUids(children, firstUnknownUidOffset, uids)
                THEN 0 ELSE cachedFlags[u]]
        /\ syncState' = updateHighestKnownUid(syncState, list)
        /\ fetchStatus' = "DONE"
        /\ status' = "SYNCING_FLAGS"
        /\ UNCHANGED <<serverVars, c2s, numbersFetched, cachedSync, cachedUids, phase,
                       newArrivalsFetch, failure, usingQresync, onlyNew,
                       firstUnknownUidOffset, oldSyncState, flagsCmd>>

SearchRefused ==
    /\ Obtaining("SEARCH")
    /\ SearchCountWrong \/ RowsMissing
    /\ Throw(IF FewerThanKnown THEN "fewer messages than known"
             ELSE IF SearchCountWrong THEN "UID count mismatch"
             ELSE "row out of bounds")

AssertSyncingFlags ==
    failure' = IF status = "SYNCING_FLAGS" THEN failure
               ELSE "status is not STATE_SYNCING_FLAGS"

UidSearchOk ==
    /\ Obtaining("OK") /\ Head(s2c).name = "UID SEARCH" /\ Consume
    /\ AssertSyncingFlags
    /\ syncFlags(children, fetchStatus, syncState, oldSyncState)
    /\ UNCHANGED <<serverVars, children, syncState, cachedFlags, newArrivalsFetch>>

FlagsOk ==
    /\ Obtaining("OK") /\ Head(s2c).name = "FETCH" /\ flagsCmd /\ Consume
    /\ AssertSyncingFlags
    /\ children' = AllHandled(children)
    /\ numbersFetched' = TRUE
    /\ IF newArrivalsFetch = 0
       THEN Complete(children, syncState)
       ELSE /\ status' = "DONE"
            /\ flagsCmd' = FALSE
            /\ UNCHANGED <<fetchStatus, cachedSync, cachedUids, phase, usingQresync,
                           onlyNew, firstUnknownUidOffset, oldSyncState>>
    /\ UNCHANGED <<serverVars, c2s, syncState, cachedFlags, newArrivalsFetch>>

ObtainArrivalsOk ==
    /\ Obtaining("OK") /\ Head(s2c).name = "UID FETCH" /\ newArrivalsFetch > 0
    /\ Consume
    /\ newArrivalsFetch' = newArrivalsFetch - 1
    /\ IF newArrivalsFetch = 1 /\ status = "DONE" /\ ~flagsCmd
       THEN Complete(children, syncState)
       ELSE UNCHANGED <<fetchStatus, cachedSync, cachedUids, phase, taskVars>>
    /\ UNCHANGED <<serverVars, c2s, children, numbersFetched, syncState, cachedFlags,
                   failure>>

Obtain ==
    \/ FinalizeSelect \/ HandleCodes
    \/ ExistsWhileSelecting \/ ExistsWhileSyncing \/ ExistsRefused
    \/ ObtainExpunge \/ ObtainExpungeRefused \/ ObtainVanished
    \/ ObtainFetch \/ ObtainFetchRefused \/ ObtainRecent
    \/ finalizeSearch \/ SearchRefused
    \/ UidSearchOk \/ FlagsOk \/ ObtainArrivalsOk

=============================================================================
