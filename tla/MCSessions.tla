------------------------------ MODULE MCSessions -------------------------------
(***************************************************************************)
(* MailboxSession for TLC with the capabilities of several servers: which  *)
(* one it is, and what that server announces, is chosen at the beginning.  *)
(***************************************************************************)
EXTENDS Naturals

VARIABLES
    server,     \* which of the sets of constants below holds
    store, uidNext, uidValidity, highestModSeq, gone, mistakes, selected, started,
    vanishing, reporting, c2s, s2c, children, fetchStatus, numbersFetched, syncState,
    cachedSync, cachedUids, cachedFlags, phase, newArrivalsFetch, failure, status,
    usingQresync, onlyNew, firstUnknownUidOffset, oldSyncState, flagsCmd,
    performedStateSynces, skippedStateSynces, syncingTimer, losses

CONSTANTS
    MaxUid, maxDelayedResponses, MaxLosses   \* as in MailboxSession

\* No extension; arrivals may be announced while the mailbox is synchronized, and
\* a big UID map is not saved with every change.
Plain == INSTANCE MailboxSession WITH
    Capabilities <- {}, WhileSyncing <- {"EXISTS"},
    WhileArriving <- {"EXISTS", "EXPUNGE"}, InitialMessages <- {1, 2},
    MaxModSeq <- 4, throttlingThreshold <- 1, MaxUidValidity <- 2, MaxMistakes <- 0

\* CONDSTORE; the server is quiet while the mailbox is synchronized.
Condstore == INSTANCE MailboxSession WITH
    Capabilities <- {"CONDSTORE"}, WhileSyncing <- {},
    WhileArriving <- {"EXISTS", "EXPUNGE"}, InitialMessages <- {2},
    MaxModSeq <- 4, throttlingThreshold <- 0, MaxUidValidity <- 2, MaxMistakes <- 0

\* QRESYNC; arrivals are announced while the mailbox is synchronized.
Qresync == INSTANCE MailboxSession WITH
    Capabilities <- {"CONDSTORE", "QRESYNC"}, WhileSyncing <- {"EXISTS"},
    WhileArriving <- {"EXISTS", "EXPUNGE", "FLAGS"}, InitialMessages <- {2},
    MaxModSeq <- 5, throttlingThreshold <- 0, MaxUidValidity <- 2, MaxMistakes <- 0

\* QRESYNC; the server contradicts itself once.
Contradicting == INSTANCE MailboxSession WITH
    Capabilities <- {"CONDSTORE", "QRESYNC"}, WhileSyncing <- {},
    WhileArriving <- {"EXISTS", "EXPUNGE"}, InitialMessages <- {2},
    MaxModSeq <- 3, throttlingThreshold <- 0, MaxUidValidity <- 1, MaxMistakes <- 1

vars == <<server, Plain!vars>>

Init ==
    \/ server = "plain" /\ Plain!Init
    \/ server = "CONDSTORE" /\ Condstore!Init
    \/ server = "QRESYNC" /\ Qresync!Init
    \/ server = "contradicting" /\ Contradicting!Init

PlainStep == server = "plain" /\ Plain!Next /\ UNCHANGED server
CondstoreStep == server = "CONDSTORE" /\ Condstore!Next /\ UNCHANGED server
QresyncStep == server = "QRESYNC" /\ Qresync!Next /\ UNCHANGED server
ContradictingStep == server = "contradicting" /\ Contradicting!Next /\ UNCHANGED server

Next == PlainStep \/ CondstoreStep \/ QresyncStep \/ ContradictingStep

Spec == Init /\ [][Next]_vars

-----------------------------------------------------------------------------
(***************************************************************************)
(* The properties of MailboxSession, each for the servers with which the   *)
(* code keeps it.                                                          *)
(***************************************************************************)

\* With every server, even one that contradicts itself: an open mailbox at rest lists
\* the messages of the mailbox in their order, however its list was built
\* (fullMboxSync, syncNoNewNoDeletions, syncOnlyAdditions, VANISHED, UID SEARCH).
SyncedUids == Plain!SyncedUids

\* With every server: at rest the flags shown are those of the mailbox, those taken from
\* the cache and those skipped by a search for what has changed included (syncFlags).
SyncedFlags == Plain!SyncedFlags

\* What the cache promises it has. No UID map with an unknown UID is saved; with
\* CONDSTORE a map as long as the saved EXISTS, which the next session will trust, has
\* every message of the mailbox below the saved UIDNEXT; and with a server that numbers
\* changes, flags which the saved HIGHESTMODSEQ promises are those the mailbox had then
\* or has got since (saveSyncStateAndUids, saveSyncStateNowOrLater, finalizeFetch,
\* slotFlags).
CacheIsSound ==
    /\ Plain!SavedUidsKnown
    /\ server = "CONDSTORE" => Plain!CachedMapSound
    /\ server \in {"CONDSTORE", "QRESYNC"} => Plain!CachedFlagsSound

\* With a server without extensions, whatever the order of its responses: no handler
\* throws (UnexpectedResponseReceived) or fails an assertion.
NothingFails == server = "plain" => Plain!NothingThrown /\ Plain!NothingAsserted

=============================================================================
