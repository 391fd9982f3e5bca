----------------------------- MODULE MailboxSession ----------------------------
(***************************************************************************)
(* One mailbox over several connections: the server and other clients      *)
(* change it, ObtainSynchronizedMailboxTask synchronizes it,               *)
(* KeepMailboxOpenTask follows it, the connection or the process is lost   *)
(* at any moment, and the next session starts from what the cache holds.   *)
(***************************************************************************)
EXTENDS KeepOpen

CONSTANT MaxLosses   \* bound on the lost connections
ASSUME LossesAssumption == MaxLosses \in Nat

VARIABLE losses

vars == <<serverVars, wireVars, treeVars, cacheVars, phase, newArrivalsFetch,
          failure, taskVars, throttleVars, losses>>

-----------------------------------------------------------------------------
\* Every variable has its type: the numbers which the code keeps in unsigned
\* integers never pass below 0, UIDs of the list and of the cache are in range.
TypeOK ==
    /\ ServerTypeOK /\ WireTypeOK /\ TreeTypeOK /\ CacheTypeOK
    /\ TaskTypeOK /\ ThrottleTypeOK
    /\ losses \in 0 .. MaxLosses

\* The mailbox has its first messages; the cache knows nothing, or it was left
\* behind by a session which had seen all of them.
Init ==
    /\ \E n \in InitialMessages :
        /\ store = [i \in 1 .. n |-> [uid |-> i, added |-> 1, modseq |-> 1]]
        /\ uidNext = n + 1
        /\ uidValidity = 1
        /\ highestModSeq = 1
        /\ gone = [u \in Uid |-> 0]
        /\ \/ /\ cachedSync = NoSyncState
              /\ cachedUids = <<>>
              /\ cachedFlags = NoFlags
           \/ /\ cachedSync = [exists |-> n, uidNext |-> n + 1, uidValidity |-> 1,
                               highestModSeq |-> IF Capabilities = {} THEN 0 ELSE 1,
                               has |-> Fields]
              /\ cachedUids = [i \in 1 .. n |-> i]
              /\ cachedFlags = [u \in 0 .. MaxUid |-> IF u \in 1 .. n THEN 1 ELSE 0]
    /\ selected = FALSE /\ started = FALSE
    /\ vanishing = {} /\ reporting = {}
    /\ c2s = <<>> /\ s2c = <<>>
    /\ children = <<>> /\ fetchStatus = "LOADING" /\ numbersFetched = FALSE
    /\ syncState = NoSyncState
    /\ phase = "offline" /\ newArrivalsFetch = 0 /\ failure = "none"
    /\ status = "WAIT_FOR_CONN" /\ usingQresync = FALSE /\ onlyNew = FALSE
    /\ firstUnknownUidOffset = 0 /\ oldSyncState = NoSyncState /\ flagsCmd = FALSE
    /\ performedStateSynces = 0 /\ skippedStateSynces = 0 /\ syncingTimer = FALSE
    /\ losses = 0 /\ mistakes = 0

-----------------------------------------------------------------------------
clientVars == <<treeVars, cacheVars, phase, newArrivalsFetch, failure, taskVars,
                throttleVars, losses>>

\* What may be announced now.
ArrivalsUnknown ==
    \/ newArrivalsFetch > 0
    \/ \E i \in 1 .. Len(s2c) : s2c[i].type = "EXISTS"

Announced ==
    IF phase # "open" THEN WhileSyncing
    ELSE IF ArrivalsUnknown THEN WhileArriving
    ELSE {"EXISTS", "EXPUNGE", "FLAGS"}

OtherClients ==
    /\ \/ Deliver(Announced) \/ Expunge(Announced) \/ SetFlags(Announced)
       \/ Recreate \/ Mistake
    /\ UNCHANGED clientVars

ServerStep == Execute /\ UNCHANGED clientVars

\* A new KeepMailboxOpenTask comes with each ObtainSynchronizedMailboxTask.
ResetThrottle ==
    performedStateSynces' = 0 /\ skippedStateSynces' = 0 /\ syncingTimer' = FALSE

OpenMailbox == Perform /\ ResetThrottle /\ UNCHANGED losses

ObtainStep == Obtain /\ UNCHANGED <<throttleVars, losses>>

KeepStep ==
    /\ \/ Keep
       \/ KeepRefuses /\ ResetThrottle
    /\ UNCHANGED losses

SyncingTimeout == syncingTimeout /\ UNCHANGED losses

NoopTimeout == PerformNoop /\ UNCHANGED losses

\* The connection or the program dies, without a word to anybody.
LoseConnection ==
    /\ phase # "offline" /\ losses < MaxLosses
    /\ GoOffline
    /\ ResetThrottle
    /\ losses' = losses + 1
    /\ UNCHANGED <<cacheVars, failure>>

Next ==
    \/ OtherClients \/ ServerStep
    \/ OpenMailbox \/ ObtainStep \/ KeepStep
    \/ SyncingTimeout \/ NoopTimeout
    \/ LoseConnection

Spec == Init /\ [][Next]_vars

\* The server answers, and the event loop of the program delivers what has
\* arrived and fires the timers which are due.
Fairness ==
    /\ WF_vars(ServerStep)
    /\ WF_vars(ObtainStep) /\ WF_vars(KeepStep)
    /\ WF_vars(SyncingTimeout) /\ WF_vars(NoopTimeout)

FairSpec == Spec /\ Fairness

-----------------------------------------------------------------------------
(* What synchronizing promises.                                             *)

StoreUids == [i \in 1 .. Len(store) |-> store[i].uid]

\* Nothing is on its way and nobody has anything left to do.
Quiet == phase = "open" /\ c2s = <<>> /\ s2c = <<>> /\ newArrivalsFetch = 0

\* Whichever way ObtainSynchronizedMailboxTask has chosen, and whatever the
\* sessions before it left in the cache, the messages of an open mailbox are those
\* of the server, in their order, as soon as nothing is on its way.
SyncedUids == Quiet => UidsOf(children) = StoreUids

\* Their flags are those of the server, too, although flags that did not change
\* since the remembered HIGHESTMODSEQ are never asked for
\* (ObtainSynchronizedMailboxTask::syncFlags(), QRESYNC).
SyncedFlags ==
    Quiet => \A i \in 1 .. Len(children) : children[i].flags = store[i].modseq

\* EXISTS of the sync state, which EXPUNGE decrements in three places and EXISTS
\* and VANISHED set, is the number of messages whenever KeepMailboxOpenTask runs.
ExistsMatchesList == phase = "open" => syncState.exists = Len(children)

-----------------------------------------------------------------------------
(* Why the number is right: what is on the wire while the mailbox is being  *)
(* synchronized.  IInv is inductive.                                        *)

Carried(type) == \E i \in 1 .. Len(s2c) : s2c[i].type = type
OkAt(i, name) == s2c[i].type = "OK" /\ s2c[i].name = name

Selecting == phase = "obtaining" /\ status = "SELECTING"
Searching == phase = "obtaining" /\ status = "SYNCING_UIDS"

OfflineIsSilent == phase = "offline" => c2s = <<>> /\ s2c = <<>> /\ ~started /\ ~selected

\* SELECT is the only command while its answer is awaited, and is not sent again.
SelectIsAlone ==
    /\ Selecting =>
        /\ Len(c2s) <= 1 /\ ~Carried("SEARCH")
        /\ \A i \in 1 .. Len(c2s) : c2s[i].name = "SELECT"
        /\ \A i \in 1 .. Len(s2c) : s2c[i].type = "OK" =>
            /\ s2c[i].name = "SELECT" /\ c2s = <<>>
            /\ \A j \in 1 .. Len(s2c) : s2c[j].type = "OK" => j = i
    /\ ~Selecting =>
        /\ \A i \in 1 .. Len(c2s) : c2s[i].name # "SELECT"
        /\ \A i \in 1 .. Len(s2c) : ~OkAt(i, "SELECT")

\* The server reports nothing before it has executed SELECT, and only what it has.
ReportsWhatItHas ==
    /\ started => selected /\ c2s # <<>>
    /\ ~selected => /\ reporting = {}
                    /\ phase = "offline" \/ (Selecting /\ ~Carried("OK"))
    /\ reporting \subseteq StoredUids

\* The tagged OK of UID SEARCH comes after the result.
SearchBeforeOk ==
    Searching =>
        /\ \A i \in 1 .. Len(s2c) : OkAt(i, "UID SEARCH") =>
            \E j \in 1 .. i - 1 : s2c[j].type = "SEARCH"
        /\ (started /\ Head(c2s).name = "UID SEARCH") => Carried("SEARCH")

\* EXISTS is kept equal to the number of messages as soon as the UIDs are known.
ExistsKept ==
    /\ phase = "obtaining" => status # "WAIT_FOR_CONN"
    /\ flagsCmd => phase = "obtaining" /\ status \in {"SYNCING_FLAGS", "DONE"}
    /\ (phase = "obtaining" /\ status \in {"SYNCING_FLAGS", "DONE"})
            => syncState.exists = Len(children)
    /\ ~onlyNew => firstUnknownUidOffset = 0

\* What every step of a session preserves: while a mailbox is synchronized the
\* answers come in the order of the commands, and EXISTS is right from the moment
\* the UIDs are known.
WireInv == OfflineIsSilent /\ SelectIsAlone /\ ReportsWhatItHas /\ SearchBeforeOk

IInv == TypeOK /\ WireInv /\ ExistsKept /\ ExistsMatchesList

-----------------------------------------------------------------------------
(* What the cache promises to the next session, whenever this one is lost.  *)

\* "There cannot ever be any 0 UIDs in the saved UID mapping" (the comment at
\* TreeItemMailbox::saveSyncStateAndUids()).
SavedUidsKnown == \A i \in 1 .. Len(cachedUids) : cachedUids[i] # 0

\* When the saved map has as many UIDs as the saved EXISTS says, the next session
\* will trust it.  It then has every message below the saved UIDNEXT.
CachedMapSound ==
    (Len(cachedUids) = cachedSync.exists /\ cachedSync.uidValidity = uidValidity) =>
        \A i \in 1 .. Len(store) : store[i].uid < cachedSync.uidNext =>
            \E j \in 1 .. Len(cachedUids) : cachedUids[j] = store[i].uid

\* A message that did not change after the saved HIGHESTMODSEQ has its flags in the
\* cache: the next session will not ask for them.
CachedFlagsSound ==
    cachedSync.uidValidity = uidValidity =>
        \A i \in 1 .. Len(store), j \in 1 .. Len(cachedUids) :
            (/\ store[i].uid = cachedUids[j]
             /\ store[i].modseq <= cachedSync.highestModSeq)
                => cachedFlags[cachedUids[j]] = store[i].modseq

\* The saved UIDNEXT of a mailbox never goes back: a lower one would make the next
\* session take old messages for arrivals.
SavedUidNextGrows ==
    [][cachedSync'.uidValidity = cachedSync.uidValidity =>
        cachedSync'.uidNext >= cachedSync.uidNext]_cachedSync

-----------------------------------------------------------------------------
(* Exceptions and assertions.  A server that follows the protocol cannot    *)
(* make a handler throw, which costs the session and all of the tree.       *)

NothingThrown == failure \notin Thrown

\* The Q_ASSERTs of ObtainSynchronizedMailboxTask hold.
NothingAsserted == failure \notin Asserted

-----------------------------------------------------------------------------
(* What must happen at last.                                                *)

\* A mailbox that is being synchronized is opened and comes to show what the server
\* has, again after every change, or the session ends.
FollowsMailbox ==
    (phase # "offline")
        ~> (phase = "offline" \/ (phase = "open" /\ UidsOf(children) = StoreUids))

\* The UIDs of an open mailbox come to be those of the cache, despite
\* throttling and even when the last save found an arrival without a UID.
EventuallySaved ==
    (phase = "open" /\ cachedUids # UidsOf(children))
        ~> (phase # "open" \/ cachedUids = UidsOf(children))

=============================================================================
