---------------------------------- MODULE Cache ----------------------------------
(***************************************************************************)
(* The permanent cache of one mailbox over crashes: CombinedCache          *)
(* (src/Imap/Model/CombinedCache.cpp) keeps small things in an SQL         *)
(* database, whose transaction is committed by timers (SQLCache.cpp), and  *)
(* big parts of messages in files (DiskPartCache.cpp).  UIDs say nothing   *)
(* without UIDVALIDITY, which the cache has in its sync state only: what   *)
(* it stores for a UID is here the UIDVALIDITY of the message it came      *)
(* from, 0 for nothing.  The tasks that fill the cache are abstracted to   *)
(* their calls of it and to whether the list of messages is DONE, on which *)
(* saving depends; flags, UIDNEXT and the ways of synchronizing that they  *)
(* decide on are those of MailboxSession.                                  *)
(***************************************************************************)
EXTENDS Naturals, FiniteSets

CONSTANTS
    MaxUid,
    MaxUidValidity,
    delayedCommit,           \* the intervals of the timers: 10 s
    tooMuchTimeWithoutCommit,\* and 60 s
    MaxCrashes

ASSUME CacheAssumption ==
    /\ MaxUid \in Nat /\ MaxUidValidity \in Nat \ {0} /\ MaxCrashes \in Nat
    /\ delayedCommit \in Nat \ {0} /\ tooMuchTimeWithoutCommit \in Nat
    /\ delayedCommit <= tooMuchTimeWithoutCommit

Uid == 1 .. MaxUid

VARIABLES
    server,   \* the mailbox: its UIDVALIDITY, the UIDs in it, the next UID
    sql,      \* the database as the program sees it
    durable,  \* the database as it has been committed
    disk,     \* the files, by UID
    txn,      \* the transaction: whether there is one, what is left of the two
              \* timers, and for how long it has held what would be lost
    client,   \* the mailbox in the tree: whether nothing is known of it, its UIDs or
              \* its "flags" are being synchronized or it is "open"; its UIDs, and
              \* whether the list of them is DONE
    crashes,
    unforgotten  \* history: a session has found the mailbox made anew and has not
                 \* cleared what it has found beside a map which it did not trust
                 \* because the sync state had been saved alone

vars == <<server, sql, durable, disk, txn, client, crashes, unforgotten>>

Nothing == [u \in Uid |-> 0]

\* Mutant: metadata survive.
ForgetParts(db) == [db EXCEPT !.parts = Nothing, !.map = {}, !.alone = FALSE]

\* clearAllMessages() does not touch the sync state.  History: "alone" says that the
\* sync state has been saved since the UID map was, without it.
ForgetMessages(db) ==
    [db EXCEPT !.metadata = Nothing, !.parts = Nothing, !.map = {}, !.alone = FALSE]
ForgetMessage(db, uids) ==
    [db EXCEPT !.metadata = [u \in Uid |-> IF u \in uids THEN 0 ELSE @[u]],
               !.parts = [u \in Uid |-> IF u \in uids THEN 0 ELSE @[u]]]
SyncState(db, validity, exists) ==
    [db EXCEPT !.uidValidity = validity, !.exists = exists, !.alone = TRUE]

\* saveSyncStateAndUids()
SyncStateAndUids(db, validity, uids) ==
    [SyncState(db, validity, Cardinality(uids)) EXCEPT !.map = uids, !.alone = FALSE]

-----------------------------------------------------------------------------
(* SQLCache                                                                 *)
Idle == [open |-> FALSE, delayed |-> delayedCommit, tooMuch |-> tooMuchTimeWithoutCommit,
         age |-> 0]

\* Mutant: each write gives the transaction the whole interval again.
RestartBoth == [txn EXCEPT !.open = TRUE, !.delayed = delayedCommit,
                           !.tooMuch = tooMuchTimeWithoutCommit]

touchingDB == [txn EXCEPT !.open = TRUE, !.delayed = delayedCommit]

Write(db) == sql' = db /\ txn' = touchingDB /\ UNCHANGED <<durable, crashes>>

\* The timers of an idle database fire in vain.
Tick ==
    /\ txn.open /\ txn.delayed > 0 /\ txn.tooMuch > 0
    /\ txn' = [txn EXCEPT !.delayed = @ - 1, !.tooMuch = @ - 1, !.age = @ + 1]
    /\ UNCHANGED <<server, sql, durable, disk, client, crashes, unforgotten>>

timeToCommit ==
    /\ txn.open /\ (txn.delayed = 0 \/ txn.tooMuch = 0)
    /\ durable' = sql /\ txn' = Idle
    /\ UNCHANGED <<server, sql, disk, client, crashes, unforgotten>>

\* CombinedCache::messagePart() looks into the database first.
messagePart(u) == IF sql.parts[u] # 0 THEN sql.parts[u] ELSE disk[u]

\* Parts of at least 1 MiB are files: of all the messages those of odd numbers.
IsBig(validity, u) == (validity + u) % 2 = 1

-----------------------------------------------------------------------------
Offline == [phase |-> "offline", full |-> FALSE, list |-> "LOADING", uids |-> {}]

Init ==
    /\ server = [uidValidity |-> 1, uids |-> {}, uidNext |-> 1]
    /\ sql = [uidValidity |-> 0, exists |-> 0, map |-> {}, alone |-> FALSE,
              metadata |-> Nothing, parts |-> Nothing]
    /\ durable = sql /\ disk = Nothing /\ txn = Idle
    /\ client = Offline /\ crashes = 0 /\ unforgotten = FALSE

(* The server and its other clients.                                        *)
Deliver ==
    /\ server.uidNext <= MaxUid
    /\ server' = [server EXCEPT !.uids = @ \cup {server.uidNext}, !.uidNext = @ + 1]
    /\ UNCHANGED <<sql, durable, disk, txn, client, crashes, unforgotten>>

Remove ==
    /\ \E u \in server.uids : server' = [server EXCEPT !.uids = @ \ {u}]
    /\ UNCHANGED <<sql, durable, disk, txn, client, crashes, unforgotten>>

\* A new UIDVALIDITY; one that is announced while the mailbox is open makes
\* KeepMailboxOpenTask go offline.
Recreate ==
    /\ server.uidValidity < MaxUidValidity
    /\ server' = [uidValidity |-> server.uidValidity + 1, uids |-> {}, uidNext |-> 1]
    /\ client' = Offline
    /\ UNCHANGED <<sql, durable, disk, txn, crashes, unforgotten>>

-----------------------------------------------------------------------------
(* ObtainSynchronizedMailboxTask                                            *)

\* Mutant: the UIDVALIDITY is looked at only when UIDs are known.
TrustsEmptyMap == sql.uidValidity = server.uidValidity \/ sql.map = {}

SameMailbox == sql.uidValidity = server.uidValidity
MapIsConsistent == Cardinality(sql.map) = sql.exists

Opened(uids) == [phase |-> "open", full |-> FALSE, list |-> "DONE", uids |-> uids]

\* finalizeSelect(): cached data which make no sense are not used for the list,
\* which is synchronized from nothing, but they stay where they are.  An empty
\* mailbox is synchronized at once.
finalizeSelect ==
    LET full == ~MapIsConsistent \/ ~SameMailbox
        clears == MapIsConsistent /\ ~SameMailbox
        db == IF clears THEN ForgetMessages(sql) ELSE sql
        done == server.uids = {}
    IN  /\ client.phase = "offline"
        /\ disk' = IF clears THEN Nothing ELSE disk
        /\ client' = IF done THEN Opened({})
                     ELSE [phase |-> "uids", full |-> full, list |-> "LOADING", uids |-> {}]
        /\ IF done THEN Write(SyncStateAndUids(db, server.uidValidity, {}))
           ELSE IF clears THEN Write(db)
           ELSE UNCHANGED <<sql, durable, txn, crashes>>
        /\ unforgotten' = (unforgotten \/ (~MapIsConsistent /\ ~SameMailbox /\ sql.alone))
        /\ UNCHANGED server

\* The UIDs have come, and the list is DONE.  applyUids() forgets a message in whose
\* place there is another one now; it does not forget those which were the last ones.
\* Nothing is saved yet.
UidsApplied ==
    LET replaced == IF client.full THEN {}
                    ELSE {u \in sql.map \ server.uids : \E v \in server.uids : v > u}
    IN  /\ client.phase = "uids"
        /\ client' = [Opened(server.uids) EXCEPT !.phase = "flags"]
        /\ disk' = [u \in Uid |-> IF u \in replaced THEN 0 ELSE disk[u]]
        /\ IF replaced = {} THEN UNCHANGED <<sql, durable, txn, crashes>>
           ELSE Write(ForgetMessage(sql, replaced))
        /\ UNCHANGED <<server, unforgotten>>

\* The flags have come, and the UIDs of those which arrived meanwhile.
FlagsSynced ==
    /\ client.phase = "flags"
    /\ client' = Opened(client.uids)
    /\ Write(SyncStateAndUids(sql, server.uidValidity, client.uids))
    /\ UNCHANGED <<server, disk, unforgotten>>

-----------------------------------------------------------------------------
(* Responses to ObtainSynchronizedMailboxTask and KeepMailboxOpenTask       *)

UidsKnown == client.phase \in {"flags", "open"}

\* EXISTS, and the UIDs that the UID FETCH which follows brings: from EXISTS on the list
\* is LOADING.
Arrive ==
    /\ UidsKnown
    /\ \E u \in server.uids : u \notin client.uids
    /\ client' = [client EXCEPT !.list = "LOADING", !.uids = @ \cup server.uids]
    /\ UNCHANGED <<server, sql, durable, disk, txn, crashes, unforgotten>>

\* The OK of that UID FETCH; while flags are synchronized it saves nothing.
ArrivalsFetched ==
    /\ client.phase = "open" /\ client.list = "LOADING"
    /\ client' = Opened(client.uids)
    /\ Write(SyncStateAndUids(sql, server.uidValidity, client.uids))
    /\ UNCHANGED <<server, disk, unforgotten>>

\* EXPUNGE or VANISHED.  saveSyncStateNowOrLater() puts off saving when there is too much
\* of it and while the list is LOADING.  While flags are synchronized only VANISHED saves,
\* and after the flags, when only UIDs of arrivals are to come, only EXPUNGE.
Expunged ==
    \E u \in client.uids \ server.uids,
       later \in IF client.phase = "flags" \/ client.list = "DONE" THEN BOOLEAN ELSE {TRUE} :
        LET rest == client.uids \ {u}
            db == ForgetMessage(sql, {u})
        IN  /\ UidsKnown
            /\ client' = [client EXCEPT !.uids = rest, !.list = IF later THEN @ ELSE "DONE"]
            /\ Write(IF later THEN db ELSE SyncStateAndUids(db, server.uidValidity, rest))
            /\ disk' = [disk EXCEPT ![u] = 0]
            /\ UNCHANGED <<server, unforgotten>>

\* It comes some time after the last change.
syncingTimeout ==
    /\ client.phase = "open" /\ client.list = "DONE" /\ sql.map # client.uids
    /\ Write(SyncStateAndUids(sql, server.uidValidity, client.uids))
    /\ UNCHANGED <<server, disk, client, unforgotten>>

\* A FETCH with MODSEQ saves the sync state when the list is DONE, "and skips rebuilding
\* the UID map" (TreeItemMailbox::handleFetchResponse()): while flags are synchronized
\* beside that of the session before.
FetchModSeq ==
    /\ UidsKnown /\ client.list = "DONE" /\ client.uids # {}
    /\ Write(SyncState(sql, server.uidValidity, Cardinality(client.uids)))
    /\ UNCHANGED <<server, disk, client, unforgotten>>

-----------------------------------------------------------------------------
(* The tasks which fetch; KeepMailboxOpenTask starts them when all is synchronized *)

\* What is in the cache is never asked for; messages that are still there have it.
\* Which parts a message has is known from its metadata.
FetchMetadata ==
    \E u \in client.uids \cap server.uids :
        /\ client.phase = "open" /\ sql.metadata[u] = 0
        /\ Write([sql EXCEPT !.metadata[u] = server.uidValidity])
        /\ UNCHANGED <<server, disk, client, unforgotten>>

FetchPart ==
    \E u \in client.uids \cap server.uids :
        /\ client.phase = "open" /\ sql.metadata[u] # 0 /\ messagePart(u) = 0
        /\ ~IsBig(server.uidValidity, u)
        /\ Write([sql EXCEPT !.parts[u] = server.uidValidity])
        /\ UNCHANGED <<server, disk, client, unforgotten>>

\* A file is there at once, and it is no part of the transaction.
FetchBigPart ==
    \E u \in client.uids \cap server.uids :
        /\ client.phase = "open" /\ sql.metadata[u] # 0 /\ messagePart(u) = 0
        /\ IsBig(server.uidValidity, u)
        /\ disk' = [disk EXCEPT ![u] = server.uidValidity]
        /\ UNCHANGED <<server, sql, durable, txn, client, crashes, unforgotten>>

-----------------------------------------------------------------------------
(* The end of a session, and of the program                                 *)
LoseConnection ==
    /\ client.phase # "offline"
    /\ client' = Offline
    /\ UNCHANGED <<server, sql, durable, disk, txn, crashes, unforgotten>>

\* The destructor of SQLCache commits.
Quit ==
    /\ durable' = sql /\ txn' = Idle /\ client' = Offline
    /\ durable # sql \/ client # Offline
    /\ UNCHANGED <<server, sql, disk, crashes, unforgotten>>

\* A crash loses the transaction.  A file which was being written may be torn, and
\* one that qUncompress() does not understand is nothing; some of those which were
\* being removed may be gone.
Crash ==
    /\ crashes < MaxCrashes
    /\ crashes' = crashes + 1
    /\ sql' = durable /\ txn' = Idle /\ client' = Offline
    /\ \E lost \in SUBSET Uid : disk' = [u \in Uid |-> IF u \in lost THEN 0 ELSE disk[u]]
    /\ UNCHANGED <<server, durable, unforgotten>>

Next ==
    \/ Deliver \/ Remove \/ Recreate
    \/ Tick \/ timeToCommit
    \/ finalizeSelect \/ UidsApplied \/ FlagsSynced
    \/ Arrive \/ ArrivalsFetched \/ Expunged \/ syncingTimeout \/ FetchModSeq
    \/ FetchMetadata \/ FetchPart \/ FetchBigPart
    \/ LoseConnection \/ Quit \/ Crash

Spec == Init /\ [][Next]_vars

\* A bound: what comes when the properties claim nothing any more is not explored.
StillClaimed == ~unforgotten

-----------------------------------------------------------------------------
(* What the cache promises                                                  *)

\* What an open mailbox shows for a message is of that message and not of one which
\* had the UID before the mailbox was made anew, whatever was lost in crashes.
\* Nobody compares the data with the message when they are used
\* (Model::askForMsgMetadata(), askForMsgPart()).
ShownIsOfThisMailbox ==
    client.phase = "open" =>
        \A u \in client.uids :
            {sql.metadata[u], messagePart(u)} \subseteq {0, server.uidValidity}

\* The same with two exceptions: a file which was written shortly before a crash and
\* outlives the commit that did not come (DiskPartCache::setMsgPart()), and the mailbox
\* made anew beside a sync state that a FETCH had saved alone, which finalizeSelect()
\* does not see.  Whatever else happens, what is in the database is of this mailbox, and
\* without a crash what is in the files, too.
StoredIsOfThisMailbox ==
    client.phase = "open" /\ ~unforgotten =>
        \A u \in client.uids :
            /\ {sql.metadata[u], sql.parts[u]} \subseteq {0, server.uidValidity}
            /\ crashes = 0 => disk[u] \in {0, server.uidValidity}

\* What is committed is one mailbox at any moment, with the second of these exceptions:
\* data of the recorded UIDVALIDITY only, and none at all if the next session would not
\* trust the map, unless a FETCH saved the sync state alone.  So no crash between
\* clearAllMessages() and saveSyncStateAndUids() leaves data which nobody would clear.
CommittedIsOneMailbox ==
    ~unforgotten =>
        /\ \A u \in Uid :
               {durable.metadata[u], durable.parts[u]} \subseteq {0, durable.uidValidity}
        /\ Cardinality(durable.map) # durable.exists /\ ~durable.alone =>
               durable.metadata = Nothing /\ durable.parts = Nothing

\* However often the database is written to, a crash costs no more than the last
\* minute (tooMuchTimeWithoutCommit).
LossIsBounded == sql # durable => txn.open /\ txn.age <= tooMuchTimeWithoutCommit

=============================================================================
