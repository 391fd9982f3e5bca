------------------------------- MODULE CacheProofs -------------------------------
(***************************************************************************)
(* What the cache promises, for any number of messages, lives of the       *)
(* mailbox and crashes, and for all intervals of the timers.               *)
(***************************************************************************)
EXTENDS Cache, FiniteSetTheorems, TLAPS

\* All that is stored is a UIDVALIDITY or 0 for each UID.
Db == [uidValidity : Nat, exists : Nat, map : SUBSET Uid, alone : BOOLEAN,
       metadata : [Uid -> Nat], parts : [Uid -> Nat]]

Clients == [phase : {"offline", "uids", "flags", "open"}, full : BOOLEAN,
            list : {"LOADING", "DONE"}, uids : SUBSET Uid]

TypeOK ==
    /\ server \in [uidValidity : Nat, uids : SUBSET Uid, uidNext : Nat \ {0}]
    /\ sql \in Db /\ durable \in Db
    /\ disk \in [Uid -> Nat]
    /\ txn \in [open : BOOLEAN, delayed : Nat, tooMuch : Nat, age : Nat]
    /\ client \in Clients
    /\ crashes \in Nat /\ unforgotten \in BOOLEAN

\* What the proofs need of the constants.
LEMMA ConstantTypes ==
    MaxUid \in Nat /\ delayedCommit \in Nat /\ tooMuchTimeWithoutCommit \in Nat
BY CacheAssumption DEF CacheAssumption

\* The number of messages is a number.
LEMMA NumberOfMessages == ASSUME NEW S \in SUBSET Uid PROVE Cardinality(S) \in Nat
<1>2. IsFiniteSet(Uid)
  <2>1. 1 \in Int /\ MaxUid \in Int
    BY ConstantTypes
  <2> QED
    BY <2>1, FS_Interval DEF Uid
<1>3. IsFiniteSet(S)
  BY <1>2, FS_Subset
<1> QED
  BY <1>3, FS_CardinalityType

-----------------------------------------------------------------------------
(* What the methods of the cache make of a database                         *)

\* The methods of the cache take a database to a database.
LEMMA MethodsTypes ==
    ASSUME NEW db \in Db, NEW v \in Nat, NEW n \in Nat, NEW uids \in SUBSET Uid
    PROVE  /\ ForgetMessages(db) \in Db
           /\ ForgetMessage(db, uids) \in Db
           /\ SyncState(db, v, n) \in Db
           /\ SyncStateAndUids(db, v, uids) \in Db
<1>1. Cardinality(uids) \in Nat
  BY NumberOfMessages
<1>2. ForgetMessages(db) \in Db
  BY DEF ForgetMessages, Nothing, Db
<1>3. ForgetMessage(db, uids) \in Db
  BY DEF ForgetMessage, Db
<1>4. SyncState(db, v, n) \in Db
  BY DEF SyncState, Db
<1>5. SyncStateAndUids(db, v, uids) \in Db
  BY <1>1 DEF SyncStateAndUids, SyncState, Db
<1> QED
  BY <1>2, <1>3, <1>4, <1>5

-----------------------------------------------------------------------------
(* Types                                                                    *)

LEMMA InitType == Init => TypeOK
<1> SUFFICES ASSUME Init PROVE TypeOK
  OBVIOUS
<1>1. sql \in Db /\ durable \in Db
  BY DEF Init, Nothing, Db
<1>2. txn \in [open : BOOLEAN, delayed : Nat, tooMuch : Nat, age : Nat]
  BY ConstantTypes DEF Init, Idle
<1>3. client \in Clients
  BY DEF Init, Offline, Clients
<1>4. unforgotten \in BOOLEAN
  BY DEF Init
<1> QED
  BY <1>1, <1>2, <1>3, <1>4 DEF Init, TypeOK, Nothing

\* A write leaves a database when it is given one.
LEMMA WriteType ==
    ASSUME TypeOK, NEW db \in Db, Write(db)
    PROVE  /\ sql' \in Db /\ durable' \in Db /\ crashes' \in Nat
           /\ txn' \in [open : BOOLEAN, delayed : Nat, tooMuch : Nat, age : Nat]
BY ConstantTypes DEF TypeOK, Write, touchingDB

LEMMA FinalizeSelectType == TypeOK /\ finalizeSelect => TypeOK'
<1> SUFFICES ASSUME TypeOK, finalizeSelect PROVE TypeOK'
  OBVIOUS
<1> DEFINE clears == MapIsConsistent /\ ~SameMailbox
           db == IF clears THEN ForgetMessages(sql) ELSE sql
<1>1. db \in Db /\ SyncStateAndUids(db, server.uidValidity, {}) \in Db
  <2>1. db \in Db
    BY MethodsTypes DEF TypeOK
  <2>2. {} \in SUBSET Uid /\ server.uidValidity \in Nat
    BY DEF TypeOK
  <2> QED
    BY <2>1, <2>2, MethodsTypes
<1>2. /\ sql' \in Db /\ durable' \in Db /\ crashes' \in Nat
      /\ txn' \in [open : BOOLEAN, delayed : Nat, tooMuch : Nat, age : Nat]
  <2>1. \/ Write(SyncStateAndUids(db, server.uidValidity, {}))
        \/ Write(db)
        \/ UNCHANGED <<sql, durable, txn, crashes>>
    BY DEF finalizeSelect
  <2> QED
    BY <1>1, <2>1, WriteType DEF TypeOK
<1>3. disk' \in [Uid -> Nat] /\ unforgotten' \in BOOLEAN /\ server' = server
  BY DEF finalizeSelect, TypeOK, Nothing, MapIsConsistent, SameMailbox, Db
<1>4. client' \in Clients
  BY DEF finalizeSelect, Opened, Clients, MapIsConsistent, SameMailbox
<1> QED
  BY <1>2, <1>3, <1>4 DEF TypeOK

LEMMA UidsAppliedType == TypeOK /\ UidsApplied => TypeOK'
<1> SUFFICES ASSUME TypeOK, UidsApplied PROVE TypeOK'
  OBVIOUS
<1> DEFINE replaced == IF client.full THEN {}
                       ELSE {u \in sql.map \ server.uids : \E v \in server.uids : v > u}
<1>1. ForgetMessage(sql, replaced) \in Db
  <2>1. replaced \in SUBSET Uid
    BY DEF TypeOK, Db
  <2> QED
    BY <2>1, MethodsTypes DEF TypeOK
<1>2. Write(ForgetMessage(sql, replaced)) \/ UNCHANGED <<sql, durable, txn, crashes>>
  BY DEF UidsApplied
<1>3. disk' \in [Uid -> Nat] /\ UNCHANGED <<server, unforgotten>>
  BY DEF UidsApplied, TypeOK
<1>4. client' \in Clients
  BY DEF UidsApplied, Opened, Clients, TypeOK
<1> QED
  BY <1>1, <1>2, <1>3, <1>4, WriteType DEF TypeOK

LEMMA FlagsSyncedType == TypeOK /\ FlagsSynced => TypeOK'
<1> SUFFICES ASSUME TypeOK, FlagsSynced PROVE TypeOK'
  OBVIOUS
<1>1. SyncStateAndUids(sql, server.uidValidity, client.uids) \in Db
  BY MethodsTypes DEF TypeOK, Clients
<1>2. client' \in Clients
  BY DEF FlagsSynced, Opened, Clients, TypeOK
<1> QED
  BY <1>1, <1>2, WriteType DEF FlagsSynced, TypeOK

\* What the tasks do once the UIDs are known.
LEMMA KnownType ==
    TypeOK /\ (Arrive \/ ArrivalsFetched \/ Expunged \/ syncingTimeout \/ FetchModSeq) => TypeOK'
<1> SUFFICES ASSUME TypeOK,
                    Arrive \/ ArrivalsFetched \/ Expunged \/ syncingTimeout \/ FetchModSeq
             PROVE TypeOK'
  OBVIOUS
<1>1. SyncStateAndUids(sql, server.uidValidity, client.uids) \in Db
  BY MethodsTypes DEF TypeOK, Clients
<1>2. CASE Arrive
  BY <1>2 DEF Arrive, TypeOK, Clients
<1>3. CASE ArrivalsFetched
  <2>1. client' \in Clients
    BY <1>3 DEF ArrivalsFetched, Opened, Clients, TypeOK
  <2> QED
    BY <1>1, <1>3, <2>1, WriteType DEF ArrivalsFetched, TypeOK
<1>4. CASE Expunged
  <2>1. PICK u \in client.uids \ server.uids, later \in BOOLEAN :
            /\ client' = [client EXCEPT !.uids = client.uids \ {u},
                                         !.list = IF later THEN @ ELSE "DONE"]
            /\ Write(IF later THEN ForgetMessage(sql, {u})
                     ELSE SyncStateAndUids(ForgetMessage(sql, {u}), server.uidValidity,
                                           client.uids \ {u}))
            /\ disk' = [disk EXCEPT ![u] = 0] /\ UNCHANGED <<server, unforgotten>>
    BY <1>4 DEF Expunged
  <2>2. {u} \in SUBSET Uid /\ client.uids \ {u} \in SUBSET Uid
    BY DEF TypeOK, Clients
  <2>3. ForgetMessage(sql, {u}) \in Db
    BY <2>2, MethodsTypes DEF TypeOK
  <2>4. SyncStateAndUids(ForgetMessage(sql, {u}), server.uidValidity, client.uids \ {u}) \in Db
    BY <2>2, <2>3, MethodsTypes DEF TypeOK
  <2>5. client' \in Clients
    BY <2>1, <2>2 DEF TypeOK, Clients
  <2> QED
    BY <2>1, <2>3, <2>4, <2>5, WriteType DEF TypeOK
<1>5. CASE syncingTimeout
  BY <1>1, <1>5, WriteType DEF syncingTimeout, TypeOK
<1>6. CASE FetchModSeq
  <2>1. Cardinality(client.uids) \in Nat
    BY NumberOfMessages DEF TypeOK, Clients
  <2>2. SyncState(sql, server.uidValidity, Cardinality(client.uids)) \in Db
    BY <2>1, MethodsTypes DEF TypeOK
  <2> QED
    BY <1>6, <2>2, WriteType DEF FetchModSeq, TypeOK
<1> QED
  BY <1>2, <1>3, <1>4, <1>5, <1>6

LEMMA FetchType == TypeOK /\ (FetchMetadata \/ FetchPart \/ FetchBigPart) => TypeOK'
<1> SUFFICES ASSUME TypeOK, FetchMetadata \/ FetchPart \/ FetchBigPart PROVE TypeOK'
  OBVIOUS
<1>1. CASE FetchMetadata
  <2>1. PICK u \in Uid : /\ Write([sql EXCEPT !.metadata[u] = server.uidValidity])
                         /\ UNCHANGED <<server, disk, client, unforgotten>>
    BY <1>1 DEF FetchMetadata, TypeOK
  <2>2. [sql EXCEPT !.metadata[u] = server.uidValidity] \in Db
    BY DEF TypeOK, Db
  <2> QED
    BY <2>1, <2>2, WriteType DEF TypeOK
<1>2. CASE FetchPart
  <2>1. PICK u \in Uid : /\ Write([sql EXCEPT !.parts[u] = server.uidValidity])
                         /\ UNCHANGED <<server, disk, client, unforgotten>>
    BY <1>2 DEF FetchPart, TypeOK
  <2>2. [sql EXCEPT !.parts[u] = server.uidValidity] \in Db
    BY DEF TypeOK, Db
  <2> QED
    BY <2>1, <2>2, WriteType DEF TypeOK
<1>3. CASE FetchBigPart
  <2>1. PICK u \in Uid : disk' = [disk EXCEPT ![u] = server.uidValidity]
    BY <1>3 DEF FetchBigPart, TypeOK
  <2>2. disk' \in [Uid -> Nat]
    BY <2>1 DEF TypeOK
  <2> QED
    BY <1>3, <2>2 DEF FetchBigPart, TypeOK
<1> QED
  BY <1>1, <1>2, <1>3

LEMMA NextType == TypeOK /\ [Next]_vars => TypeOK'
<1> SUFFICES ASSUME TypeOK, [Next]_vars PROVE TypeOK'
  OBVIOUS
<1>1. CASE Deliver
  <2>1. server.uidNext \in Nat \ {0} /\ server.uidNext <= MaxUid
    BY <1>1 DEF Deliver, TypeOK
  <2>2. server.uidNext \in Uid /\ server.uidNext + 1 \in Nat \ {0}
    BY <2>1, ConstantTypes DEF Uid
  <2>3. server' \in [uidValidity : Nat, uids : SUBSET Uid, uidNext : Nat \ {0}]
    BY <1>1, <2>2 DEF Deliver, TypeOK
  <2> QED
    BY <1>1, <2>3 DEF Deliver, TypeOK
<1>2. CASE Remove
  BY <1>2 DEF Remove, TypeOK
<1>3. CASE Recreate
  BY <1>3 DEF Recreate, TypeOK, Offline, Clients
<1>4. CASE Tick
  <2>1. txn.delayed - 1 \in Nat /\ txn.tooMuch - 1 \in Nat /\ txn.age + 1 \in Nat
    BY <1>4 DEF Tick, TypeOK
  <2>2. txn' \in [open : BOOLEAN, delayed : Nat, tooMuch : Nat, age : Nat]
    BY <1>4, <2>1 DEF Tick, TypeOK
  <2> QED
    BY <1>4, <2>2 DEF Tick, TypeOK
<1>5. CASE timeToCommit
  BY <1>5, ConstantTypes DEF timeToCommit, TypeOK, Idle
<1>6. CASE finalizeSelect
  BY <1>6, FinalizeSelectType
<1>7. CASE UidsApplied \/ FlagsSynced
  BY <1>7, UidsAppliedType, FlagsSyncedType
<1>8. CASE Arrive \/ ArrivalsFetched \/ Expunged \/ syncingTimeout \/ FetchModSeq
  BY <1>8, KnownType
<1>9. CASE FetchMetadata \/ FetchPart \/ FetchBigPart
  BY <1>9, FetchType
<1>10. CASE LoseConnection
  BY <1>10 DEF LoseConnection, TypeOK, Offline, Clients
<1>11. CASE Quit
  BY <1>11, ConstantTypes DEF Quit, TypeOK, Offline, Clients, Idle
<1>12. CASE Crash
  <2>1. disk' \in [Uid -> Nat]
    BY <1>12 DEF Crash, TypeOK
  <2>2. txn' \in [open : BOOLEAN, delayed : Nat, tooMuch : Nat, age : Nat]
    BY <1>12, ConstantTypes DEF Crash, Idle
  <2>3. client' \in Clients /\ crashes' \in Nat
    BY <1>12 DEF Crash, TypeOK, Offline, Clients
  <2> QED
    BY <1>12, <2>1, <2>2, <2>3 DEF Crash, TypeOK
<1>13. CASE UNCHANGED vars
  BY <1>13 DEF vars, TypeOK
<1> QED
  BY <1>1, <1>2, <1>3, <1>4, <1>5, <1>6, <1>7, <1>8, <1>9, <1>10, <1>11, <1>12, <1>13 DEF Next

LEMMA CacheTypes == Spec => []TypeOK
<1> QED
  BY InitType, NextType, PTL DEF Spec

-----------------------------------------------------------------------------
(* The timers                                                               *)

\* The second timer is not restarted: with the time that has passed it makes up the
\* interval, and only an open transaction can be lost.
TimerSound ==
    /\ txn.age + txn.tooMuch = tooMuchTimeWithoutCommit
    /\ sql # durable => txn.open

LEMMA InitTimer == Init => TimerSound
BY ConstantTypes DEF Init, Idle, TimerSound

\* A write opens the transaction and leaves the second timer alone.
LEMMA WriteTimer == ASSUME TypeOK, TimerSound, NEW db, Write(db) PROVE TimerSound'
BY DEF TypeOK, Write, touchingDB, TimerSound

LEMMA NextTimer == TypeOK /\ TimerSound /\ [Next]_vars => TimerSound'
<1> SUFFICES ASSUME TypeOK, TimerSound, [Next]_vars PROVE TimerSound'
  OBVIOUS
<1>1. ASSUME UNCHANGED <<sql, durable, txn>> PROVE TimerSound'
  BY <1>1 DEF TimerSound
<1>2. CASE Deliver \/ Remove \/ Recreate \/ Arrive \/ FetchBigPart \/ LoseConnection
  BY <1>1, <1>2 DEF Deliver, Remove, Recreate, Arrive, FetchBigPart, LoseConnection
<1>3. CASE Tick
  <2>1. /\ txn'.age = txn.age + 1 /\ txn'.tooMuch = txn.tooMuch - 1
        /\ txn'.open = txn.open /\ UNCHANGED <<sql, durable>>
    BY <1>3 DEF Tick, TypeOK
  <2>2. txn.age \in Nat /\ txn.tooMuch \in Nat
    BY DEF TypeOK
  <2> QED
    BY <2>1, <2>2 DEF TimerSound
<1>4. CASE timeToCommit \/ Quit \/ Crash
  <2>1. txn' = Idle /\ sql' = durable'
    BY <1>4 DEF timeToCommit, Quit, Crash
  <2> QED
    BY <2>1, ConstantTypes DEF Idle, TimerSound
<1>5. CASE finalizeSelect \/ UidsApplied
  <2>1. (\E db : Write(db)) \/ UNCHANGED <<sql, durable, txn>>
    BY <1>5 DEF finalizeSelect, UidsApplied
  <2> QED
    BY <1>1, <2>1, WriteTimer
<1>6. CASE \/ FlagsSynced \/ ArrivalsFetched \/ Expunged \/ syncingTimeout
           \/ FetchModSeq \/ FetchMetadata \/ FetchPart
  <2>1. \E db : Write(db)
    BY <1>6 DEF FlagsSynced, ArrivalsFetched, Expunged, syncingTimeout, FetchModSeq,
                FetchMetadata, FetchPart
  <2> QED
    BY <2>1, WriteTimer
<1>7. CASE UNCHANGED vars
  BY <1>1, <1>7 DEF vars
<1> QED
  BY <1>2, <1>3, <1>4, <1>5, <1>6, <1>7 DEF Next

\* A crash costs no more than the last minute, however often the database is written
\* to: the two timers of SQLCache::touchingDB() and timeToCommit() see to it.
THEOREM LossAlwaysBounded == Spec => []LossIsBounded
<1>1. TypeOK /\ TimerSound => LossIsBounded
  <2> SUFFICES ASSUME TypeOK, TimerSound PROVE LossIsBounded
    OBVIOUS
  <2>1. txn.age \in Nat /\ txn.tooMuch \in Nat
    BY DEF TypeOK
  <2> QED
    BY <2>1, ConstantTypes DEF TimerSound, LossIsBounded
<1>2. Spec => []TimerSound
  BY InitTimer, NextTimer, CacheTypes, PTL DEF Spec
<1> QED
  BY <1>1, <1>2, CacheTypes, PTL

-----------------------------------------------------------------------------
(* One mailbox                                                              *)

Consistent(db) == Cardinality(db.map) = db.exists

Empty(db) == db.metadata = Nothing /\ db.parts = Nothing

\* All that a database has is of the UIDVALIDITY it has recorded, and a database whose
\* number of messages is not that of its UIDs has nothing, because clearAllMessages() was
\* the last that happened to it, unless its sync state was saved without the UIDs.
DbSound(db) ==
    /\ \A u \in Uid : db.metadata[u] \in {0, db.uidValidity} /\ db.parts[u] \in {0, db.uidValidity}
    /\ ~Consistent(db) /\ ~db.alone => Empty(db)

\* So it is with the files, until a crash takes the database back and leaves them.
DiskSound ==
    crashes = 0 =>
        /\ \A u \in Uid : disk[u] \in {0, sql.uidValidity}
        /\ ~Consistent(sql) /\ ~sql.alone => disk = Nothing

NothingStored == Empty(sql) /\ (crashes = 0 => disk = Nothing)

\* While the mailbox is in use the database is about it, or there is nothing in it.
InUse ==
    /\ client.phase \in {"uids", "flags"} =>
            NothingStored \/ sql.uidValidity = server.uidValidity
    /\ client.phase = "open" =>
            /\ sql.uidValidity = server.uidValidity
            /\ Consistent(sql) \/ sql.alone

\* What remains when a session has not forgotten a former mailbox is not said.
CacheSound ==
    ~unforgotten => DbSound(sql) /\ DbSound(durable) /\ DiskSound /\ InUse

LEMMA InitSound == Init => CacheSound
BY DEF Init, CacheSound, DbSound, DiskSound, InUse, Empty, Offline, Nothing

\* An empty database is of any UIDVALIDITY.
LEMMA EmptySound ==
    ASSUME NEW db, Empty(db) PROVE DbSound(db)
BY DEF Empty, DbSound, Nothing

\* What is left of what clearAllMessages() and clearMessage() were called for.
LEMMA ForgetSound ==
    ASSUME NEW db \in Db, NEW uids \in SUBSET Uid
    PROVE  /\ Empty(ForgetMessages(db))
           /\ Empty(db) => Empty(ForgetMessage(db, uids))
           /\ ForgetMessage(db, uids).uidValidity = db.uidValidity
           /\ ForgetMessage(db, uids).exists = db.exists
           /\ ForgetMessage(db, uids).map = db.map
           /\ ForgetMessage(db, uids).alone = db.alone
           /\ DbSound(db) => DbSound(ForgetMessage(db, uids))
<1>1. Empty(ForgetMessages(db))
  BY DEF Db, ForgetMessages, Empty
<1>2. /\ ForgetMessage(db, uids).uidValidity = db.uidValidity
      /\ ForgetMessage(db, uids).exists = db.exists
      /\ ForgetMessage(db, uids).map = db.map
      /\ ForgetMessage(db, uids).alone = db.alone
      /\ ForgetMessage(db, uids).metadata =
            [u \in Uid |-> IF u \in uids THEN 0 ELSE db.metadata[u]]
      /\ ForgetMessage(db, uids).parts =
            [u \in Uid |-> IF u \in uids THEN 0 ELSE db.parts[u]]
  BY DEF Db, ForgetMessage
<1>3. Empty(db) => Empty(ForgetMessage(db, uids))
  BY <1>2 DEF Empty, Nothing
<1>4. DbSound(db) => DbSound(ForgetMessage(db, uids))
  BY <1>2, <1>3 DEF DbSound, Consistent
<1> QED
  BY <1>1, <1>2, <1>3, <1>4

\* saveSyncStateAndUids() makes a database consistent, and it stays sound when it was
\* of this UIDVALIDITY or had nothing.
LEMMA SaveSound ==
    ASSUME NEW db \in Db, NEW v \in Nat, NEW uids \in SUBSET Uid,
           \/ Empty(db)
           \/ DbSound(db) /\ db.uidValidity = v
    PROVE  LET saved == SyncStateAndUids(db, v, uids)
           IN DbSound(saved) /\ Consistent(saved) /\ saved.uidValidity = v
<1> DEFINE saved == SyncStateAndUids(db, v, uids)
<1>1. /\ saved.uidValidity = v /\ saved.map = uids /\ saved.exists = Cardinality(uids)
      /\ saved.metadata = db.metadata /\ saved.parts = db.parts
  BY DEF Db, SyncStateAndUids, SyncState
<1>2. Consistent(saved)
  BY <1>1 DEF Consistent
<1>3. DbSound(saved)
  BY <1>1, <1>2 DEF DbSound, Empty, Nothing
<1> QED
  BY <1>1, <1>2, <1>3

\* What is left to show for a step which writes while nothing is unforgotten.
LEMMA WriteSound ==
    ASSUME CacheSound, ~unforgotten, NEW db, Write(db), DbSound(db), DiskSound', InUse'
    PROVE  CacheSound'
BY DEF CacheSound, Write

\* A save of the sync state and the UIDs: files only go, and the list is no longer
\* that of a mailbox of which there may be nothing.
LEMMA SavingSound ==
    ASSUME TypeOK, CacheSound, ~unforgotten, NEW db \in Db, DbSound(db),
           \/ Empty(db) /\ (crashes = 0 => disk' = Nothing)
           \/ /\ db.uidValidity = server.uidValidity
              /\ crashes = 0 => \A u \in Uid : disk'[u] \in {0, server.uidValidity},
           NEW uids \in SUBSET Uid,
           Write(SyncStateAndUids(db, server.uidValidity, uids)),
           server' = server, client'.phase \in {"flags", "open"}
    PROVE  CacheSound'
<1> DEFINE saved == SyncStateAndUids(db, server.uidValidity, uids)
<1>1. server.uidValidity \in Nat
  BY DEF TypeOK
<1>2. DbSound(saved) /\ Consistent(saved) /\ saved.uidValidity = server.uidValidity
  BY <1>1, SaveSound
<1>3. sql' = saved /\ crashes' = crashes
  BY DEF Write
<1>4. DiskSound'
  BY <1>2, <1>3 DEF DiskSound, Nothing
<1>5. InUse'
  BY <1>2, <1>3 DEF InUse
<1> QED
  BY <1>2, <1>4, <1>5, WriteSound

\* What is known of the database and the files when a list is shown.
LEMMA UsedSound ==
    ASSUME CacheSound, ~unforgotten, client.phase # "offline", TypeOK
    PROVE  /\ DbSound(sql)
           /\ \/ NothingStored
              \/ /\ sql.uidValidity = server.uidValidity
                 /\ crashes = 0 => \A u \in Uid : disk[u] \in {0, server.uidValidity}
BY DEF CacheSound, DiskSound, InUse, TypeOK, Clients

\* What the mailbox is found to be decides what is cleared. Nothing that is stored may
\* stay when it is of another UIDVALIDITY, except beside a sync state saved alone.
LEMMA FinalizeSelectSound == TypeOK /\ CacheSound /\ finalizeSelect => CacheSound'
<1> SUFFICES ASSUME TypeOK, CacheSound, finalizeSelect, ~unforgotten' PROVE CacheSound'
  BY DEF CacheSound
<1> DEFINE clears == MapIsConsistent /\ ~SameMailbox
           full == ~MapIsConsistent \/ ~SameMailbox
           db == IF clears THEN ForgetMessages(sql) ELSE sql
           done == server.uids = {}
           saved == SyncStateAndUids(db, server.uidValidity, {})
<1>1. /\ disk' = IF clears THEN Nothing ELSE disk
      /\ client' = IF done THEN Opened({})
                   ELSE [phase |-> "uids", full |-> full, list |-> "LOADING", uids |-> {}]
      /\ IF done THEN Write(saved)
         ELSE IF clears THEN Write(db) ELSE UNCHANGED <<sql, durable, txn, crashes>>
      /\ UNCHANGED server
  BY DEF finalizeSelect
<1>2. ~unforgotten /\ (MapIsConsistent \/ SameMailbox \/ ~sql.alone)
  BY DEF finalizeSelect
<1>3. /\ MapIsConsistent <=> Consistent(sql)
      /\ SameMailbox <=> sql.uidValidity = server.uidValidity
  BY DEF MapIsConsistent, Consistent, SameMailbox
<1>4. DbSound(sql) /\ DbSound(durable) /\ DiskSound
  BY <1>2 DEF CacheSound
<1>5. db \in Db /\ {} \in SUBSET Uid
  BY MethodsTypes DEF TypeOK
<1>6. crashes' = crashes
  BY <1>1 DEF Write
<1>7. \/ Empty(db) /\ (crashes = 0 => disk' = Nothing)
      \/ db.uidValidity = server.uidValidity /\ ~clears
  <2>1. CASE clears
    BY <1>1, <2>1, ForgetSound DEF TypeOK
  <2>2. CASE ~clears /\ SameMailbox
    BY <1>3, <2>2
  <2>3. CASE ~clears /\ ~SameMailbox
    <3>1. ~Consistent(sql) /\ ~sql.alone
      BY <1>2, <1>3, <2>3
    <3> QED
      BY <1>1, <1>4, <2>3, <3>1 DEF DbSound, DiskSound
  <2> QED
    BY <2>1, <2>2, <2>3
<1>8. DbSound(db)
  <2>1. clears => Empty(db)
    BY ForgetSound DEF TypeOK
  <2> QED
    BY <1>4, <2>1, EmptySound
<1>9. CASE done
  <2>1. \/ Empty(db) /\ (crashes = 0 => disk' = Nothing)
        \/ /\ db.uidValidity = server.uidValidity
           /\ crashes = 0 => \A u \in Uid : disk'[u] \in {0, server.uidValidity}
    BY <1>1, <1>4, <1>7 DEF DiskSound
  <2>2. Write(saved) /\ server' = server /\ client'.phase \in {"flags", "open"}
    BY <1>1, <1>9 DEF Opened
  <2> QED
    BY <1>2, <1>5, <1>8, <2>1, <2>2, SavingSound
<1>10. CASE ~done
  <2>1. client'.phase = "uids" /\ sql' = db /\ durable' = durable
    BY <1>1, <1>10 DEF Write
  <2>2. InUse'
    BY <1>1, <1>6, <1>7, <2>1 DEF InUse, NothingStored, Empty
  <2>3. DiskSound'
    BY <1>1, <1>4, <1>6, <1>7, <2>1 DEF DiskSound, Nothing
  <2>4. DbSound(sql)' /\ DbSound(durable)'
    BY <1>4, <1>8, <2>1 DEF DbSound, Consistent, Empty
  <2> QED
    BY <2>2, <2>3, <2>4 DEF CacheSound
<1> QED
  BY <1>9, <1>10

\* applyUids() takes away and saves nothing.
LEMMA UidsAppliedSound == TypeOK /\ CacheSound /\ UidsApplied => CacheSound'
<1> SUFFICES ASSUME TypeOK, CacheSound, UidsApplied, ~unforgotten PROVE CacheSound'
  BY DEF CacheSound, UidsApplied
<1> DEFINE replaced == IF client.full THEN {}
                       ELSE {u \in sql.map \ server.uids : \E v \in server.uids : v > u}
           db == ForgetMessage(sql, replaced)
<1>1. /\ client.phase = "uids" /\ client' = [Opened(server.uids) EXCEPT !.phase = "flags"]
      /\ disk' = [u \in Uid |-> IF u \in replaced THEN 0 ELSE disk[u]]
      /\ IF replaced = {} THEN UNCHANGED <<sql, durable, txn, crashes>> ELSE Write(db)
      /\ UNCHANGED <<server, unforgotten>>
  BY DEF UidsApplied
<1>2. replaced \in SUBSET Uid /\ sql \in Db
  BY DEF TypeOK, Db
<1>3. /\ DbSound(db) /\ db.uidValidity = sql.uidValidity /\ db.alone = sql.alone
      /\ Consistent(db) <=> Consistent(sql)
      /\ Empty(sql) => Empty(db)
  BY <1>2, ForgetSound DEF CacheSound, Consistent
<1>4. sql' \in {sql, db} /\ durable' = durable /\ crashes' = crashes
  BY <1>1 DEF Write
<1>5. /\ sql'.uidValidity = sql.uidValidity /\ sql'.alone = sql.alone
      /\ Consistent(sql') <=> Consistent(sql)
      /\ Empty(sql) => Empty(sql')
      /\ DbSound(sql')
  BY <1>3, <1>4 DEF CacheSound
<1>6. /\ \A u \in Uid : disk'[u] \in {0, disk[u]}
      /\ disk = Nothing => disk' = Nothing
  BY <1>1 DEF Nothing
<1>7. DiskSound'
  BY <1>4, <1>5, <1>6 DEF CacheSound, DiskSound, Consistent
<1>8. InUse'
  <2>1. client'.phase = "flags"
    BY <1>1 DEF Opened
  <2>2. NothingStored => NothingStored'
    BY <1>4, <1>5, <1>6 DEF NothingStored, Empty
  <2> QED
    BY <1>1, <1>5, <2>1, <2>2 DEF CacheSound, InUse
<1> QED
  BY <1>1, <1>4, <1>5, <1>7, <1>8 DEF CacheSound, DbSound, Consistent, Empty

\* Every later save is of the mailbox that is shown.
LEMMA KnownSound ==
    ASSUME TypeOK, CacheSound,
           \/ FlagsSynced \/ Arrive \/ ArrivalsFetched \/ Expunged \/ syncingTimeout
           \/ FetchModSeq
    PROVE  CacheSound'
<1>a. unforgotten' = unforgotten
  BY DEF FlagsSynced, Arrive, ArrivalsFetched, Expunged, syncingTimeout, FetchModSeq
<1> SUFFICES ASSUME ~unforgotten PROVE CacheSound'
  BY <1>a DEF CacheSound
<1>1. sql \in Db /\ server.uidValidity \in Nat /\ client.uids \in SUBSET Uid
  BY DEF TypeOK, Clients
<1>2. client.phase \in {"flags", "open"}
  BY DEF FlagsSynced, Arrive, ArrivalsFetched, Expunged, syncingTimeout, FetchModSeq, UidsKnown
<1>3. /\ DbSound(sql)
      /\ \/ NothingStored
         \/ /\ sql.uidValidity = server.uidValidity
            /\ crashes = 0 => \A u \in Uid : disk[u] \in {0, server.uidValidity}
  BY <1>2, UsedSound
<1>4. CASE FlagsSynced \/ ArrivalsFetched \/ syncingTimeout
  <2>1. /\ Write(SyncStateAndUids(sql, server.uidValidity, client.uids))
        /\ UNCHANGED <<server, disk>> /\ client'.phase = "open"
    BY <1>4 DEF FlagsSynced, ArrivalsFetched, syncingTimeout, Opened
  <2> QED
    BY <1>1, <1>3, <2>1, SavingSound DEF NothingStored
<1>5. CASE Arrive
  <2>1. /\ client'.phase = client.phase
        /\ UNCHANGED <<server, sql, durable, disk, crashes, unforgotten>>
    BY <1>5 DEF Arrive, TypeOK, Clients
  <2> QED
    BY <2>1 DEF CacheSound, DbSound, DiskSound, InUse, NothingStored, Empty, Consistent
<1>6. CASE Expunged
  <2>1. PICK u \in client.uids \ server.uids, later \in BOOLEAN :
            /\ client' = [client EXCEPT !.uids = client.uids \ {u},
                                         !.list = IF later THEN @ ELSE "DONE"]
            /\ Write(IF later THEN ForgetMessage(sql, {u})
                     ELSE SyncStateAndUids(ForgetMessage(sql, {u}), server.uidValidity,
                                           client.uids \ {u}))
            /\ disk' = [disk EXCEPT ![u] = 0] /\ UNCHANGED <<server, unforgotten>>
    BY <1>6 DEF Expunged
  <2> DEFINE db == ForgetMessage(sql, {u})
  <2>2. {u} \in SUBSET Uid /\ client.uids \ {u} \in SUBSET Uid
    BY <1>1
  <2>3. /\ db \in Db /\ DbSound(db) /\ db.uidValidity = sql.uidValidity
        /\ db.exists = sql.exists /\ db.map = sql.map /\ db.alone = sql.alone
        /\ Empty(sql) => Empty(db)
    BY <1>1, <1>3, <2>2, ForgetSound, MethodsTypes
  <2>4. /\ \A w \in Uid : disk'[w] \in {0, disk[w]}
        /\ disk = Nothing => disk' = Nothing
    BY <2>1 DEF TypeOK, Nothing
  <2>5. client'.phase = client.phase
    BY <2>1 DEF TypeOK, Clients
  <2>6. CASE ~later
    <3>1. Write(SyncStateAndUids(db, server.uidValidity, client.uids \ {u}))
      BY <2>1, <2>6
    <3>2. \/ Empty(db) /\ (crashes = 0 => disk' = Nothing)
          \/ /\ db.uidValidity = server.uidValidity
             /\ crashes = 0 => \A w \in Uid : disk'[w] \in {0, server.uidValidity}
      BY <1>3, <2>3, <2>4 DEF NothingStored
    <3> QED
      BY <1>2, <2>1, <2>2, <2>3, <2>5, <3>1, <3>2, SavingSound
  <2>7. CASE later
    <3>1. Write(db) /\ sql' = db /\ crashes' = crashes
      BY <2>1, <2>7 DEF Write
    <3>2. DiskSound'
      BY <2>3, <2>4, <3>1 DEF CacheSound, DiskSound, Consistent
    <3>3. NothingStored => NothingStored'
      BY <2>3, <2>4, <3>1 DEF NothingStored, Empty
    <3>4. InUse'
      BY <2>1, <2>3, <2>5, <3>1, <3>3 DEF CacheSound, InUse, Consistent
    <3> QED
      BY <2>3, <3>1, <3>2, <3>4, WriteSound
  <2> QED
    BY <2>6, <2>7
<1>7. CASE FetchModSeq
  <2> DEFINE db == SyncState(sql, server.uidValidity, Cardinality(client.uids))
  <2>1. Write(db) /\ UNCHANGED <<server, disk, client>>
    BY <1>7 DEF FetchModSeq
  <2>2. /\ db.uidValidity = server.uidValidity /\ db.alone
        /\ db.metadata = sql.metadata /\ db.parts = sql.parts
    BY <1>1 DEF SyncState, Db
  <2>3. DbSound(db)
    BY <1>3, <2>2 DEF DbSound, Empty, Nothing, NothingStored
  <2>4. sql' = db /\ crashes' = crashes
    BY <2>1 DEF Write
  <2>5. DiskSound'
    BY <1>3, <2>1, <2>2, <2>4 DEF DiskSound, NothingStored, Nothing
  <2>6. InUse'
    BY <2>1, <2>2, <2>4 DEF InUse
  <2> QED
    BY <2>1, <2>3, <2>5, <2>6, WriteSound
<1> QED
  BY <1>4, <1>5, <1>6, <1>7

\* What the tasks store is of the mailbox that is open.
LEMMA FetchSound ==
    ASSUME TypeOK, CacheSound, FetchMetadata \/ FetchPart \/ FetchBigPart PROVE CacheSound'
<1>a. unforgotten' = unforgotten
  BY DEF FetchMetadata, FetchPart, FetchBigPart
<1> SUFFICES ASSUME ~unforgotten PROVE CacheSound'
  BY <1>a DEF CacheSound
<1>1. /\ sql \in Db /\ client.phase = "open"
      /\ sql.uidValidity = server.uidValidity /\ (Consistent(sql) \/ sql.alone)
  BY DEF TypeOK, CacheSound, InUse, FetchMetadata, FetchPart, FetchBigPart
<1>2. ASSUME NEW db \in Db, Write(db),
             db.uidValidity = sql.uidValidity, db.map = sql.map, db.exists = sql.exists,
             db.alone = sql.alone,
             \A u \in Uid : /\ db.metadata[u] \in {sql.metadata[u], server.uidValidity}
                            /\ db.parts[u] \in {sql.parts[u], server.uidValidity},
             UNCHANGED <<server, disk, client>>
      PROVE  CacheSound'
  <2>1. DbSound(db) /\ (Consistent(db) \/ db.alone)
    BY <1>1, <1>2 DEF CacheSound, Consistent, DbSound
  <2>2. sql' = db /\ crashes' = crashes
    BY <1>2 DEF Write
  <2>3. DiskSound'
    BY <1>2, <2>1, <2>2 DEF CacheSound, DiskSound
  <2>4. InUse'
    BY <1>1, <1>2, <2>1, <2>2 DEF InUse
  <2> QED
    BY <1>2, <2>1, <2>3, <2>4, WriteSound
<1>3. CASE FetchMetadata
  <2>1. PICK u \in Uid : /\ Write([sql EXCEPT !.metadata[u] = server.uidValidity])
                         /\ UNCHANGED <<server, disk, client>>
    BY <1>3 DEF FetchMetadata, TypeOK, Clients
  <2> DEFINE db == [sql EXCEPT !.metadata[u] = server.uidValidity]
  <2>2. db \in Db
    BY <1>1 DEF Db, TypeOK
  <2>3. /\ db.uidValidity = sql.uidValidity /\ db.map = sql.map /\ db.exists = sql.exists
        /\ db.alone = sql.alone /\ db.parts = sql.parts
        /\ \A w \in Uid : db.metadata[w] \in {sql.metadata[w], server.uidValidity}
    BY <1>1 DEF Db
  <2> QED
    BY <1>2, <2>1, <2>2, <2>3
<1>4. CASE FetchPart
  <2>1. PICK u \in Uid : /\ Write([sql EXCEPT !.parts[u] = server.uidValidity])
                         /\ UNCHANGED <<server, disk, client>>
    BY <1>4 DEF FetchPart, TypeOK, Clients
  <2> DEFINE db == [sql EXCEPT !.parts[u] = server.uidValidity]
  <2>2. db \in Db
    BY <1>1 DEF Db, TypeOK
  <2>3. /\ db.uidValidity = sql.uidValidity /\ db.map = sql.map /\ db.exists = sql.exists
        /\ db.alone = sql.alone /\ db.metadata = sql.metadata
        /\ \A w \in Uid : db.parts[w] \in {sql.parts[w], server.uidValidity}
    BY <1>1 DEF Db
  <2> QED
    BY <1>2, <2>1, <2>2, <2>3
<1>5. CASE FetchBigPart
  <2>1. PICK u \in Uid : /\ disk' = [disk EXCEPT ![u] = server.uidValidity]
                         /\ UNCHANGED <<server, sql, durable, client, crashes, unforgotten>>
    BY <1>5 DEF FetchBigPart, TypeOK, Clients
  <2>2. \A w \in Uid : disk'[w] \in {disk[w], server.uidValidity}
    BY <2>1 DEF TypeOK
  <2>3. DiskSound' /\ InUse'
    BY <1>1, <2>1, <2>2 DEF CacheSound, DiskSound, InUse, Consistent
  <2> QED
    BY <2>1, <2>3 DEF CacheSound, DbSound, Consistent, Empty
<1> QED
  BY <1>3, <1>4, <1>5

LEMMA NextSound ==
    ASSUME TypeOK, CacheSound, [Next]_vars
    PROVE  CacheSound'
<1>1. CASE Deliver \/ Remove
  <2>1. /\ server'.uidValidity = server.uidValidity
        /\ UNCHANGED <<sql, durable, disk, client, crashes, unforgotten>>
    BY <1>1 DEF Deliver, Remove, TypeOK
  <2> QED
    BY <2>1 DEF CacheSound, DbSound, DiskSound, InUse, NothingStored, Empty, Consistent
<1>2. CASE Recreate \/ LoseConnection
  <2>1. client' = Offline /\ UNCHANGED <<sql, durable, disk, crashes, unforgotten>>
    BY <1>2 DEF Recreate, LoseConnection
  <2>2. InUse'
    BY <2>1 DEF InUse, Offline
  <2> QED
    BY <2>1, <2>2 DEF CacheSound, DbSound, DiskSound, Empty, Consistent
<1>3. CASE Tick \/ timeToCommit
  <2>1. /\ durable' \in {sql, durable}
        /\ UNCHANGED <<server, sql, disk, client, crashes, unforgotten>>
    BY <1>3 DEF Tick, timeToCommit
  <2> QED
    BY <2>1 DEF CacheSound, DbSound, DiskSound, InUse, NothingStored, Empty, Consistent
<1>4. CASE Quit
  <2>1. durable' = sql /\ client' = Offline /\ UNCHANGED <<sql, disk, crashes, unforgotten>>
    BY <1>4 DEF Quit
  <2>2. InUse'
    BY <2>1 DEF InUse, Offline
  <2> QED
    BY <2>1, <2>2 DEF CacheSound, DbSound, DiskSound, Empty, Consistent
<1>5. CASE Crash
  <2>1. crashes' # 0
    BY <1>5 DEF Crash, TypeOK
  <2>2. client'.phase = "offline" /\ sql' = durable /\ UNCHANGED <<durable, unforgotten>>
    BY <1>5 DEF Crash, Offline
  <2>3. InUse' /\ DiskSound'
    BY <2>1, <2>2 DEF InUse, DiskSound
  <2> QED
    BY <2>2, <2>3 DEF CacheSound, DbSound, Consistent, Empty
<1>6. CASE finalizeSelect
  BY <1>6, FinalizeSelectSound
<1>7. CASE UidsApplied
  BY <1>7, UidsAppliedSound
<1>8. CASE \/ FlagsSynced \/ Arrive \/ ArrivalsFetched \/ Expunged \/ syncingTimeout
           \/ FetchModSeq
  BY <1>8, KnownSound
<1>9. CASE FetchMetadata \/ FetchPart \/ FetchBigPart
  BY <1>9, FetchSound
<1>10. CASE UNCHANGED vars
  BY <1>10 DEF vars, CacheSound, DbSound, DiskSound, InUse, NothingStored, Empty, Consistent
<1> QED
  BY <1>1, <1>2, <1>3, <1>4, <1>5, <1>6, <1>7, <1>8, <1>9, <1>10 DEF Next

LEMMA AlwaysSound == Spec => [](TypeOK /\ CacheSound)
<1>1. CacheSound /\ TypeOK /\ [Next]_vars => CacheSound'
  BY NextSound
<1> QED
  BY <1>1, InitSound, CacheTypes, PTL DEF Spec

\* A mailbox that is opened shows nothing from the database, nor without a crash from the
\* files, that was stored for a message which had the UID before the mailbox was made anew,
\* whatever the server sends while the UIDs and the flags are synchronized, whenever the
\* session before ended and whatever a crash undid: there is one way for that to happen,
\* that finalizeSelect() finds the new UIDVALIDITY and a map which it does not trust beside a
\* sync state that MODSEQ of a FETCH has saved alone.
THEOREM StoredAlwaysOfThisMailbox == Spec => []StoredIsOfThisMailbox
<1>1. TypeOK /\ CacheSound => StoredIsOfThisMailbox
  BY DEF TypeOK, Clients, CacheSound, DbSound, DiskSound, InUse, StoredIsOfThisMailbox
<1> QED
  BY <1>1, AlwaysSound, PTL

\* With the same exception what has been committed is of one UIDVALIDITY, and it is nothing
\* if the map is not as long as EXISTS says, unless a FETCH has saved the sync state alone:
\* no moment at which a crash or the end of the program may come leaves data which the next
\* session would neither trust nor clear.
THEOREM CommittedAlwaysOneMailbox == Spec => []CommittedIsOneMailbox
<1>1. CacheSound => CommittedIsOneMailbox
  BY DEF CacheSound, DbSound, Consistent, Empty, CommittedIsOneMailbox
<1> QED
  BY <1>1, AlwaysSound, PTL

=============================================================================
