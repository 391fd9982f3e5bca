-------------------------------- MODULE KeepOpen -------------------------------
(***************************************************************************)
(* KeepMailboxOpenTask (src/Imap/Tasks/KeepMailboxOpenTask.cpp) while it   *)
(* is RUNNING: it follows what the server announces about the synchronized *)
(* mailbox, asks for the UIDs of new arrivals, and saves the state either  *)
(* at once or, when there is too much of it, after a timeout.              *)
(***************************************************************************)
EXTENDS ObtainSync

CONSTANTS
    throttlingThreshold,  \* saves at once before saving is put off (100)
    maxDelayedResponses   \* saves put off before there is one (10000)

ASSUME ThrottlingAssumption ==
    /\ throttlingThreshold \in Nat
    /\ maxDelayedResponses \in Nat \ {0}

VARIABLES
    performedStateSynces,
    skippedStateSynces,
    syncingTimer     \* m_syncingTimer is active

throttleVars == <<performedStateSynces, skippedStateSynces, syncingTimer>>

ThrottleTypeOK ==
    /\ performedStateSynces \in Nat /\ skippedStateSynces \in Nat
    /\ syncingTimer \in BOOLEAN

Open(type) == phase = "open" /\ Received(type)

KeepUnchanged == UNCHANGED <<serverVars, phase, failure, taskVars>>

-----------------------------------------------------------------------------
(* saveSyncStateNowOrLater()                                                *)

Throttling == skippedStateSynces > 0

SavesNow ==
    IF Throttling THEN skippedStateSynces >= maxDelayedResponses
    ELSE performedStateSynces < throttlingThreshold

\* Mutant: the timer runs only after a save.
CountSaveWithoutTimer ==
    IF SavesNow
    THEN /\ performedStateSynces' = IF Throttling THEN throttlingThreshold
                                    ELSE performedStateSynces + 1
         /\ skippedStateSynces' = 0
         /\ syncingTimer' = TRUE
    ELSE /\ performedStateSynces' = 0
         /\ skippedStateSynces' = skippedStateSynces + 1
         /\ UNCHANGED syncingTimer

CountSave ==
    IF SavesNow
    THEN /\ performedStateSynces' = IF Throttling THEN throttlingThreshold
                                    ELSE performedStateSynces + 1
         /\ skippedStateSynces' = 0
         /\ syncingTimer' = TRUE
    ELSE /\ performedStateSynces' = 0
         /\ skippedStateSynces' = skippedStateSynces + 1
         /\ syncingTimer' = TRUE

\* Mutant: the sync state is saved nevertheless.
SaveSyncStateAnyway(list, ss) ==
    /\ cachedSync' = Reloaded(ss)
    /\ cachedUids' = IF fetchStatus = "DONE" THEN UidsOf(list) ELSE cachedUids

\* The state is not complete while the UID of an arrival is unknown; what ends
\* that saves it.
SaveIfPossible(list, ss) ==
    IF fetchStatus = "DONE" THEN SaveSyncStateAndUids(list, ss)
    ELSE UNCHANGED <<cachedSync, cachedUids>>

saveSyncStateNowOrLater(list, ss) ==
    /\ CountSave
    /\ IF SavesNow THEN SaveIfPossible(list, ss) ELSE UNCHANGED <<cachedSync, cachedUids>>

syncingTimeout ==
    /\ phase = "open" /\ syncingTimer
    /\ syncingTimer' = FALSE
    /\ skippedStateSynces' = 0
    /\ IF Throttling
       THEN /\ SaveIfPossible(children, syncState)
            /\ UNCHANGED performedStateSynces
       ELSE /\ performedStateSynces' = 0
            /\ UNCHANGED <<cachedSync, cachedUids>>
    /\ UNCHANGED <<serverVars, wireVars, treeVars, cachedFlags, phase,
                   newArrivalsFetch, failure, taskVars>>

-----------------------------------------------------------------------------
(* The responses.                                                           *)

\* Mutant: one message is left out.
ArrivalsAfter == syncState.uidNext + 1

\* The lowest UID an arrival can have.
ArrivalsFrom == Larger(syncState.uidNext, HighestKnownUid(children) + 1)

KeepExists ==
    LET n == Head(s2c).number
    IN  /\ Open("EXISTS") /\ ~ExistsTooLow(n) /\ Consume
        /\ HandleExists(n)
        /\ IF n > Len(children)
           THEN /\ syncState' = setExists(syncState, n)
                /\ RequestArrivals(ArrivalsFrom)
           ELSE UNCHANGED <<syncState, c2s, newArrivalsFetch>>
        /\ UNCHANGED <<numbersFetched, cacheVars, throttleVars>>
        /\ KeepUnchanged

KeepExistsRefused ==
    /\ Open("EXISTS") /\ ExistsTooLow(Head(s2c).number)
    /\ Throw("EXISTS decreased")

KeepExpunge ==
    LET n == Head(s2c).number
        now == setExists(syncState, syncState.exists - 1)
    IN  /\ Open("EXPUNGE") /\ ~ExpungeOutOfBounds(n) /\ Consume
        /\ HandleExpunge(n)
        /\ syncState' = now
        /\ saveSyncStateNowOrLater(ListWithoutRow(n), now)
        /\ UNCHANGED <<c2s, fetchStatus, newArrivalsFetch>>
        /\ KeepUnchanged

KeepExpungeRefused ==
    /\ Open("EXPUNGE") /\ ExpungeOutOfBounds(Head(s2c).number)
    /\ Throw("EXPUNGE out of bounds")

\* A synced list has been saved by HandleVanished() when the rate is limited.
KeepVanished ==
    /\ Open("VANISHED") /\ ~Head(s2c).earlier /\ Consume
    /\ HandleVanished(Head(s2c).uids, FALSE)
    /\ CountSave
    /\ UNCHANGED <<c2s, newArrivalsFetch>>
    /\ KeepUnchanged

\* RECENT is for the user interface, but it is another occasion to save.
KeepRecent ==
    /\ Open("RECENT") /\ Consume
    /\ saveSyncStateNowOrLater(children, syncState)
    /\ UNCHANGED <<c2s, treeVars, cachedFlags, newArrivalsFetch>>
    /\ KeepUnchanged

KeepFetch ==
    /\ Open("FETCH") /\ FetchRefused(Head(s2c)) = "none" /\ Consume
    /\ HandleFetch(Head(s2c), FALSE)
    /\ UNCHANGED <<c2s, newArrivalsFetch, throttleVars>>
    /\ KeepUnchanged

KeepFetchRefused ==
    /\ Open("FETCH") /\ FetchRefused(Head(s2c)) # "none"
    /\ Throw(FetchRefused(Head(s2c)))

\* The last pending UID FETCH is done: the view is complete, so it is saved.
KeepArrivalsOk ==
    /\ Open("OK") /\ Head(s2c).name = "UID FETCH" /\ newArrivalsFetch > 0
    /\ Consume
    /\ newArrivalsFetch' = newArrivalsFetch - 1
    /\ IF newArrivalsFetch = 1
       THEN /\ SaveSyncStateAndUids(children, syncState)
            /\ fetchStatus' = "DONE"
       ELSE UNCHANGED <<cachedSync, cachedUids, fetchStatus>>
    /\ UNCHANGED <<c2s, children, numbersFetched, syncState, cachedFlags, throttleVars>>
    /\ KeepUnchanged

\* slotPerformNoop(): the timer runs when no other command does.
PerformNoop ==
    /\ phase = "open" /\ wireVars = <<<<>>, <<>>>>
    /\ Send(cmd("NOOP"))
    /\ UNCHANGED <<s2c, treeVars, cacheVars, newArrivalsFetch, throttleVars>>
    /\ KeepUnchanged

NoopOk ==
    /\ Open("OK") /\ Head(s2c).name = "NOOP" /\ Consume
    /\ UNCHANGED <<c2s, treeVars, cacheVars, newArrivalsFetch, throttleVars>>
    /\ KeepUnchanged

Keep ==
    \/ KeepExists \/ KeepRecent \/ KeepExpunge \/ KeepVanished \/ KeepFetch
    \/ KeepArrivalsOk \/ NoopOk

KeepRefuses == KeepExistsRefused \/ KeepExpungeRefused \/ KeepFetchRefused

=============================================================================
