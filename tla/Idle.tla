---------------------------------- MODULE Idle ----------------------------------
(***************************************************************************)
(* IdleLauncher (src/Imap/Tasks/IdleLauncher.cpp): starts IDLE when the    *)
(* connection has been quiet for a while, ends it for other commands and   *)
(* before the server would lose patience.  Its methods are functions of    *)
(* the record of the client, the slots of its two timers are actions.      *)
(***************************************************************************)
EXTENDS CommandQueue

\* "none": there is no launcher; "dead": die() cut its timers off.
Launcher == {"alive", "dead", "none"}

\* A QTimer.  Its seconds are longer than what is posted takes: it is not due
\* before the event loop has come to rest after it was started, and the
\* milliseconds of fetchPartTimer are over.
Timer == {"stopped", "started", "due"}

\* Mutant: the launcher forgets about IDLE and does not say DONE.
FinishIdleSilently(c) ==
    [c EXCEPT !.renewal = "stopped", !.mIdling = FALSE, !.delayedEnter = "stopped"]

\* Mutant: the timer which starts IDLE is left running.
FinishIdleOnly(c) ==
    IF c.mIdling THEN idleDone([c EXCEPT !.renewal = "stopped", !.mIdling = FALSE]) ELSE c

finishIdle(c) ==
    IF c.mIdling THEN idleDone([c EXCEPT !.renewal = "stopped", !.mIdling = FALSE])
    ELSE [c EXCEPT !.delayedEnter = "stopped"]

enterIdleLater(c) == IF c.mIdling THEN c ELSE [c EXCEPT !.delayedEnter = "started"]

\* KeepMailboxOpenTask::breakOrCancelPossibleIdle()
breakOrCancelPossibleIdle(c) == IF c.launcher = "none" THEN c ELSE finishIdle(c)

die(c) == IF c.launcher = "none" THEN c
          ELSE [c EXCEPT !.launcher = "dead", !.delayedEnter = "stopped", !.renewal = "stopped"]

idleCommandCompleted(c) ==
    LET d == IF c.mIdling
             THEN idleMagicallyTerminatedByServer([c EXCEPT !.mIdling = FALSE,
                                                            !.renewal = "stopped"])
             ELSE c
    IN [Check(d, "idleCommandCompleted", c.idleCommandRunning)
        EXCEPT !.idleCommandRunning = FALSE]

\* m_idling is left alone, for the launcher is deleted by its caller.
idleCommandFailed(c) ==
    LET d == Check(c, "idleCommandFailed", c.mIdling /\ c.idleCommandRunning)
    IN die(idleContinuationWontCome([d EXCEPT !.idleCommandRunning = FALSE]))

\* Seconds pass.
Elapse ==
    LET due(timer) == IF timer = "started" THEN "due" ELSE timer
    IN /\ Resting /\ client.posted = <<>> /\ ~client.fetchTimer
       /\ "started" \in {client.delayedEnter, client.renewal}
       /\ client' = [client EXCEPT !.delayedEnter = due(@), !.renewal = due(@)]
       /\ UNCHANGED <<toServer, toClient, server>>

\* The delayedEnter timer fires.
slotEnterIdleNow ==
    /\ Resting /\ client.launcher = "alive" /\ client.delayedEnter = "due"
    /\ LET c == [client EXCEPT !.delayedEnter = "stopped", !.renewal = "stopped"]
           idle == Check(c, "slotEnterIdleNow", ~c.mIdling /\ ~c.tagIdle)
       IN client' = IF c.idleCommandRunning THEN enterIdleLater(c)
                    ELSE queueCommand([idle EXCEPT !.tagIdle = TRUE, !.renewal = "started",
                                                   !.mIdling = TRUE,
                                                   !.idleCommandRunning = TRUE],
                                      Cmd("IDLE", "IDLE"))
    /\ UNCHANGED <<toServer, toClient, server>>

\* The renewal timer fires.
slotTerminateLongIdle ==
    /\ Resting /\ client.launcher = "alive" /\ client.renewal = "due"
    /\ LET c == [client EXCEPT !.renewal = "stopped"]
       IN client' = IF c.mIdling THEN finishIdle(c) ELSE c
    /\ UNCHANGED <<toServer, toClient, server>>
===============================================================================
