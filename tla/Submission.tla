-------------------------------- MODULE Submission --------------------------------
(***************************************************************************)
(* Composer::Submission (src/Composer/Submission.cpp) between the window   *)
(* of the composer, the IMAP server which saves the message and flags the  *)
(* original, and the agents which send it.  Every attempt at sending makes *)
(* an agent of its own; the agents of earlier attempts stay connected.     *)
(* What an agent does is Msa; Smtp shows that MSA::SMTP does that.         *)
(* A text is the number of the attempt for which the user wrote it, 0 the  *)
(* empty string.  The specification has names of its own, SubmissionSpec   *)
(* and so on, for MCSending extends this module and Smtp.                  *)
(***************************************************************************)
EXTENDS Naturals, Sequences, FiniteSets

CONSTANTS
    MaxAttempts,     \* how often the user presses "Send"
    Settings,        \* the settings that the user may have: saveToImap, useBurl
    SettingsChange,  \* they may change between the attempts
    UidPlus,         \* whether APPEND is answered with APPENDUID: {TRUE}, {FALSE}, both
    LateErrors       \* an agent may complain again while the next attempt is going on

VARIABLES
    world,     \* what the servers can do, and what the user is replying to
    sub,       \* the members of Submission
    tasks,     \* the tasks of the Model it waits for
    agents,    \* the agents, in the order in which they were made
    payload,   \* for which attempt each was made, with which settings, which text it
               \* was given, and whether it has complained twice
    saved,     \* the texts in the folder of sent mail
    flagged,   \* the original has got its flag
    window     \* the window: whether "Send" can be pressed, what it was told

submissionVars == <<world, sub, tasks, agents, payload, saved, flagged, window>>

Options == [save : BOOLEAN, burl : BOOLEAN]

ASSUME SubmissionAssumption ==
    /\ MaxAttempts \in Nat \ {0}
    /\ Settings \subseteq Options /\ Settings # {}
    /\ SettingsChange \in BOOLEAN /\ LateErrors \in BOOLEAN
    /\ UidPlus \subseteq BOOLEAN /\ UidPlus # {}

Attempts == 1..MaxAttempts

M(i) == INSTANCE Msa WITH msa <- agents[i]

MsaStates == [phase : {"idle", "asked", "sending", "cancelled"},
              delivered : BOOLEAN, told : {"nothing", "sent", "error"}]

Worlds == [catenate : BOOLEAN, urlauth : BOOLEAN, uidplus : UidPlus,
           original : BOOLEAN, agent : {"SMTP", "ImapSubmit"}]

-----------------------------------------------------------------------------
(* m_appendUid with its UIDVALIDITY is the text which was saved under it,   *)
(* m_urlauth the text behind the URL.                                       *)
SubmissionInit ==
    /\ world \in Worlds
    /\ sub = [state |-> "INIT", attempt |-> 0, save |-> FALSE, useBurl |-> FALSE,
              raw |-> 0, appendUid |-> 0, appendUidReceived |-> FALSE,
              urlauth |-> 0, genUrlAuthReceived |-> FALSE]
    /\ tasks = {} /\ agents = <<>> /\ payload = <<>> /\ saved = {} /\ flagged = FALSE
    /\ window \in [enabled : {TRUE}, closing : {FALSE}, options : Settings]

useImapSubmit == world.agent = "ImapSubmit"

\* Mutant: CATENATE is taken for granted.
BuildUnlessBurl(s) ==
    IF useImapSubmit THEN FALSE ELSE ~(s.useBurl /\ world.urlauth)

shouldBuildMessageLocally(s) ==
    IF useImapSubmit THEN ~world.catenate
    ELSE ~(s.useBurl /\ world.catenate /\ world.urlauth)

\* setImapOptions() and setSmtpOptions()
SetOptions(s, o) == [s EXCEPT !.save = o.save, !.useBurl = o.burl /\ world.urlauth]

(* How a slot ends which leaves s and w behind: failed() lets the window be *)
(* used again, succeeded() closes it.                                       *)
gotError(s, w) ==
    sub' = [s EXCEPT !.state = "FAILED"] /\ window' = [w EXCEPT !.enabled = TRUE]

succeed(s, w) ==
    sub' = [s EXCEPT !.state = "SENT"] /\ window' = [w EXCEPT !.closing = TRUE]

\* sendImap() of what is saved, sendBurl() of the URL, or sendMail() of what was built.
Given(s) == IF useImapSubmit /\ s.appendUidReceived THEN s.appendUid
            ELSE IF s.genUrlAuthReceived /\ s.useBurl THEN s.urlauth ELSE s.raw

\* ImapSubmit implements nothing but sendImap(), the rest is an error at once.  SMTP
\* asks for a password, or does not.
slotInvokeMsaNow(s, w) ==
    IF useImapSubmit => s.appendUidReceived
    THEN /\ sub' = [s EXCEPT !.state = "SUBMITTING"] /\ window' = w
         /\ \E phase \in {"sending"} \cup (IF useImapSubmit THEN {} ELSE {"asked"}) :
              agents' = Append(agents, [phase |-> phase, delivered |-> FALSE,
                                        told |-> "nothing"])
         /\ payload' = Append(payload, [attempt |-> s.attempt, save |-> s.save,
                                         text |-> Given(s), complained |-> FALSE])
    ELSE gotError(s, w) /\ UNCHANGED <<agents, payload>>

-----------------------------------------------------------------------------
(* The user                                                                 *)
\* send() and slotMessageDataAvailable(): with CATENATE the server puts together what
\* it saves, without it what was built here is uploaded.
sendMessage(s, w) ==
    LET t == [s EXCEPT !.raw = IF shouldBuildMessageLocally(s) THEN s.attempt ELSE 0]
    IN IF s.save
       THEN /\ sub' = [t EXCEPT !.appendUidReceived = FALSE, !.genUrlAuthReceived = FALSE,
                                !.state = "SAVING"]
            /\ tasks' = tasks \cup {[kind |-> "append",
                                     text |-> IF world.catenate THEN t.attempt ELSE t.raw]}
            /\ window' = w /\ UNCHANGED <<agents, payload>>
       ELSE slotInvokeMsaNow(t, w) /\ UNCHANGED tasks

\* Mutant: the window is left as it is while the message is sent.
SendLeavingWindow ==
    /\ window.enabled /\ sub.attempt < MaxAttempts
    /\ \E o \in Settings :
         /\ SettingsChange \/ o = window.options
         /\ sendMessage(SetOptions([sub EXCEPT !.attempt = @ + 1,
                                              !.state = "BUILDING_MESSAGE"], o),
                        [window EXCEPT !.options = o])
    /\ UNCHANGED <<world, saved, flagged>>

\* ComposeWidget::send(): the user has changed the text.  Its parts are there, or the
\* window would have refused to send it.
Send ==
    /\ window.enabled /\ sub.attempt < MaxAttempts
    /\ \E o \in Settings :
         /\ SettingsChange \/ o = window.options
         /\ sendMessage(SetOptions([sub EXCEPT !.attempt = @ + 1,
                                              !.state = "BUILDING_MESSAGE"], o),
                        [window EXCEPT !.enabled = FALSE, !.options = o])
    /\ UNCHANGED <<world, saved, flagged>>

Asked == {i \in DOMAIN agents : agents[i].phase = "asked"}

\* gotPassword() goes to all the agents.
givePassword ==
    /\ Asked # {}
    /\ agents' = [i \in DOMAIN agents |->
                    IF i \in Asked THEN [agents[i] EXCEPT !.phase = "sending"] ELSE agents[i]]
    /\ UNCHANGED <<world, sub, tasks, payload, saved, flagged, window>>

\* canceled() does, too, and those which have not failed yet fail.
cancelPassword ==
    /\ Asked # {}
    /\ agents' = [i \in DOMAIN agents |->
                    IF i \in Asked
                    THEN [agents[i] EXCEPT !.phase = "cancelled", !.told = "error"]
                    ELSE agents[i]]
    /\ gotError(sub, window)
    /\ UNCHANGED <<world, tasks, payload, saved, flagged>>

-----------------------------------------------------------------------------
(* The tasks of the Model                                                   *)
\* slotAppendSucceeded() and slotAskForUrl()
slotAppendSucceeded(s, done) ==
    IF s.appendUid # 0 /\ s.useBurl
    THEN /\ sub' = [s EXCEPT !.appendUidReceived = TRUE, !.state = "PREPARING_URLAUTH"]
         /\ tasks' = (tasks \ {done}) \cup {[kind |-> "genurlauth", text |-> s.appendUid]}
         /\ UNCHANGED <<agents, payload, window>>
    ELSE /\ slotInvokeMsaNow(IF s.appendUid # 0 THEN [s EXCEPT !.appendUidReceived = TRUE]
                             ELSE [s EXCEPT !.useBurl = FALSE], window)
         /\ tasks' = tasks \ {done}

\* APPENDUID, if it comes, comes first: slotAppendUidKnown().
AppendCompleted ==
    \E task \in tasks :
        /\ task.kind = "append"
        /\ saved' = saved \cup {task.text}
        /\ slotAppendSucceeded(IF world.uidplus THEN [sub EXCEPT !.appendUid = task.text]
                               ELSE sub, task)
        /\ UNCHANGED <<world, flagged>>

\* Mutant: nobody listens to the failure of GENURLAUTH.
TaskFailedUnheard ==
    \E task \in tasks :
        /\ task.kind \in {"append", "genurlauth"}
        /\ IF task.kind = "append" THEN gotError(sub, window) ELSE UNCHANGED <<sub, window>>
        /\ tasks' = tasks \ {task}
        /\ UNCHANGED <<world, agents, payload, saved, flagged>>

\* slotAppendFailed(), or GENURLAUTH is refused or brings no URL.
TaskFailed ==
    \E task \in tasks :
        /\ task.kind \in {"append", "genurlauth"}
        /\ gotError(sub, window) /\ tasks' = tasks \ {task}
        /\ UNCHANGED <<world, agents, payload, saved, flagged>>

slotGenUrlAuthReceived ==
    \E task \in tasks :
        /\ task.kind = "genurlauth"
        /\ slotInvokeMsaNow([sub EXCEPT !.urlauth = task.text, !.genUrlAuthReceived = TRUE],
                            window)
        /\ tasks' = tasks \ {task}
        /\ UNCHANGED <<world, saved, flagged>>

\* onUpdatingFlagsOfReplyingToSucceded() and its three siblings.
FlagsUpdated ==
    \E task \in tasks :
        /\ task.kind = "flags"
        /\ succeed(sub, window)
        /\ tasks' = tasks \ {task} /\ flagged' \in {flagged, TRUE}
        /\ UNCHANGED <<world, agents, payload, saved>>

-----------------------------------------------------------------------------
(* The agents                                                               *)
Step(i) == \E m \in MsaStates : agents' = [agents EXCEPT ![i] = m]

AgentDelivers(i) ==
    /\ Step(i) /\ M(i)!Deliver
    /\ UNCHANGED <<world, sub, tasks, payload, saved, flagged, window>>

\* Submission::sent()
AgentSent(i) ==
    /\ Step(i) /\ M(i)!Sent
    /\ IF world.original
       THEN /\ sub' = [sub EXCEPT !.state = "UPDATING_FLAGS"]
            /\ tasks' = tasks \cup {[kind |-> "flags", text |-> payload[i].text]}
            /\ UNCHANGED window
       ELSE succeed(sub, window) /\ UNCHANGED tasks
    /\ UNCHANGED <<world, payload, saved, flagged>>

\* Mutant: the end of the agent is taken for its success.
AgentErrorTakenForSent(i) ==
    /\ Step(i) /\ M(i)!Error
    /\ succeed(sub, window)
    /\ UNCHANGED <<world, tasks, payload, saved, flagged>>

AgentError(i) ==
    /\ Step(i) /\ M(i)!Error
    /\ gotError(sub, window)
    /\ UNCHANGED <<world, tasks, payload, saved, flagged>>

\* SMTP::handleError() does not ask whether there has been an error already: the
\* connection which an agent has left open is closed by the server some day.
AgentComplains(i) ==
    /\ agents[i].phase = "sending" /\ agents[i].told = "error" /\ ~payload[i].complained
    /\ window.enabled \/ LateErrors
    /\ gotError(sub, window)
    /\ payload' = [payload EXCEPT ![i].complained = TRUE]
    /\ UNCHANGED <<world, tasks, agents, saved, flagged>>

\* The window which was told of the success closes at once, and all of this with it.
SubmissionNext ==
    /\ ~window.closing
    /\ \/ Send \/ givePassword \/ cancelPassword
       \/ AppendCompleted \/ TaskFailed \/ slotGenUrlAuthReceived \/ FlagsUpdated
       \/ \E i \in DOMAIN agents : AgentDelivers(i) \/ AgentSent(i) \/ AgentError(i)
                                      \/ AgentComplains(i)

(* The dialog of the password waits for the user, the tasks end, and the    *)
(* agents keep the promise of Msa.                                          *)
SubmissionFairness ==
    /\ WF_submissionVars(~window.closing /\ (givePassword \/ cancelPassword))
    /\ WF_submissionVars(~window.closing /\ (AppendCompleted \/ TaskFailed))
    /\ WF_submissionVars(/\ ~window.closing
                         /\ slotGenUrlAuthReceived \/ FlagsUpdated \/ TaskFailed)
    /\ \A i \in Attempts :
         WF_submissionVars(/\ ~window.closing /\ i \in DOMAIN agents
                           /\ AgentSent(i) \/ AgentError(i))

SubmissionSpec == SubmissionInit /\ [][SubmissionNext]_submissionVars /\ SubmissionFairness

-----------------------------------------------------------------------------
\* What leaves is what the user wrote for this attempt, whether it was built here, put
\* together by the server or fetched by the URL, and it is in the folder of sent mail
\* by then when the settings want it there.
SendsWhatWasWritten ==
    \A i \in DOMAIN agents : agents[i].delivered =>
        /\ payload[i].text = payload[i].attempt
        /\ payload[i].save => payload[i].attempt \in saved

\* The user can press "Send" only when all of the last attempt is over: nothing of it
\* is left that could still send the message a second time.
OneAttemptAtATime ==
    window.enabled => tasks = {} /\ \A i \in DOMAIN agents : agents[i].told # "nothing"

\* The window is told of a success, and the original gets its flag, only when the text of
\* the last attempt has left.
SuccessIsDelivered ==
    (flagged \/ window.closing) =>
        \E i \in DOMAIN agents : agents[i].delivered /\ payload[i].attempt = sub.attempt

\* Every attempt ends: whichever task fails or agent gives up, the window can be used
\* again or is closed.
EveryAttemptEnds == (~window.enabled) ~> (window.enabled \/ window.closing)
===================================================================================
