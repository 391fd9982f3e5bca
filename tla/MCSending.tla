--------------------------------- MODULE MCSending ---------------------------------
(***************************************************************************)
(* Sending for TLC, the promise of Msa from both sides: an agent, Smtp,    *)
(* that has to keep it, and Submission, which relies on it.  Which of the  *)
(* two is looked at is chosen at the beginning; the other one does nothing.*)
(* The dialog of the settings shows "use BURL" only to those who save what *)
(* they send.                                                              *)
(***************************************************************************)
EXTENDS Smtp, Submission

VARIABLE side   \* "agent" or "attempts"

SavingSettings == {[save |-> TRUE, burl |-> TRUE], [save |-> TRUE, burl |-> FALSE],
                   [save |-> FALSE, burl |-> FALSE]}

\* The side that is not looked at has one state.
Still(s) ==
    IF s = "attempts"
    THEN /\ world = (CHOOSE w \in Worlds : TRUE)
         /\ window.options = (CHOOSE o \in Settings : TRUE)
    ELSE account = (CHOOSE a \in Accounts : TRUE)

SendingInit ==
    /\ Init /\ SubmissionInit
    /\ \/ side = "agent" /\ Still("attempts")
       \/ side = "attempts" /\ Still("agent")

AgentStep == side = "agent" /\ Next /\ UNCHANGED <<side, submissionVars>>
AttemptsStep == side = "attempts" /\ SubmissionNext /\ UNCHANGED <<side, vars>>

\* An agent that has not begun and a window in which nothing was sent owe nothing.
SendingSpec ==
    /\ SendingInit /\ [][AgentStep \/ AttemptsStep]_<<side, vars, submissionVars>>
    /\ Fairness /\ SubmissionFairness
====================================================================================
