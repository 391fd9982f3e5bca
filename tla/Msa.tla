----------------------------------- MODULE Msa -----------------------------------
(***************************************************************************)
(* What an agent which submits a message (MSA::AbstractMSA,                *)
(* src/MSA/AbstractMSA.h) promises to Composer::Submission, which makes    *)
(* one for every attempt at sending: the message leaves at most once, not  *)
(* after the agent was cancelled at its question for a password, and the   *)
(* attempt ends with sent() or error(), sent() for a message which is      *)
(* really on its way and never beside error().                             *)
(***************************************************************************)
VARIABLE msa

(* phase: "idle", "asked" for a password, "sending", "cancelled"
   delivered: somebody has accepted the message
   told: the verdict that Submission was given                              *)
MsaStates == [phase : {"idle", "asked", "sending", "cancelled"},
              delivered : BOOLEAN,
              told : {"nothing", "sent", "error"}]

New == [phase |-> "idle", delivered |-> FALSE, told |-> "nothing"]

Init == msa = New

\* passwordRequested()
Ask == msa.phase = "idle" /\ msa' = [msa EXCEPT !.phase = "asked"]

\* sendMail() and sendBurl() without authentication, or setPassword()
Start == msa.phase \in {"idle", "asked"} /\ msa' = [msa EXCEPT !.phase = "sending"]

\* cancel()
Cancel ==
    /\ msa.phase = "asked"
    /\ msa' = [msa EXCEPT !.phase = "cancelled", !.told = "error"]

\* The server may accept a message whose sender has already given it up: the
\* connection was lost before the answer came.
Deliver ==
    /\ msa.phase = "sending" /\ ~msa.delivered /\ msa.told # "sent"
    /\ msa' = [msa EXCEPT !.delivered = TRUE]

\* sent()
Sent ==
    /\ msa.phase = "sending" /\ msa.delivered /\ msa.told = "nothing"
    /\ msa' = [msa EXCEPT !.told = "sent"]

\* error()
Error ==
    /\ msa.phase = "sending" /\ msa.told = "nothing"
    /\ msa' = [msa EXCEPT !.told = "error"]

Next == Ask \/ Start \/ Cancel \/ Deliver \/ Sent \/ Error

Spec == Init /\ [][Next]_msa /\ WF_msa(Sent \/ Error)
===================================================================================
