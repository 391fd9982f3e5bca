------------------------------ MODULE MCMailboxList ------------------------------
(***************************************************************************)
(* MailboxList for TLC with two kinds of users and servers: those which    *)
(* have the constants of the run, and those which do anything at any time, *)
(* to two mailboxes, one below the other.                                  *)
(***************************************************************************)
EXTENDS MailboxList

VARIABLE manner   \* "patient" or "hasty"

TwoLevels == {<<1>>, <<2>>, <<1, 1>>}
OneBelow == {<<1>>, <<1, 1>>}

Hasty == INSTANCE MailboxList WITH
    Names <- OneBelow, Mishaps <- {"again", "below", "change", "broken"},
    MaxPending <- 2, Changes <- 1

MannerInit ==
    \/ manner = "patient" /\ Init
    \/ manner = "hasty" /\ Hasty!Init

Patiently == manner = "patient" /\ Next /\ UNCHANGED manner
Hastily == manner = "hasty" /\ Hasty!Next /\ UNCHANGED manner

MannerSpec == MannerInit /\ [][Patiently \/ Hastily]_<<manner, vars>>

-----------------------------------------------------------------------------
\* Of those who do not look below what is being listed, created or deleted: when nothing is
\* under way what is shown below a mailbox as fetched is what the server has there, each
\* once and in order (finalizeList(), finalizeIncrementalList(), DeleteMailboxTask).
TreeBecomesServers == manner = "patient" => TreeIsServers

\* Of them, too: no call is posted about a mailbox that is deleted before it runs
\* (fetchWithCacheControl()), and no LIST response outlives the LIST commands
\* (handleList()), for the next answer would take it.
NothingIsLeftBehind == manner = "patient" => AsksMeetTheirMailbox /\ NothingLeftOver
==================================================================================
