------------------------------ MODULE ImapServer -------------------------------
(***************************************************************************)
(* The other side of the connection: an IMAP server with one mailbox, and  *)
(* the two message queues.  The server is not part of the repository; it   *)
(* follows the rules the client relies on (RFC 3501, 7162): UIDs ascend    *)
(* and are not reused under one UIDVALIDITY, EXISTS and FETCH may come at  *)
(* any time, EXPUNGE and VANISHED only while a UID command or a NOOP is in *)
(* progress, responses and commands stay in order.                         *)
(***************************************************************************)
EXTENDS MailboxTree

CONSTANTS
    Capabilities,     \* the announced ones, of "CONDSTORE" and "QRESYNC"
    WhileSyncing,     \* what the server announces (of "EXISTS", "EXPUNGE" and
                      \* "FLAGS") while the client still synchronizes,
    WhileArriving,    \* and while the client does not know the UIDs of all
                      \* arrivals
    InitialMessages,  \* how many messages there are at the beginning
    MaxUid,           \* bound on the UIDs which are ever assigned
    MaxModSeq,        \* bound on the mod-sequences
    MaxUidValidity,   \* bound on the incarnations of the mailbox
    MaxMistakes       \* bound on the responses that contradict the mailbox

ASSUME CapabilitiesAssumption == Capabilities \subseteq {"CONDSTORE", "QRESYNC"}
ASSUME AnnouncedAssumption ==
    /\ WhileSyncing \subseteq {"EXISTS", "EXPUNGE", "FLAGS"}
    /\ WhileArriving \subseteq {"EXISTS", "EXPUNGE", "FLAGS"}
ASSUME BoundsAssumption ==
    /\ MaxUid \in Nat /\ MaxModSeq \in Nat /\ MaxUidValidity \in Nat
    /\ MaxMistakes \in Nat
    /\ InitialMessages \in SUBSET Nat
    /\ \A n \in InitialMessages : n <= MaxUid

VARIABLES
    store,          \* the messages: UID, when it was added, its last change
    uidNext,
    uidValidity,
    highestModSeq,
    gone,           \* when a UID was expunged, 0 when it was not
    mistakes,       \* responses that contradicted the mailbox so far
    selected,       \* this session has the mailbox selected
    started,        \* the first command of c2s is being executed
    vanishing,      \* UIDs it still has to report as VANISHED (EARLIER)
    reporting,      \* UIDs it still has to report with FETCH
    c2s,            \* commands on their way, the first one in execution
    s2c             \* responses on their way

mailboxVars == <<store, uidNext, uidValidity, highestModSeq, gone>>
sessionVars == <<selected, started, vanishing, reporting, mistakes>>
serverVars == <<mailboxVars, sessionVars>>
wireVars == <<c2s, s2c>>

Uid == 1 .. MaxUid
StoredMessage == [uid: Uid, added: Nat, modseq: Nat]

-----------------------------------------------------------------------------
(* Commands and responses.  A UID or a MODSEQ of 0 in a FETCH stands for a  *)
(* response without that item.                                              *)

CommandName == {"SELECT", "UID SEARCH", "FETCH", "UID FETCH", "NOOP"}
Command == [name: CommandName, from: Nat, to: Nat, since: Nat, known: Nat]

cmd(name) == [name |-> name, from |-> 0, to |-> 0, since |-> 0, known |-> 0]
\* known is the UIDVALIDITY of SELECT ... (QRESYNC (known since ...)), 0 without.
Select(known, since) == [cmd("SELECT") EXCEPT !.known = known, !.since = since]
UidSearch(from) == [cmd("UID SEARCH") EXCEPT !.from = from]
UidFetch(from) == [cmd("UID FETCH") EXCEPT !.from = from]
Fetch(to, since) == [cmd("FETCH") EXCEPT !.to = to, !.since = since]

Response ==
    [type: {"EXISTS", "EXPUNGE"}, number: Nat]
    \cup [type: {"RECENT"}]
    \cup [type: {"CODES"}, uidNext: Nat, uidValidity: Nat, modseq: Nat]
    \cup [type: {"VANISHED"}, uids: SUBSET Uid, earlier: BOOLEAN]
    \cup [type: {"FETCH"}, number: Nat, uid: 0 .. MaxUid, flags: Nat, modseq: Nat]
    \cup [type: {"SEARCH"}, uids: Seq(Uid)]
    \cup [type: {"OK"}, name: CommandName]

Exists(n) == [type |-> "EXISTS", number |-> n]
Recent == [type |-> "RECENT"]
Expunged(n) == [type |-> "EXPUNGE", number |-> n]
Vanished(uids, earlier) == [type |-> "VANISHED", uids |-> uids, earlier |-> earlier]
Fetched(n, uid, flags, modseq) ==
    [type |-> "FETCH", number |-> n, uid |-> uid, flags |-> flags, modseq |-> modseq]
Codes == [type |-> "CODES", uidNext |-> uidNext, uidValidity |-> uidValidity,
          modseq |-> IF Capabilities = {} THEN 0 ELSE highestModSeq]
Searched(uids) == [type |-> "SEARCH", uids |-> uids]
Ok(name) == [type |-> "OK", name |-> name]

ServerTypeOK ==
    /\ store \in Seq(StoredMessage)
    /\ uidNext \in 1 .. MaxUid + 1 /\ uidValidity \in Nat /\ highestModSeq \in Nat
    /\ gone \in [Uid -> Nat]
    /\ mistakes \in 0 .. MaxMistakes
    /\ selected \in BOOLEAN /\ started \in BOOLEAN
    /\ vanishing \subseteq Uid /\ reporting \subseteq Uid

WireTypeOK == c2s \in Seq(Command) /\ s2c \in Seq(Response)

Announce(response) == s2c' = Append(s2c, response)

-----------------------------------------------------------------------------
(* What other clients do to the mailbox.  A change made while this session  *)
(* has the mailbox selected is announced at once: the order of the queue is *)
(* the order in which the server tells this session about the changes.      *)

Qresync == "QRESYNC" \in Capabilities

\* A change is announced to this session, or this session does not look.  The
\* answer to SELECT is one view of the mailbox.
MayAnnounce(kind, allowed) ==
    selected => /\ kind \in allowed
                /\ c2s # <<>> => Head(c2s).name # "SELECT"

Deliver(allowed) ==
    /\ uidNext <= MaxUid /\ highestModSeq < MaxModSeq
    /\ MayAnnounce("EXISTS", allowed)
    /\ store' = Append(store, [uid |-> uidNext, added |-> highestModSeq + 1,
                               modseq |-> highestModSeq + 1])
    /\ uidNext' = uidNext + 1
    /\ highestModSeq' = highestModSeq + 1
    /\ IF selected
       THEN \/ Announce(Exists(Len(store) + 1))
            \/ s2c' = s2c \o <<Exists(Len(store) + 1), Recent>>
       ELSE UNCHANGED s2c
    /\ UNCHANGED <<uidValidity, gone, sessionVars, c2s>>

\* With QRESYNC an expunge has a mod-sequence and is told as VANISHED.
Expunge(allowed) ==
    /\ MayAnnounce("EXPUNGE", allowed)
    /\ selected => /\ c2s # <<>>
                   /\ Head(c2s).name \in {"UID SEARCH", "UID FETCH", "NOOP"}
    /\ Qresync => highestModSeq < MaxModSeq
    /\ \E k \in 1 .. Len(store) :
        /\ store' = RemoveRow(store, k)
        /\ IF Qresync
           THEN /\ highestModSeq' = highestModSeq + 1
                /\ gone' = [gone EXCEPT ![store[k].uid] = highestModSeq + 1]
           ELSE UNCHANGED <<highestModSeq, gone>>
        /\ IF selected
           THEN Announce(IF Qresync THEN Vanished({store[k].uid}, FALSE) ELSE Expunged(k))
           ELSE UNCHANGED s2c
        /\ vanishing' = vanishing
        /\ reporting' = reporting \ {store[k].uid}
    /\ UNCHANGED <<uidNext, uidValidity, selected, started, mistakes, c2s>>

SetFlags(allowed) ==
    /\ highestModSeq < MaxModSeq
    /\ MayAnnounce("FLAGS", allowed)
    /\ \E k \in 1 .. Len(store) :
        /\ store' = [store EXCEPT ![k].modseq = highestModSeq + 1]
        /\ IF selected
           THEN Announce(Fetched(k, IF Qresync THEN store[k].uid ELSE 0,
                                 highestModSeq + 1,
                                 IF Capabilities = {} THEN 0 ELSE highestModSeq + 1))
           ELSE UNCHANGED s2c
    /\ highestModSeq' = highestModSeq + 1
    /\ UNCHANGED <<uidNext, uidValidity, gone, sessionVars, c2s>>

\* The mailbox is deleted and created again, with another UIDVALIDITY.
Recreate ==
    /\ ~selected
    /\ uidValidity < MaxUidValidity /\ highestModSeq < MaxModSeq
    /\ uidValidity' = uidValidity + 1
    /\ store' = <<>>
    /\ uidNext' = 1
    /\ highestModSeq' = highestModSeq + 1
    /\ gone' = [u \in Uid |-> 0]
    /\ UNCHANGED <<sessionVars, wireVars>>

\* A response that cannot be true: fewer messages than there are, a message
\* that does not exist, a UID that belongs to another one.
Impossible ==
    {Exists(0), Expunged(MaxUid + 1), Fetched(MaxUid + 1, 0, 1, 0)}
    \cup {Fetched(1, store[k].uid, store[k].modseq, 0) : k \in 2 .. Len(store)}

Mistake ==
    /\ selected /\ mistakes < MaxMistakes
    /\ store # <<>>
    /\ c2s # <<>> => Head(c2s).name # "SELECT"
    /\ \E response \in Impossible : Announce(response)
    /\ mistakes' = mistakes + 1
    /\ UNCHANGED <<mailboxVars, selected, started, vanishing, reporting, c2s>>

-----------------------------------------------------------------------------
(* The commands.                                                            *)

StoredUids == {store[i].uid : i \in 1 .. Len(store)}
RowOfUid(uid) == CHOOSE i \in 1 .. Len(store) : store[i].uid = uid

\* The first row of the range "from:*"; "*" is the last message even when from
\* is above it.
FirstRow(from) ==
    IF \E i \in 1 .. Len(store) : store[i].uid >= from
    THEN CHOOSE i \in 1 .. Len(store) :
            /\ store[i].uid >= from
            /\ \A j \in 1 .. i - 1 : store[j].uid < from
    ELSE Larger(Len(store), 1)

UidsFrom(from) ==
    [i \in 1 .. Len(store) + 1 - FirstRow(from) |->
        store[i + FirstRow(from) - 1].uid]

Lowest(S) == CHOOSE u \in S : \A v \in S : u <= v

Starting(name) ==
    /\ c2s # <<>> /\ Head(c2s).name = name /\ ~started
    /\ started' = TRUE

\* The untagged responses of SELECT, EXISTS before or after the codes.  With
\* QRESYNC the messages that changed are reported, with or without those that are
\* just new (testQresyncReportedNewArrivals(), testQresyncUnreportedNewArrivals()).
\* A server that lost track may report a HIGHESTMODSEQ it had surpassed.
CodesBehind == [Codes EXCEPT !.modseq = Smaller(@, 1)]

StartSelect ==
    /\ Starting("SELECT")
    /\ selected' = TRUE
    /\ \E codes \in {Codes, CodesBehind} :
        /\ mistakes' = IF codes = Codes THEN mistakes ELSE mistakes + 1
        /\ mistakes' <= MaxMistakes
        /\ \/ s2c' = s2c \o <<Exists(Len(store)), codes>>
           \/ s2c' = s2c \o <<codes, Exists(Len(store))>>
    /\ IF Head(c2s).known # 0 /\ Head(c2s).known = uidValidity
       THEN /\ vanishing' = {u \in Uid : gone[u] > Head(c2s).since}
            /\ \E onlyFlagChanges \in BOOLEAN :
                reporting' = {store[i].uid : i \in {j \in 1 .. Len(store) :
                    /\ store[j].modseq > Head(c2s).since
                    /\ onlyFlagChanges => store[j].modseq > store[j].added}}
       ELSE /\ vanishing' = {}
            /\ reporting' = {}
    /\ UNCHANGED <<mailboxVars, c2s>>

StartUidSearch ==
    /\ Starting("UID SEARCH")
    /\ Announce(Searched(UidsFrom(Head(c2s).from)))
    /\ UNCHANGED <<mailboxVars, selected, vanishing, reporting, mistakes, c2s>>

StartUidFetch ==
    /\ Starting("UID FETCH")
    /\ reporting' = {UidsFrom(Head(c2s).from)[i] :
                        i \in 1 .. Len(UidsFrom(Head(c2s).from))}
    /\ UNCHANGED <<mailboxVars, selected, vanishing, mistakes, wireVars>>

StartFetch ==
    /\ Starting("FETCH")
    /\ reporting' = {store[i].uid : i \in
            {j \in 1 .. Smaller(Head(c2s).to, Len(store)) :
                store[j].modseq > Head(c2s).since}}
    /\ UNCHANGED <<mailboxVars, selected, vanishing, mistakes, wireVars>>

StartNoop ==
    /\ Starting("NOOP")
    /\ UNCHANGED <<mailboxVars, selected, vanishing, reporting, mistakes, wireVars>>

ReportVanished ==
    /\ started /\ vanishing # {}
    /\ Announce(Vanished(vanishing, TRUE))
    /\ vanishing' = {}
    /\ UNCHANGED <<mailboxVars, selected, started, reporting, mistakes, c2s>>

\* FETCH of SELECT (QRESYNC) and of CHANGEDSINCE carries MODSEQ, and the UID is
\* in all but the answer to FETCH.
ReportFetch ==
    /\ started /\ vanishing = {} /\ reporting # {}
    /\ LET uid == Lowest(reporting)
           row == RowOfUid(uid)
           wantsModSeq == Head(c2s).since > 0
       IN  /\ Announce(Fetched(row,
                    IF Head(c2s).name = "FETCH" THEN 0 ELSE uid,
                    store[row].modseq,
                    IF wantsModSeq THEN store[row].modseq ELSE 0))
           /\ reporting' = reporting \ {uid}
    /\ UNCHANGED <<mailboxVars, selected, started, vanishing, mistakes, c2s>>

Finish ==
    /\ started /\ vanishing = {} /\ reporting = {}
    /\ Announce(Ok(Head(c2s).name))
    /\ c2s' = Tail(c2s)
    /\ started' = FALSE
    /\ UNCHANGED <<mailboxVars, selected, vanishing, reporting, mistakes>>

Execute ==
    \/ StartSelect \/ StartUidSearch \/ StartUidFetch \/ StartFetch \/ StartNoop
    \/ ReportVanished \/ ReportFetch \/ Finish

=============================================================================
