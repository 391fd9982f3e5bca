-------------------------------- MODULE Threading --------------------------------
(***************************************************************************)
(* The list of messages as the user sees it: ThreadingMsgListModel turns   *)
(* the rows of the open mailbox into a forest, from what the server        *)
(* answers to THREAD, SEARCH and SORT (ThreadTask, SortTask).  Messages    *)
(* arrive, get their UIDs and vanish while commands are out, and what an   *)
(* answer says is about the mailbox as it was when the server gave it.     *)
(* A message, its UID and the internal ID of its node are one number: IDs  *)
(* are never used twice between two rebuildings of the forest.             *)
(* Left out: CONTEXT=SEARCH and CONTEXT=SORT, INCTHREAD, descending order  *)
(* and persistent indexes.                                                 *)
(***************************************************************************)
EXTENDS Naturals, Sequences, FiniteSets, FiniteSetsExt, SequencesExt

CONSTANTS
    MaxUid,
    InitialMessages, \* how many messages the mailbox may hold in the beginning
    Searches,        \* what the user may search for
    Found(_),        \* and the messages that match it
    Criteria,        \* SORT_NONE, and others
    Hurry,           \* who may act while commands are out
    MaxTurns         \* how often the user changes something, or a command is refused

Everything == "ALL"  \* no search
Message == 1 .. MaxUid

ASSUME ThreadingAssumption ==
    /\ MaxUid \in Nat /\ InitialMessages \subseteq 0 .. MaxUid
    /\ \A s \in Searches : s # Everything /\ Found(s) \subseteq Message
    /\ "NONE" \in Criteria
    /\ Hurry \subseteq {"user", "arrival", "expunge", "switch", "sync", "mail", "unknown"}
    /\ MaxTurns \in Nat

VARIABLES
    above,    \* the thread each message belongs to: the message it answers, or 0
    view,     \* the client: its list of messages, the forest, what it has asked for
    cached,   \* the messages in the THREAD response in the cache
    prune,    \* m_delayedPrune
    left      \* what is left of the bounds, and whether a command has been refused

vars == <<above, view, cached, prune, left>>

\* A value of the constant Found of the configuration: "odd" and "late" overlap.
MatchesOf(search) ==
    CASE search = "odd"  -> {m \in Message : m % 2 = 1}
      [] search = "late" -> {m \in Message : m >= 2}

Matching(conds, S) == IF conds = Everything THEN S ELSE S \cap Found(conds)
Ascending(S) == SetToSortSeq(S, LAMBDA a, b : a < b)

\* The server sorts backwards: an order that is not that of the mailbox.
BySize(S) == SetToSortSeq(S, LAMBDA a, b : a > b)

\* The nearest message in S that m answers, however remotely, and the first of all.
ParentIn(S, m) ==
    LET up[a \in 0 .. MaxUid] == IF a \in S \cup {0} THEN a ELSE up[above[a]]
    IN up[above[m]]
First(m) ==
    LET top[a \in Message] == IF above[a] = 0 THEN a ELSE top[above[a]] IN top[m]

-----------------------------------------------------------------------------
\* The forest.  Node 0 is above all roots; a node without ptr is a fake one.
TreeNode(id, parent, offset, kids, real) ==
    [internalId |-> id, parent |-> parent, offset |-> offset, kids |-> kids,
     ptr |-> real, uid |-> real]
RootNode(kids) == TreeNode(0, 0, 0, kids, FALSE)
OnlyRoot == [n \in {0} |-> RootNode(<<>>)]
Place(seq, m) == (CHOOSE i \in DOMAIN seq : seq[i] = m) - 1

Listed(v) == Range(v.list)
Known(v) == Listed(v) \ v.noUid

\* updateNoThreading(): a flat list of everything.
updateNoThreading(v) ==
    [v EXCEPT !.node = [n \in {0} \cup Listed(v) |->
                          IF n = 0 THEN RootNode(v.list)
                          ELSE [TreeNode(n, 0, Place(v.list, n), <<>>, TRUE)
                                    EXCEPT !.uid = n \in Known(v)]],
              !.ptrs = Listed(v), !.unknown = v.noUid, !.roots = v.list]

\* Mutant: they keep their numbers.
KeepNumbers(node, n) == node

\* The children of n are numbered again.
Renumber(node, n) ==
    [m \in DOMAIN node |-> IF m \in Range(node[n].kids)
                           THEN [node[m] EXCEPT !.offset = Place(node[n].kids, m)]
                           ELSE node[m]]

\* The heir of a root is one.
RootsWithHeir(roots, v, f, heir) ==
    IF v.node[f].parent = 0 THEN ReplaceAll(roots, f, heir) ELSE roots

\* pruneTree() on one fake node: a leaf goes, otherwise the first child takes its
\* place and the others become children of that one.
PruneNode(f, v) ==
    LET p == v.node[f].parent
        kids == v.node[f].kids
        rest == [n \in DOMAIN v.node \ {f} |-> v.node[n]]
        heir == Head(kids)
    IN IF kids = <<>>
       THEN [v EXCEPT !.node = Renumber([rest EXCEPT ![p].kids = Remove(@, f)], p),
                      !.roots = IF p = 0 THEN Remove(@, f) ELSE @]
       ELSE LET swapped == [n \in DOMAIN rest |->
                    CASE n = p -> [rest[n] EXCEPT !.kids = ReplaceAll(@, f, heir)]
                      [] n = heir -> [rest[n] EXCEPT !.parent = p, !.kids = @ \o Tail(kids)]
                      [] n \in Range(Tail(kids)) -> [rest[n] EXCEPT !.parent = heir]
                      [] OTHER -> rest[n]]
            IN [v EXCEPT !.node = Renumber(Renumber(swapped, p), heir),
                         !.roots = RootsWithHeir(@, v, f, heir)]

Fakes(v) == {n \in DOMAIN v.node : v.node[n].internalId # 0 /\ ~v.node[n].ptr}

\* The order is that of a hash table: it does not matter, see PruneInAnyOrder.
pruneTree(v) == FoldSet(PruneNode, v, Fakes(v))

-----------------------------------------------------------------------------
\* Searching and sorting.
calculateNullSort(v) ==
    [v EXCEPT !.result = SelectSeq(v.roots, LAMBDA m : m \in DOMAIN v.node /\ v.node[m].uid),
              !.validity = "FRESH"]

RECURSIVE Below(_, _)
Below(v, S) ==
    IF S = {} THEN {} ELSE S \cup Below(v, UNION {Range(v.node[n].kids) : n \in S})

\* applySort(): the roots of m_currentSortResult, and nothing that is not below one
\* of them.  A message that ptrToInternal lacks is looked at all the same
\* ("lookup"): what is read past the end of the table is not the ID of a root.  A
\* node which was taken away comes back blank, with the internalId of the root.
applySort(v) ==
    IF v.list = <<>> THEN v
    ELSE
    LET messages == SelectSeq(v.result, LAMBDA m : m \in Known(v))
        shown == SelectSeq(messages, LAMBDA m : m \in v.ptrs /\ m \in Range(v.roots))
        gone == Below(v, Range(v.node[0].kids) \ Range(shown))
        old(n) == IF n \in DOMAIN v.node THEN v.node[n] ELSE RootNode(<<>>)
    IN [v EXCEPT !.node = [n \in (DOMAIN v.node \cup Range(shown)) \ gone |->
                             CASE n = 0 -> [old(0) EXCEPT !.kids = shown]
                               [] n \in Range(shown) -> [old(n) EXCEPT !.offset = Place(shown, n)]
                               [] OTHER -> old(n)],
                 !.broken = @ \cup (IF Range(messages) \subseteq v.ptrs THEN {} ELSE {"lookup"})]

\* createSortTask(), createThreadTask(): a command, and who hears of its answer.
NewId(v) == CHOOSE i \in 1 .. Cardinality(v.commands) + 1 : i \notin {c.id : c \in v.commands}
Command(v, kind, conds) ==
    [id |-> NewId(v), kind |-> kind, conds |-> conds, box |-> v.box, heard |-> TRUE,
     done |-> FALSE, uids |-> <<>>]
AskSort(v, kind, conds) ==
    [v EXCEPT !.task = NewId(v), !.commands = @ \cup {Command(v, kind, conds)},
              !.conds = conds, !.filtered = conds # Everything, !.validity = "ASKED"]

searchSortPreferenceImplementation(v, conds, criterion) ==
    IF v.list = <<>> THEN v
    ELSE IF criterion = "NONE" THEN
        LET w == [v EXCEPT !.criterion = "NONE"] IN
        IF conds = Everything
        THEN applySort(calculateNullSort([w EXCEPT !.conds = conds, !.filtered = FALSE]))
        ELSE IF conds # v.conds \/ v.validity # "FRESH" THEN AskSort(w, "SEARCH", conds)
        ELSE applySort(w)
    ELSE IF criterion = v.criterion /\ conds = v.conds /\ v.validity # "INVALIDATED"
    THEN applySort(v)
    ELSE LET w == [v EXCEPT !.conds = conds, !.filtered = conds # Everything,
                            !.criterion = criterion]
         IN AskSort(applySort(calculateNullSort(w)), "SORT", conds)

Again(v) == searchSortPreferenceImplementation(v, v.conds, v.criterion)

-----------------------------------------------------------------------------
\* Threading.

\* askForThreading(): in an empty mailbox there is no message to find the model by.
askForThreading(v) ==
    IF v.list = <<>> THEN [v EXCEPT !.broken = @ \cup {"crash"}]
    ELSE [v EXCEPT !.threadingInFlight = TRUE, !.threadHeard = TRUE,
                   !.commands = @ \cup {Command(v, "THREAD",
                                     IF v.filtered THEN v.conds ELSE Everything)}]

\* registerThreading() and applyThreading(): a node for everything in the answer, a
\* fake one when the message is not here any more.  What is left of a thread whose
\* first message is not in the answer has an empty node above it.
applyThreading(v, S) ==
    IF v.unknown # {} THEN v
    ELSE
    LET nodes == S \cup {First(m) : m \in S}
        kidsOf(p) == Ascending({m \in nodes : ParentIn(nodes, m) = p})
        node == [n \in nodes \cup {0} |->
                   IF n = 0 THEN RootNode(kidsOf(0))
                   ELSE TreeNode(n, ParentIn(nodes, n), Place(kidsOf(ParentIn(nodes, n)), n),
                                 kidsOf(n), n \in S \cap Listed(v))]
        w == pruneTree([v EXCEPT !.node = node, !.ptrs = S \cap Listed(v)])
    IN Again([w EXCEPT !.roots = IF w.node[0].kids # <<>> THEN w.node[0].kids ELSE @])

\* The highest UID that the threading has to know: of the search when there is one.
\* That of an empty result is read past its end, and is 0.
HighestUid(v) ==
    Max({0} \cup (IF v.filtered THEN Range(v.result) ELSE Known(v)))

wantThreading(v, S) ==
    IF v.list = <<>> \/ ~v.shallBeThreading THEN Again(updateNoThreading(v))
    ELSE IF v.threadingInFlight THEN Again(v)
    ELSE IF v.filtered /\ v.validity # "FRESH"
    THEN IF v.validity = "ASKED" THEN v ELSE Again(v)
    ELSE IF \E m \in S \cup {0} : m >= HighestUid(v) THEN applyThreading(v, S)
    ELSE askForThreading(v)

-----------------------------------------------------------------------------
\* resetMe(), the first time.
Begin(list, threading) ==
    LET v == [box |-> 0, list |-> list, noUid |-> {}, node |-> OnlyRoot, ptrs |-> {}, unknown |-> {},
              roots |-> <<>>, result |-> <<>>, validity |-> "INVALIDATED",
              conds |-> Everything, filtered |-> FALSE, criterion |-> "NONE",
              commands |-> {}, task |-> 0, threadingInFlight |-> FALSE,
              threadHeard |-> FALSE, shallBeThreading |-> threading, broken |-> {}]
    IN wantThreading(updateNoThreading(v), {})

Init ==
    /\ above \in [Message -> 0 .. MaxUid] /\ \A m \in Message : above[m] < m
    /\ \E n \in InitialMessages, threading \in BOOLEAN :
           view = Begin([i \in 1 .. n |-> i], threading)
    /\ cached = {}
    /\ prune = FALSE
    /\ left = [turns |-> MaxTurns, uids |-> MaxUid - Len(view.list), refused |-> FALSE]

Alive == "crash" \notin view.broken

\* Everything has been answered, and every UID is known.
Quiet == view.commands = {} /\ ~prune /\ view.noUid = {}
MayAct(who) == Alive /\ (Quiet \/ who \in Hurry)

\* Mutant: what was found is still taken for all there is.
KeepsValidity(v) == [v EXCEPT !.result = <<>>]

\* What the server found does not know the new message.
ResultInvalidated(v) ==
    [v EXCEPT !.result = <<>>, !.validity = IF @ = "FRESH" THEN "INVALIDATED" ELSE @]

\* handleRowsInserted(): a new message, with its UID while the mailbox is being
\* synchronized, and without when it arrives later.
handleRowsInserted(m, hasUid) ==
    LET v == view
        node == [n \in DOMAIN v.node \cup {m} |->
                   CASE n = 0 -> [v.node[0] EXCEPT !.kids = Append(@, m)]
                     [] n = m -> [TreeNode(m, 0, Len(v.node[0].kids), <<>>, TRUE)
                                     EXCEPT !.uid = hasUid]
                     [] OTHER -> v.node[n]]
        w == ResultInvalidated(
                 [v EXCEPT !.list = Append(@, m), !.node = node, !.ptrs = @ \cup {m},
                           !.noUid = IF hasUid THEN @ ELSE @ \cup {m},
                           !.unknown = IF hasUid THEN @ ELSE @ \cup {m},
                           !.roots = IF hasUid THEN Append(@, m) ELSE @])
    IN view' = IF w.shallBeThreading THEN wantThreading(w, cached) ELSE w

\* UIDs are given in order, so a message without one is never before one with it.
Arrive(hasUid) ==
    /\ left.uids > 0
    /\ \/ MayAct("arrival")
       \/ MayAct("mail") /\ view.conds = Everything /\ view.criterion = "NONE"
    /\ hasUid => /\ view.noUid = {}
                 /\ \/ view.shallBeThreading \/ "sync" \in Hurry
                    \/ view.conds = Everything /\ view.criterion = "NONE"
    /\ handleRowsInserted(MaxUid - left.uids + 1, hasUid)
    /\ left' = [left EXCEPT !.uids = @ - 1]
    /\ UNCHANGED <<above, cached, prune>>

\* handleDataChanged(): the UID of a message is known.
UidKnown(m) ==
    /\ Alive /\ m \in view.noUid
    /\ LET v == [view EXCEPT !.noUid = @ \ {m}, !.unknown = @ \ {m}]
       IN view' = IF m \in view.unknown /\ v.unknown = {} THEN wantThreading(v, cached) ELSE v
    /\ UNCHANGED <<above, cached, prune, left>>

\* handleRowsAboutToBeRemoved(), handleRowsRemoved(): the node becomes a fake one,
\* and a timer of no length is started.
RowRemoved(m) ==
    /\ MayAct("expunge") /\ m \in Listed(view)
    /\ m \in view.noUid => "unknown" \in Hurry
    /\ view' = [view EXCEPT !.list = Remove(@, m), !.noUid = @ \ {m}, !.unknown = @ \ {m},
                            !.node = IF m \in view.ptrs \cap DOMAIN @
                                     THEN [@ EXCEPT ![m].ptr = FALSE, ![m].uid = FALSE]
                                     ELSE @]
    /\ prune' = TRUE
    /\ UNCHANGED <<above, cached, left>>

delayedPrune ==
    /\ Alive /\ prune
    /\ prune' = FALSE
    /\ view' = pruneTree(view)
    /\ UNCHANGED <<above, cached, left>>

\* resetMe(): the list is about another mailbox, for which there is no threading in
\* the cache; the server answers what it was asked before it opens the mailbox.
Answer(v, c) ==
    LET S == Matching(c.conds, Listed(v))
    IN [c EXCEPT !.done = TRUE,
                 !.uids = IF c.kind = "SORT" THEN BySize(S) ELSE Ascending(S)]
Switch(n) ==
    /\ MayAct("switch") /\ left.turns > 0
    /\ LET list == [i \in 1 .. n |-> i]
           v == [view EXCEPT !.box = @ + 1, !.list = list, !.noUid = {}, !.node = OnlyRoot, !.ptrs = {},
                             !.unknown = {}, !.roots = <<>>, !.result = <<>>,
                             !.validity = "INVALIDATED",
                             !.commands = {IF c.done THEN c ELSE Answer(view, c) : c \in @}]
       IN view' = wantThreading(updateNoThreading(v), {})
    /\ cached' = {}
    /\ left' = [left EXCEPT !.turns = @ - 1, !.uids = MaxUid - n]
    /\ UNCHANGED <<above, prune>>

-----------------------------------------------------------------------------
\* setUserSearchingSortingPreference()
Preference(v, conds, criterion) ==
    LET w == searchSortPreferenceImplementation(
                 IF v.shallBeThreading THEN v ELSE updateNoThreading(v), conds, criterion)
    IN IF v.shallBeThreading /\ conds # v.conds THEN askForThreading(w) ELSE w

UserChanges ==
    /\ MayAct("user") /\ left.turns > 0
    /\ left' = [left EXCEPT !.turns = @ - 1]
    /\ UNCHANGED <<above, cached, prune>>

\* The field for searching is disabled while it is empty and there are no messages.
UserSearches(conds) ==
    /\ UserChanges /\ conds # view.conds
    /\ view.list # <<>> \/ view.conds # Everything
    /\ view' = Preference(view, conds, view.criterion)

UserSorts(criterion) ==
    /\ UserChanges /\ criterion # view.criterion
    /\ view' = Preference(view, view.conds, criterion)

\* slotThreadMsgList() goes back to SORT_NONE, and then calls setUserWantsThreading().
UserWantsThreading(enable) ==
    /\ UserChanges /\ enable # view.shallBeThreading
    /\ enable \/ view.conds = Everything \/ "user" \in Hurry
    /\ LET v == [IF view.criterion = "NONE" THEN view ELSE Preference(view, view.conds, "NONE")
                     EXCEPT !.shallBeThreading = enable]
       IN view' = IF enable THEN wantThreading(v, cached) ELSE updateNoThreading(v)

-----------------------------------------------------------------------------
\* The answers.
Execute(c) ==
    /\ Alive /\ c \in view.commands /\ ~c.done
    /\ view' = [view EXCEPT !.commands = (@ \ {c}) \cup {Answer(view, c)}]
    /\ UNCHANGED <<above, cached, prune, left>>

Without(v, c) == [v EXCEPT !.commands = @ \ {c}]

\* Nobody listens any more.
Ignored(c) ==
    /\ Alive /\ c \in view.commands /\ c.done
    /\ IF c.kind = "THREAD" THEN ~view.threadHeard ELSE ~c.heard
    /\ view' = Without(view, c)
    /\ UNCHANGED <<above, cached, prune, left>>

\* shouldIgnoreThisThreadingResponse() looks at the mailbox, not at the search.
Ours(v, c) == v.list # <<>> /\ c.box = v.box

slotThreadingAvailable(c) ==
    /\ Alive /\ c \in view.commands /\ c.done /\ c.kind = "THREAD" /\ view.threadHeard
    /\ LET v == [Without(view, c) EXCEPT !.threadingInFlight = FALSE]
           w == [v EXCEPT !.threadHeard = FALSE]
       IN IF Ours(v, c)
          THEN /\ cached' = Range(c.uids)
               /\ view' = IF w.shallBeThreading THEN wantThreading(w, cached') ELSE w
          ELSE view' = v /\ UNCHANGED cached
    /\ UNCHANGED <<above, prune, left>>

slotThreadingFailed(c) ==
    /\ Alive /\ c \in view.commands /\ ~c.done /\ c.kind = "THREAD" /\ view.threadHeard
    /\ left.turns > 0
    /\ LET v == [Without(view, c) EXCEPT !.threadingInFlight = FALSE]
       IN view' = IF Ours(v, c) THEN updateNoThreading([v EXCEPT !.threadHeard = FALSE]) ELSE v
    /\ left' = [left EXCEPT !.turns = @ - 1, !.refused = TRUE]
    /\ UNCHANGED <<above, cached, prune>>

\* Whichever task has the answer, it is m_sortTask that is not listened to any more.
SortTaskDone(v) ==
    [v EXCEPT !.commands = {IF c.id = v.task THEN [c EXCEPT !.heard = FALSE] ELSE c : c \in @},
              !.task = 0, !.broken = IF v.task = 0 THEN @ \cup {"crash"} ELSE @]

slotSortingAvailable(c) ==
    /\ Alive /\ c \in view.commands /\ c.done /\ c.kind # "THREAD" /\ c.heard
    /\ view' = wantThreading([SortTaskDone(Without(view, c)) EXCEPT
                                  !.result = c.uids,
                                  !.validity = IF @ = "ASKED" THEN "FRESH" ELSE @], cached)
    /\ UNCHANGED <<above, cached, prune, left>>

slotSortingFailed(c) ==
    /\ Alive /\ c \in view.commands /\ ~c.done /\ c.kind # "THREAD" /\ c.heard
    /\ left.turns > 0
    /\ view' = applySort(calculateNullSort(SortTaskDone(Without(view, c))))
    /\ left' = [left EXCEPT !.turns = @ - 1, !.refused = TRUE]
    /\ UNCHANGED <<above, cached, prune>>

Deliver(c) == slotThreadingAvailable(c) \/ slotSortingAvailable(c) \/ Ignored(c)

Next ==
    \/ \E hasUid \in BOOLEAN : Arrive(hasUid)
    \/ \E m \in Message : UidKnown(m) \/ RowRemoved(m)
    \/ delayedPrune
    \/ \E n \in InitialMessages : Switch(n)
    \/ \E conds \in Searches \cup {Everything} : UserSearches(conds)
    \/ \E criterion \in Criteria : UserSorts(criterion)
    \/ \E enable \in BOOLEAN : UserWantsThreading(enable)
    \/ \E c \in view.commands :
         Execute(c) \/ Deliver(c) \/ slotThreadingFailed(c) \/ slotSortingFailed(c)

\* The server answers, the answers are dispatched, UIDs come, timers go off.
Spec == Init /\ [][Next]_vars
        /\ WF_vars(\E m \in Message : UidKnown(m))
        /\ WF_vars(delayedPrune)
        /\ WF_vars(\E c \in view.commands : Execute(c))
        /\ WF_vars(\E c \in view.commands : Deliver(c))

-----------------------------------------------------------------------------
\* Each node is where its parent says it is, and offset, which rows are looked up by, is
\* its place.
NodesInPlace ==
    \A n \in DOMAIN view.node :
        LET kids == view.node[n].kids
        IN /\ \A i \in DOMAIN kids : /\ kids[i] \in DOMAIN view.node
                                     /\ view.node[kids[i]].parent = n
                                     /\ view.node[kids[i]].offset = i - 1
           /\ n # 0 => n \in Range(view.node[view.node[n].parent].kids)

\* pruneTree() takes fake nodes in the order of a hash table ("a random walk"): the
\* forest it leaves, the order of the messages included, does not depend on it.
PruneInAnyOrder ==
    \A f, g \in Fakes(view) :
        f # g => PruneNode(g, PruneNode(f, view)) = PruneNode(f, PruneNode(g, view))

\* The forest is one at all times, however messages come and go, and there is one way to
\* prune it, whatever the order (applyThreading(), pruneTree()).
TreeIsSound == NodesInPlace /\ PruneInAnyOrder

\* When everything has been answered the user sees the messages that he asked for,
\* all of them: as many trees as the server knows threads, or flat and sorted.
Wanted == Matching(view.conds, Listed(view))
Tree(n) == Below(view, {n})
ShowsWhatIsWanted ==
    Quiet /\ ~left.refused =>
        LET roots == view.node[0].kids IN
        /\ UNION {Tree(r) : r \in Range(roots)} = Wanted
        /\ view.shallBeThreading => \A r \in Range(roots) :
               Tree(r) = {m \in Wanted : First(m) = First(r)}
        /\ ~view.shallBeThreading =>
               /\ view.criterion # "NONE" => roots = BySize(Wanted)
               /\ view.criterion = "NONE" /\ view.conds = Everything => roots = Ascending(Wanted)

\* Commands are not sent forever: some day everything has been answered.
Settles == <>[]Quiet

\* No answer makes applySort() look up a message which the forest does not have, or
\* ends the program.
NothingBroken == view.broken = {}
=============================================================================
