------------------------------- MODULE MailboxList -------------------------------
(***************************************************************************)
(* The tree of mailboxes.  What is below a mailbox is asked for when a     *)
(* view first looks there, shown from the cache meanwhile, and replaced,   *)
(* objects and all, by what LIST says.  LIST responses carry no tag: they  *)
(* are collected for the connection, and each tagged answer takes from     *)
(* them what seems to be its own (Model::finalizeList()).  Mailboxes are   *)
(* created and deleted meanwhile, and the connection may be lost.          *)
(* A name is the sequence of what its separators separate.                 *)
(* Left out: numbers of messages, subscriptions, flags other than those    *)
(* about children, mailboxes which are open (Handover, Switching).         *)
(***************************************************************************)
EXTENDS Integers, Sequences, FiniteSets, SequencesExt, FiniteSetsExt

CONSTANTS
    Names,      \* of mailboxes, as sequences of numbers; what they are below is there, too
    Children,   \* the server says which mailboxes have none below them
    Mishaps,    \* what may happen while a LIST is under way
    MaxPending, \* how much may be asked for at a time
    Changes,    \* how many mailboxes the user creates and deletes
    Troubles    \* how often a command is refused, or the connection lost

Root == <<>>

ASSUME MailboxListAssumption ==
    /\ Names \subseteq Seq(Nat) \ {Root} /\ IsFiniteSet(Names)
    /\ \A n \in Names : Front(n) \in Names \cup {Root}
    /\ Children \in BOOLEAN
    /\ Mishaps \subseteq {"again", "below", "change", "broken"}
    /\ MaxPending \in Nat /\ Changes \in Nat /\ Troubles \in Nat

VARIABLES
    client,   \* the Model: its tree, its tasks, its connection
    cache,    \* the table child_mailboxes: who is below whom, by name
    server,   \* its mailboxes, and the LIST commands which it has not completed
    left      \* what is left of the bounds

vars == <<client, cache, server, left>>

-----------------------------------------------------------------------------
(* Names and mailboxes                                                      *)

Above(n) == Front(n)
IsBelow(n, m) == m # n /\ IsPrefix(m, n)

\* MailboxNameComparator
Before(m, n) ==
    \/ IsBelow(n, m)
    \/ \E i \in DOMAIN m \cap DOMAIN n :
         /\ m[i] < n[i]
         /\ \A j \in 1 .. (i - 1) : m[j] = n[j]

\* By name, like the rows.
Sorted(S) ==
    [k \in 1 .. Cardinality(S) |->
        CHOOSE r \in S : Cardinality({q \in S : Before(q.name, r.name)}) = k - 1]

\* What is left of a list: what stands in these places, in its order.
Kept(list, places) ==
    [k \in 1 .. Cardinality(places) |->
        list[CHOOSE i \in places : Cardinality({j \in places : j <= i}) = k]]

\* What LIST says below n.
Listing(names, n) ==
    {[name |-> m, childless |-> Children /\ ~\E k \in names : Above(k) = m] :
         m \in {k \in names : Above(k) = n}}

\* A TreeItemMailbox. The root is number 0; a QPersistentModelIndex of what has been
\* deleted is Gone.
Item(r) == [name |-> r.name, status |-> "NONE", childless |-> r.childless, children |-> <<>>]
Gone == -1

Subtrees(tree, S) ==
    LET below[i \in DOMAIN tree] ==
            {i} \cup UNION {below[k] : k \in Range(tree[i].children)}
    IN UNION {below[i] : i \in S}

SetStatus(c, i, status) == [c EXCEPT !.tree[i].status = status]

\* Rows are removed and what is below them is deleted: the children of i become those in
\* keep.
RemoveRows(c, i, keep) ==
    LET dead == Subtrees(c.tree, Range(c.tree[i].children) \ Range(keep))
    IN [c EXCEPT
          !.tree = [j \in DOMAIN c.tree \ dead |->
                      IF j = i THEN [c.tree[i] EXCEPT !.children = keep] ELSE c.tree[j]],
          !.tasks = [k \in DOMAIN c.tasks |->
                       IF c.tasks[k].item \in dead THEN [c.tasks[k] EXCEPT !.item = Gone]
                       ELSE c.tasks[k]]]

\* The objects that are made next; an address is not used again while a posted call holds it.
NewItems(c, n) ==
    LET used == DOMAIN c.tree \cup {c.later[k].item : k \in DOMAIN c.later}
        numbers == [i \in 1 .. (Cardinality(used) + n) |-> i]
    IN SubSeq(Kept(numbers, DOMAIN numbers \ used), 1, n)

\* Rows are inserted: the children of i become kids, those of them that are new are made of
\* the list of records.
InsertRows(c, i, kids, new, records) ==
    [c EXCEPT !.tree =
       [j \in DOMAIN c.tree \cup Range(new) |->
          IF j \in Range(new) THEN Item(records[CHOOSE k \in DOMAIN new : new[k] = j])
          ELSE IF j = i THEN [c.tree[i] EXCEPT !.children = kids]
          ELSE c.tree[j]]]

\* Model::replaceChildMailboxes(), with TreeItemMailbox::setChildren()
replaceChildMailboxes(c, i, records) ==
    LET emptied == RemoveRows(c, i, <<>>)
        new == NewItems(emptied, Len(records))
    IN SetStatus(InsertRows(emptied, i, new, new, records), i, "DONE")

\* Where a search goes on, the first child with a prefix of the name, and what it ends with.
NextChild(tree, i, n) ==
    LET kids == tree[i].children
        on == {k \in DOMAIN kids : IsPrefix(tree[kids[k]].name, n)}
    IN IF on = {} THEN Gone ELSE kids[Min(on)]

\* Model::findMailboxByName(): a mailbox that is named like that, or Gone.
findMailboxByName(tree, n) ==
    LET find[i \in DOMAIN tree] ==
            LET next == NextChild(tree, i, n)
            IN IF next = Gone \/ tree[next].name = n THEN next ELSE find[next]
    IN find[0]

\* Mutant: only the root is searched.
findTopMailboxByName(tree, n) ==
    LET tops == SelectSeq(tree[0].children, LAMBDA k : tree[k].name = n)
    IN IF tops = <<>> THEN 0 ELSE Head(tops)

\* Model::findParentMailboxByName(): the nearest one above that is known, whether or not it
\* is next above. A mailbox with that name is passed over.
findParentMailboxByName(tree, n) ==
    LET Strict(i) == SelectSeq(tree[i].children, LAMBDA k : IsBelow(n, tree[k].name))
        find[i \in DOMAIN tree] ==
            IF Strict(i) = <<>> THEN i ELSE find[Head(Strict(i))]
    IN find[0]

-----------------------------------------------------------------------------
(* The connection, its tasks and its LIST responses                         *)

\* The number that stands for the tag of a command, and for its task.
FreeTag(c) == Min({t \in 0 .. Len(c.tasks) : \A k \in DOMAIN c.tasks : c.tasks[k].tag # t})
TaskOf(c, tag) == c.tasks[CHOOSE k \in DOMAIN c.tasks : c.tasks[k].tag = tag]
WithoutTasks(c, tags) ==
    [c EXCEPT !.tasks = Kept(c.tasks, {k \in DOMAIN c.tasks : c.tasks[k].tag \notin tags})]

Command(what, name, tag) == [what |-> what, name |-> name, tag |-> tag]
Data(list) == [what |-> "data", list |-> list, tag |-> 0]
Tagged(what, tag) == [what |-> what, list |-> <<>>, tag |-> tag]

\* GetAnyConnectionTask finds the connection, or makes an OfflineConnectionTask.
AddTask(c, kind, name, item) ==
    [c EXCEPT !.tasks = Append(@, [tag |-> FreeTag(c), kind |-> kind, name |-> name,
         item |-> item, phase |-> IF c.online THEN "waiting" ELSE "offline"])]

\* runReadyTasks(): perform() of all that wait for the connection, in order. A
\* ListChildMailboxesTask whose mailbox is gone fails instead.
runReadyTasks(c) ==
    LET ready == {k \in DOMAIN c.tasks : c.tasks[k].phase = "waiting"}
        failed == {k \in ready : c.tasks[k].item = Gone}
        performed == Kept(c.tasks, ready \ failed)
    IN [c EXCEPT
          !.toServer = @ \o [k \in DOMAIN performed |->
                       Command(performed[k].kind, performed[k].name, performed[k].tag)],
          !.tasks = Kept([k \in DOMAIN c.tasks |->
                            IF k \in ready THEN [c.tasks[k] EXCEPT !.phase = "sent"]
                            ELSE c.tasks[k]],
                         DOMAIN c.tasks \ failed)]

\* Mutant: without an override of _failed().
FailedAsOthers(c, tags) == WithoutTasks(c, tags)

\* ListChildMailboxesTask::_failed(), any task's die()
Failed(c, tags) ==
    LET dying == {k \in DOMAIN c.tasks : c.tasks[k].tag \in tags}
        listed == {c.tasks[k].item : k \in {k \in dying : c.tasks[k].kind = "LIST"}}
    IN WithoutTasks([c EXCEPT !.tree = [i \in DOMAIN c.tree |->
                        IF i \in listed THEN [c.tree[i] EXCEPT !.status = "UNAVAILABLE"]
                        ELSE c.tree[i]]], tags)

\* What finalizeList() takes for the answer about n. The root has no separator, hence takes
\* everything; any other takes what is next below it, and leaves what is deeper.
Takes(n, r) == IF n = Root THEN TRUE ELSE r.name # Root /\ Above(r.name) = n
Taken(list, n) == {k \in DOMAIN list : Takes(n, list[k])}
\* About n itself: rubbish for finalizeList(), and all that finalizeIncrementalList() wants.
Own(list, n) == {k \in DOMAIN list : list[k].name = n}

\* One of each name, the first.
Unique(list) ==
    Sorted({list[k] : k \in {k \in DOMAIN list :
                               \A j \in 1 .. (k - 1) : list[j].name # list[k].name}})

\* SQLCache::setChildMailboxes(): names are the key of the table.
setChildMailboxes(rows, parent, records) ==
    LET named == {records[k].name : k \in DOMAIN records}
        others == {n \in DOMAIN rows : rows[n].parent # parent}
    IN [n \in others \cup named |->
          IF n \in named
          THEN [parent |-> parent,
                childless |-> records[CHOOSE k \in DOMAIN records : records[k].name = n].childless]
          ELSE rows[n]]

\* childMailboxes(), in no particular order. None are as good as no answer
\* (childMailboxesFresh()).
childMailboxes(rows, parent) ==
    Sorted({[name |-> n, childless |-> rows[n].childless] :
              n \in {k \in DOMAIN rows : rows[k].parent = parent}})

\* The caches of all that cannot have children are emptied as well.
RowsAfter(rows, parent, records) ==
    LET childless == {records[k].name : k \in {k \in DOMAIN records : records[k].childless}}
        listed == setChildMailboxes(rows, parent, records)
    IN [n \in {n \in DOMAIN listed : listed[n].parent \notin childless} |-> listed[n]]

\* Model::finalizeList()
Records(c, n) ==
    Unique(Kept(c.listResponses, Taken(c.listResponses, n) \ Own(c.listResponses, n)))
finalizeList(c, t) ==
    LET list == c.listResponses
        others == DOMAIN list \ (Taken(list, t.name) \cup Own(list, t.name))
    IN replaceChildMailboxes([c EXCEPT !.listResponses = Kept(list, others)],
                             t.item, Records(c, t.name))

\* Model::finalizeIncrementalList(), the answer to the LIST after CREATE: what was created is
\* put below the nearest mailbox that is known, before those that do not precede it.
finalizeIncrementalList(c, n) ==
    LET list == c.listResponses
        own == Kept(list, Own(list, n))
        rest == [c EXCEPT !.listResponses = Kept(list, DOMAIN list \ Own(list, n))]
        above == findParentMailboxByName(c.tree, n)
        kids == c.tree[above].children
        place == Cardinality({k \in DOMAIN kids :
                     \A j \in 1 .. k : Before(c.tree[kids[j]].name, n)}) + 1
        new == NewItems(c, 1)
    IN IF Len(own) # 1 THEN rest
       ELSE InsertRows(rest, above, InsertAt(kids, place, new[1]), new, own)

\* Mutant: all that is next to it goes as well.
RemoveRow(c, n) ==
    LET found == findMailboxByName(c.tree, n)
        above == CHOOSE i \in DOMAIN c.tree : found \in Range(c.tree[i].children)
    IN IF found = Gone THEN c ELSE RemoveRows(c, above, <<>>)

\* DeleteMailboxTask, when it is told that the mailbox is deleted
RemoveMailbox(c, n) ==
    LET found == findMailboxByName(c.tree, n)
        above == CHOOSE i \in DOMAIN c.tree : found \in Range(c.tree[i].children)
    IN IF found = Gone THEN c
       ELSE RemoveRows(c, above, SelectSeq(c.tree[above].children, LAMBDA k : k # found))

\* handleStateHelper() of the three tasks, for OK.
Completed(c, t) ==
    CASE t.kind = "LIST" /\ t.item = Gone -> WithoutTasks(c, {t.tag})
      [] t.kind = "LIST" /\ t.item # Gone -> WithoutTasks(finalizeList(c, t), {t.tag})
      [] t.kind = "CREATE" /\ t.phase = "sent" ->
           [c EXCEPT !.tasks = [k \in DOMAIN @ |-> IF @[k] = t THEN [t EXCEPT !.phase = "listing"]
                                                   ELSE @[k]],
                     !.toServer = Append(@, Command("LIST it", t.name, t.tag))]
      [] t.kind = "CREATE" /\ t.phase = "listing" ->
           WithoutTasks(finalizeIncrementalList(c, t.name), {t.tag})
      [] t.kind = "DELETE" -> WithoutTasks(RemoveMailbox(c, t.name), {t.tag})

-----------------------------------------------------------------------------
(* Views and the user                                                       *)

\* Who is being listed: there is a posted call, or a task.
Asked == {client.later[k].name : k \in DOMAIN client.later}
             \cup {client.tasks[k].name : k \in {j \in DOMAIN client.tasks : client.tasks[j].kind = "LIST"}}
Changed == {client.tasks[k].name : k \in {j \in DOMAIN client.tasks : client.tasks[j].kind # "LIST"}}

Room == Len(client.later) + Len(client.tasks) < MaxPending

\* Views and users that are not patient look below a mailbox which is being listed,
\* or created or deleted.
MayList(n) ==
    /\ Room
    /\ n \in Asked => "again" \in Mishaps
    /\ (\E m \in Asked : IsBelow(m, n) \/ IsBelow(n, m)) => "below" \in Mishaps
    /\ (\E m \in Changed : IsPrefix(n, m)) => "change" \in Mishaps
MayChange(n) ==
    /\ Room /\ left.changes > 0
    /\ (\E m \in Asked : IsPrefix(m, n)) => "change" \in Mishaps

\* TreeItemMailbox::fetchWithCacheControl(), for a mailbox whose status is NONE.
Fetch(c, i, forceReload) ==
    IF c.tree[i].childless THEN SetStatus(c, i, "DONE")
    ELSE [SetStatus(c, i, "LOADING") EXCEPT
            !.later = Append(@, [item |-> i, name |-> c.tree[i].name, forceReload |-> forceReload])]

\* Something looks at what is below a mailbox.
fetch(i) ==
    /\ client.tree[i].status = "NONE" /\ MayList(client.tree[i].name)
    /\ client' = Fetch(client, i, FALSE)
    /\ UNCHANGED <<cache, server, left>>

\* The user asks for it again: slotReloadMboxList(), reloadMailboxList()
rescanForChildMailboxes(i) ==
    /\ client.tree[i].status # "LOADING" /\ MayList(client.tree[i].name)
    /\ client' = Fetch(client, i, TRUE)
    /\ UNCHANGED <<cache, server, left>>

\* Model::askForChildrenOfMailbox(), called by the event loop. If the mailbox has been
\* deleted meanwhile freed memory is read: the program goes on as if nothing had been asked,
\* or it ends there.
askForChildrenOfMailbox ==
    /\ client.later # <<>>
    /\ LET ask == Head(client.later)
           c == [client EXCEPT !.later = Tail(@)]
           rows == childMailboxes(cache, ask.name)
           shown == replaceChildMailboxes(c, ask.item, rows)
       IN client' =
            IF ask.item \notin DOMAIN c.tree THEN c
            ELSE IF ~ask.forceReload /\ rows # <<>> THEN AddTask(shown, "LIST", ask.name, ask.item)
            ELSE IF c.online THEN AddTask(c, "LIST", ask.name, ask.item)
            ELSE SetStatus(c, ask.item, "UNAVAILABLE")
    /\ UNCHANGED <<cache, server, left>>

\* Model::createMailbox(), deleteMailbox(): the dialogs are about mailboxes that are shown.
Shown(n) == \E i \in DOMAIN client.tree : client.tree[i].name = n

createMailbox(n) ==
    /\ client.online /\ MayChange(n) /\ Shown(Above(n))
    /\ client' = AddTask(client, "CREATE", n, 0)
    /\ left' = [left EXCEPT !.changes = @ - 1]
    /\ UNCHANGED <<cache, server>>

deleteMailbox(n) ==
    /\ client.online /\ MayChange(n) /\ Shown(n)
    /\ client' = AddTask(client, "DELETE", n, 0)
    /\ left' = [left EXCEPT !.changes = @ - 1]
    /\ UNCHANGED <<cache, server>>

-----------------------------------------------------------------------------
(* The event loop and the connection                                        *)

\* The timer of GetAnyConnectionTask
Perform ==
    /\ client.online /\ \E k \in DOMAIN client.tasks : client.tasks[k].phase = "waiting"
    /\ client' = runReadyTasks(client)
    /\ UNCHANGED <<cache, server, left>>

\* Model::responseReceived(), for one response and what runs after it
responseReceived ==
    /\ client.toClient # <<>>
    /\ LET resp == Head(client.toClient)
           c == [client EXCEPT !.toClient = Tail(@)]
           t == TaskOf(c, resp.tag)
           listed == resp.what = "OK" /\ t.kind = "LIST" /\ t.item # Gone
       IN /\ client' = runReadyTasks(
                 CASE resp.what = "data" -> [c EXCEPT !.listResponses = @ \o resp.list]
                   [] resp.what = "OK" -> Completed(c, t)
                   [] resp.what = "NO" -> Failed(c, {t.tag}))
          /\ cache' = IF listed THEN RowsAfter(cache, t.name, Records(c, t.name)) ELSE cache
    /\ UNCHANGED <<server, left>>

\* killParser(): all tasks of the connection die; what has been collected goes with it.
ConnectionLost ==
    /\ client.online /\ left.troubles > 0
    /\ LET dead == {k \in DOMAIN client.tasks : client.tasks[k].phase # "offline"}
           c == Failed(client, {client.tasks[k].tag : k \in dead})
       IN client' = [c EXCEPT !.online = FALSE, !.toServer = <<>>, !.toClient = <<>>,
                              !.listResponses = <<>>]
    /\ server' = [server EXCEPT !.listing = <<>>]
    /\ left' = [left EXCEPT !.troubles = @ - 1]
    /\ UNCHANGED cache

\* setNetworkPolicy(): online again, what was shown is asked for again. Usually what was asked
\* for before has long failed.
NetworkOnline ==
    /\ ~client.online /\ (Asked # {} => "below" \in Mishaps)
    /\ LET c == [client EXCEPT !.online = TRUE]
       IN client' = IF c.tree[0].status \in {"NONE", "LOADING"} THEN c ELSE Fetch(c, 0, TRUE)
    /\ UNCHANGED <<cache, server, left>>

\* OfflineConnectionTask
OfflineFails ==
    /\ \E k \in DOMAIN client.tasks :
         /\ client.tasks[k].phase = "offline"
         /\ \A j \in 1 .. (k - 1) : client.tasks[j].phase # "offline"
         /\ client' = Failed(client, {client.tasks[k].tag})
    /\ UNCHANGED <<cache, server, left>>

-----------------------------------------------------------------------------
(* The server                                                               *)

Say(resps) == [client EXCEPT !.toServer = Tail(@), !.toClient = @ \o resps]
NextCommand == Head(client.toServer)

\* It may begin a LIST before it has completed those before, but what changes mailboxes waits.
ServerLists ==
    /\ client.toServer # <<>> /\ NextCommand.what = "LIST"
    /\ client' = Say(<<Data(Sorted(Listing(server.names, NextCommand.name)))>>)
    /\ server' = [server EXCEPT !.listing = Append(@, NextCommand.tag)]
    /\ UNCHANGED <<cache, left>>

ServerCompletes ==
    /\ server.listing # <<>>
    /\ \/ client' = [client EXCEPT !.toClient = Append(@, Tagged("OK", Head(server.listing)))]
          /\ UNCHANGED left
       \/ "broken" \in Mishaps /\ left.troubles > 0
          /\ client' = [client EXCEPT !.toClient = Append(@, Tagged("NO", Head(server.listing)))]
          /\ left' = [left EXCEPT !.troubles = @ - 1]
    /\ server' = [server EXCEPT !.listing = Tail(@)]
    /\ UNCHANGED cache

\* What CREATE and DELETE make of the mailboxes; what is not there cannot be deleted, nor what
\* has something below it.
Changeable(what, n) ==
    IF what = "CREATE" THEN n \notin server.names /\ Above(n) \in server.names \cup {Root}
    ELSE n \in server.names /\ ~\E m \in server.names : Above(m) = n

ServerChanges ==
    /\ client.toServer # <<>> /\ NextCommand.what \in {"CREATE", "DELETE"} /\ server.listing = <<>>
    /\ Changeable(NextCommand.what, NextCommand.name)
    /\ client' = Say(<<Tagged("OK", NextCommand.tag)>>)
    /\ server' = [server EXCEPT !.names = IF NextCommand.what = "CREATE" THEN @ \cup {NextCommand.name}
                                          ELSE @ \ {NextCommand.name}]
    /\ UNCHANGED <<cache, left>>

\* LIST of what has just been created
ServerListsOne ==
    /\ client.toServer # <<>> /\ NextCommand.what = "LIST it" /\ server.listing = <<>>
    /\ LET found == {r \in Listing(server.names, Above(NextCommand.name)) : r.name = NextCommand.name}
       IN client' = Say(<<Data(Sorted(found)), Tagged("OK", NextCommand.tag)>>)
    /\ UNCHANGED <<cache, server, left>>

ServerRefuses ==
    /\ client.toServer # <<>> /\ server.listing = <<>>
    /\ \/ NextCommand.what \in {"CREATE", "DELETE"} /\ ~Changeable(NextCommand.what, NextCommand.name)
          /\ UNCHANGED left
       \/ NextCommand.what \in {"LIST", "CREATE", "DELETE"} /\ left.troubles > 0
          /\ left' = [left EXCEPT !.troubles = @ - 1]
       \/ NextCommand.what = "LIST it" /\ "broken" \in Mishaps /\ left.troubles > 0
          /\ left' = [left EXCEPT !.troubles = @ - 1]
    /\ client' = Say(<<Tagged("NO", NextCommand.tag)>>)
    /\ UNCHANGED <<cache, server>>

-----------------------------------------------------------------------------
\* Mailboxes come with all that they are below. The cache is what an earlier session has
\* listed, from the root on or not at all.
Closed(names) == \A n \in names : Above(n) \in names \cup {Root}

Init ==
    /\ client = [tree |-> [i \in {0} |-> Item([name |-> Root, childless |-> FALSE])],
                 later |-> <<>>, tasks |-> <<>>, online |-> TRUE,
                 toServer |-> <<>>, toClient |-> <<>>, listResponses |-> <<>>]
    /\ server \in [names : {S \in SUBSET Names : Closed(S)}, listing : {<<>>}]
    /\ \E S \in SUBSET Names :
         /\ Closed(S)
         /\ cache = [n \in S |-> [parent |-> Above(n),
                                  childless |-> Children /\ ~\E k \in S : Above(k) = n]]
    /\ left = [changes |-> Changes, troubles |-> Troubles]

Items == DOMAIN client.tree

Views ==
    \/ \E i \in Items : fetch(i)
    \/ \E i \in Items : rescanForChildMailboxes(i)
    \/ \E n \in Names : createMailbox(n)
    \/ \E n \in Names : deleteMailbox(n)

Loop == askForChildrenOfMailbox \/ Perform \/ responseReceived \/ OfflineFails
Server == ServerLists \/ ServerCompletes \/ ServerChanges \/ ServerListsOne \/ ServerRefuses

Next == Views \/ Loop \/ Server \/ ConnectionLost \/ NetworkOnline

Spec == Init /\ [][Next]_vars

-----------------------------------------------------------------------------
(* Properties                                                               *)

Statuses == {"NONE", "UNAVAILABLE", "LOADING", "DONE"}
Entries == [name : Names, childless : BOOLEAN]

TypeOK ==
    /\ \A i \in Items :
         /\ i \in Nat
         /\ client.tree[i] \in [name : Names \cup {Root}, status : Statuses, childless : BOOLEAN,
                                children : Seq(Items \ {0})]
    /\ client.later \in Seq([item : Nat, name : Names \cup {Root}, forceReload : BOOLEAN])
    /\ client.tasks \in Seq([tag : Nat, kind : {"LIST", "CREATE", "DELETE"},
                             name : Names \cup {Root}, item : Items \cup {Gone},
                             phase : {"waiting", "sent", "listing", "offline"}])
    /\ client.listResponses \in Seq(Entries) /\ client.online \in BOOLEAN
    /\ server \in [names : SUBSET Names, listing : Seq(Nat)]
    /\ DOMAIN cache \subseteq Names

\* A mailbox that shows "loading" is not forgotten: a call is posted or a task is under way
\* which will end it. fetch() does nothing more for it, and neither does the user's
\* reload, so that it would be loading for ever.
LoadingIsAwaited ==
    \A i \in Items : client.tree[i].status = "LOADING" =>
        \/ \E k \in DOMAIN client.later : client.later[k].item = i
        \/ \E k \in DOMAIN client.tasks : client.tasks[k].kind = "LIST" /\ client.tasks[k].item = i

\* A call that is posted with a QModelIndex meets the mailbox it was posted for.
AsksMeetTheirMailbox == \A k \in DOMAIN client.later : client.later[k].item \in Items

\* What LIST said is not kept when no LIST is under way: the next answer would take it.
Collects(t) == t.kind = "LIST" \/ t.phase = "listing"
NothingLeftOver ==
    client.listResponses # <<>> => \E k \in DOMAIN client.tasks : Collects(client.tasks[k])

\* When nothing is under way, what is shown below a mailbox as fetched, in a tree that is fetched
\* above it, is what the server has there: each once, in order.
Settled == client.online /\ client.later = <<>> /\ client.tasks = <<>>
Valid == {i \in Items : \A j \in Items : i \in Subtrees(client.tree, {j}) => client.tree[j].status = "DONE"}
NamesBelow(i) == [k \in DOMAIN client.tree[i].children |-> client.tree[client.tree[i].children[k]].name]
TreeIsServers ==
    Settled =>
        \A i \in Valid :
            LET listing == Sorted(Listing(server.names, client.tree[i].name))
            IN NamesBelow(i) = [k \in DOMAIN listing |-> listing[k].name]

\* A nested mailbox does not show up beneath one which is not next above it.
NestedStaysNested ==
    \A i \in Items : \A k \in DOMAIN client.tree[i].children :
        Above(client.tree[client.tree[i].children[k]].name) = client.tree[i].name
===============================================================================
