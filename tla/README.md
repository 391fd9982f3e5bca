# Trojitá in TLA+

Trojitá is an IMAP client: a tree of mailboxes and messages (`Imap::Mailbox::Model`)
that tasks fill from one or more connections and from a cache on disk. This directory
holds a model of it in TLA+, the configurations with which TLC checks the model, and
proofs of theorems about it for TLAPS. Paths below are relative to the repository;
`OB` is `src/Imap/Tasks/ObtainSynchronizedMailboxTask.cpp`, `KO` is
`src/Imap/Tasks/KeepMailboxOpenTask.cpp`, `MT` is `src/Imap/Model/MailboxTree.cpp`, `IL` is
`src/Imap/Tasks/IdleLauncher.cpp`, `PA` is `src/Imap/Parser/Parser.cpp`, `OC` is
`src/Imap/Tasks/OpenConnectionTask.cpp`, `TH` is `src/Imap/Model/ThreadingMsgListModel.cpp`,
`QW` is `src/qwwsmtpclient/qwwsmtpclient.cpp`, `SU` is `src/Composer/Submission.cpp`, `IT` is
`src/Imap/Tasks/ImapTask.cpp`.

## 1. The system

### Components and how they interact

A `Parser` turns bytes of a socket into responses, and commands into bytes. `Model`
takes the responses of each parser in order and offers each one to the tasks of that
connection; a task (`ImapTask`) is a state machine that sends commands, handles
responses, and completes or fails. Everything runs in one thread, driven by Qt's event
loop: a step is one response, one timer or one request of the user, and other steps
come in between. An exception in a handler kills the connection.

| Component (state) | Operations | Interaction | What is hard | What makes it correct |
|---|---|---|---|---|
| `ObtainSynchronizedMailboxTask` (phase, the state of the cache, which command is pending) | SELECT, choice of a way to synchronize, UID SEARCH, UID FETCH, FETCH FLAGS, and each response meanwhile | changes the list of messages, reads and writes the cache, gives way to `KeepMailboxOpenTask` | what the server announces in each phase, a cache from long ago, a connection lost on the way | the list and its flags become those of the server; the cache holds what it promises |
| `KeepMailboxOpenTask` (pending UID FETCH, counters of saving, timers, queues of parts and envelopes, mailboxes waiting for the connection) | EXISTS, EXPUNGE, VANISHED, FETCH, throttled saving, NOOP, IDLE, handover | as above; other tasks of the mailbox depend on it | several arrivals at once, saves put off, the next mailbox | the list follows the mailbox; everything is saved at last; EXISTS is the number of messages |
| `TreeItemMailbox`, `TreeItemMsgList`, `SyncState` (messages, UIDs, flags, status) | `handleExists`, `handleExpunge`, `handleVanished`, `handleFetchResponse`, `saveSyncStateAndUids` | called by both tasks | UIDs not known yet, UIDs out of order | UIDs ascend; no message is lost or taken for another |
| Cache (`SQLCache`, `CombinedCache`, `DiskPartCache`) | sync state, UID map, flags, parts, metadata; one delayed transaction | read at SELECT, written by both tasks | a crash between writes | what a session finds is sound |
| `Model`, `ImapTask`, `ParserState` (tree of tasks, policy, parsers) | dispatch, batches of 100 responses, going offline, `killParser` | everything | a task that dies while others wait for it | each task completes or fails once |
| `Parser` (queue of commands; continuation, IDLE, STARTTLS, COMPRESS flags) | `queueCommand`, `executeCommands`, `processLine` | socket, tasks | a flag left set stops everything | commands leave in order; none is stuck |
| `OpenConnectionTask` (`connState`, password, capabilities) | greeting, CAPABILITY, STARTTLS, certificate, LOGIN | user interface, parser | the password and the certificate come from the user at any time | no LOGIN before the policy is met; each password tried once |
| `IdleLauncher` (two timers, two flags) | enter, leave, renew IDLE | parser, `KeepMailboxOpenTask` | IDLE refused or ended by the server while it is being left | no assertion fails, IDLE is resumed |
| `ThreadingMsgListModel`, `SortTask`, `ThreadTask` (tree of threads) | threading, sorting, removal and arrival of rows | the list of messages, server | an answer about a list that is no more | each message appears once |
| `Composer::Submission`, MSA (progress, UID of the saved copy) | APPEND, GENURLAUTH, SMTP/sendmail/SUBMIT, flags of the original | tasks, password, the window of the composer | each step may fail, sending again | what is sent is what was written; one attempt at a time; success means sent |
| `MSA::SMTP`, `QwwSmtpClient` (queue of commands, the stage of its head) | connect, EHLO, STARTTLS, AUTH, MAIL/RCPT/DATA, QUIT | server, `Submission` | commands are queued before the connection is there; a server that refuses or hangs up at any line | one verdict per attempt; nothing before the encryption asked for |
| `ListChildMailboxesTask`, `CreateMailboxTask`, `DeleteMailboxTask`, `TreeItemMailbox` (the tree of mailboxes, LIST responses of a connection) | what is below a mailbox: from the cache, then from the server; CREATE, DELETE | the tree, the table of child mailboxes, views, posted calls | LIST responses have no owner; objects are replaced while calls and tasks are about them | the tree is that of the server; nothing loads for ever |
| `NetworkWatcher` (timer, session) | reconnect with growing delay | policy of `Model` | failures, the user, the network | it tries again, and not when told not to |

Leaving aside: presentation (`Gui`, proxy models, `UiUtils`), formatting (composer,
parsers of responses and of RFC 5322 text), wrappers of libraries (sockets, GpgME,
plugins, D-Bus), third-party and generated code. `PROJECT.json` lists them all, and
under "hazards" the places where a test hardly reaches.

### The plan

The order was that of importance: what is wrong in the list of messages stays wrong in
the cache. Done:

1. Synchronizing one mailbox over several connections (`MailboxSession` and the modules
   below it), with `ExistsMatchesList` and `SavedUidNextGrows` proved.
2. The keeper of a connection (`CommandQueue`, `Idle`, `Handover`), its safety proved
   (`HandoverClientProofs`, `HandoverProofs`).
3. The cache over crashes (`Cache`), all that is checked of it proved (`CacheProofs`).
4. Opening connections and reconnecting (`Connection`), its invariants proved
   (`ConnectionProofs`).
5. Sending: the abstract agent `Msa`, `Smtp` which implements it, `Submission` which relies
   on it; the invariants of both and the steps of the refinement proved
   (`SendingProofs`).
6. The threaded, sorted and searched list (`Threading`).
7. Several mailboxes that take turns on one connection (`Switching`), with
   `CommandsMeetTheirMailbox` proved (`SwitchingProofs`).
8. The tree of mailboxes (`MailboxList`), with `LoadingIsAwaited` proved
   (`MailboxListProofs`).

Left, in this order:

9. The tree of tasks: `killParser()`, dependent tasks that fail; copy and move, expunge.
10. More of the tree of mailboxes: SUBSCRIBE, STATUS and the numbers of messages.
11. Pure algorithms: `Sequence`, `RingBuffer`.
12. Proofs: `ResponsesReachTheirMailbox`, on the invariant of `SwitchingProofs`; `NothingIsLeftBehind`.

## 2. The modules

`MailboxTree` <- `ImapServer` <- `MailboxClient` <- `ObtainSync` <- `KeepOpen` <-
`MailboxSession`, each extending the one before, follow the messages of one mailbox;
`CommandQueue` <- `Idle` <- `Handover` follow the commands of one connection;
`MailboxLoops` stands beside them. `Cache` looks at what one mailbox leaves on disk, over
more sessions and crashes than the first chain can. `Connection` opens the connections
which both chains find open. `Msa` is what `Submission` believes of an agent: `Submission` has
one instance of it per attempt, `Smtp` implements it. `Threading` shows the list to the user.
`Switching` has several mailboxes, one after the other, on one connection. `MailboxList` is the
tree they are found in.
The two chains meet in `KeepMailboxOpenTask`: the first
has what its responses mean for the list and takes for granted that its commands get
through, the second shows that they do and knows of the list only that there are arrivals.

* `MailboxTree`: the data. A message of the list is a record of its UID (0: unknown),
  its flags and whether it has been counted; `SyncState` has the four numbers of the
  code and the set of those that have been given (`has`). The operators are those of
  `MT`, `MailboxMetadata.cpp`, and `applyUids()` of `OB`, in closed form: which rows go,
  which stay, what leaves the cache.
* `ImapServer`: what is outside the repository: the server, other clients, and the
  connection as a sequence in each direction. It keeps RFC 3501 and 7162: UIDs ascend and
  are not reused, commands are executed in order, EXPUNGE and VANISHED come only while
  UID SEARCH, UID FETCH or NOOP is in progress. What it announces while the client is
  synchronizing is a constant, for it is there that the code makes assumptions. Changes
  are announced at once. `Mistake` is a response that contradicts the mailbox.
* `MailboxClient`: dispatch of the first response (`Model::responseReceived()`), the
  handlers of `TreeItemMailbox` and the saves they make.
* `ObtainSync`: one action per response and phase. `FinalizeSelect` is the disjunction
  of the ways to synchronize, in the order and with the conditions of
  `finalizeSelect()`. `Perform` is SELECT.
* `KeepOpen`: one action per response while the mailbox is open, throttled saving with
  its timer, and NOOP (which stands for IDLE as well: both let the server send EXPUNGE).
* `MailboxSession`: the composition, lost connections, `Spec`, `FairSpec`, and the
  properties. `MCSessions` puts four of them side by side, one per kind of server.
* `MailboxLoops`: the loops of `FindWithUnknown.h`, `handleVanished()` and `applyUids()`
  as written, recursively; `MCMailboxSession` compares them with the closed forms.
* `CommandQueue`: the parser: `queueCommand()`, `executeCommands()`, `executeACommand()`, the
  responses, the three methods by which `IdleLauncher` tells it of IDLE, and the posted
  events of Qt's loop.
* `Idle`: `IdleLauncher`, its two timers and its two flags.
* `Handover`: `KeepMailboxOpenTask` from the end of `perform()` on: dependent tasks, downloads
  of parts, arrivals, `slotActivateTasks()`, `slotTaskDeleted()`, `closeMailboxDestructively()`,
  `stopForLogout()`, `terminate()`; the dispatch of responses in `Model`; a server that may
  refuse or end IDLE; the user; the properties.
* `MailboxList`: what is below a mailbox is asked for by a call that is posted (`fetchWithCacheControl()`),
  shown from the cache, then replaced by what LIST says (`finalizeList()`), objects and all;
  CREATE, with its LIST, and DELETE change single rows; lost connections, going online again, and
  the server's mailboxes. `MCMailboxList` says which mailboxes there may be, and has a patient and
  a hasty instance.
* `Switching`: a pair of `KeepMailboxOpenTask` and `ObtainSynchronizedMailboxTask` is a record,
  `client.tasks[k]`, made when a mailbox is opened; the pair waits in `waitingObtainTasks` of
  another until `terminate()` hands the connection on. Responses go to the first active task
  that takes them; how tasks die with each other is `Failed` and `KeepDies`. What a task
  does with its data is in the first chain, IDLE and limits are in `Handover`.
* `Cache`: `SQLCache` with its transaction and two timers, the choice of `CombinedCache` between
  database and files, and the calls by which both tasks of a mailbox fill, trust and forget
  what is there. What is stored for a UID is the UIDVALIDITY of the message it came from.
* `Connection`: the record of a connection is `ParserState`, `OpenConnectionTask` and the server's
  side of the socket; one action per response, per answer of the user and per timer. One
  connection at a time is not in LOGOUT, but the earlier ones may linger.
* `Msa`: the abstract agent that submits a message: it asks for a password, sends, and tells
  of the end once. `Smtp`: `MSA::SMTP` and the client library; its queue has a record per
  command, its `answers` one disjunct per line that the server may say to each.
* `Submission`: the states of `Composer::Submission`, the tasks it waits for, the window, and
  the agents of all attempts, each an instance of `Msa`. `MCSending` puts the
  agent and the attempts side by side.
* `Threading`: the forest (`node`, by internal ID) and the operations of
  `ThreadingMsgListModel`; the server threads, searches and sorts what it has when it
  executes the command (`Execute`), and the answer is handled later (`Deliver`).
* `MailboxSessionProofs`, `MailboxListProofs`, `CacheProofs`, `SendingProofs`,
  `SwitchingProofs`, `ConnectionProofs`, `HandoverClientProofs`, `HandoverProofs`: the proofs.

### State

| Model | Code |
|---|---|
| `children`, `fetchStatus`, `numbersFetched` | `TreeItemMsgList::m_children`, its fetch status and `m_numberFetchingStatus` |
| `syncState`, `oldSyncState` | `TreeItemMailbox::syncState`, `oldSyncState` of the task |
| `cachedSync`, `cachedUids`, `cachedFlags` | `AbstractCache::mailboxSyncState`, `uidMapping`, `msgFlags` |
| `status`, `usingQresync`, `onlyNew`, `firstUnknownUidOffset`, `flagsCmd` | members of `ObtainSynchronizedMailboxTask` |
| `newArrivalsFetch` | number of tags in `newArrivalsFetch` of the task in charge |
| `performedStateSynces`, `skippedStateSynces`, `syncingTimer` | `m_performedStateSynces`, `m_skippedStateSynces`, `m_syncingTimer->isActive()` |
| `phase` | which task is in charge: none, Obtain, Keep |
| `failure` | the exception that ended the session, or the assertion that failed |
| `store`, `gone`, `c2s`, `s2c`, ... | the server and the connection |

The state of `Handover` is one record, `client`, since one handler calls methods of several
objects before the loop goes on; a handler is a function of the record.

| Field of `client` | Code |
|---|---|
| `cmdQueue`, `respQueue`, `idling`, `waitForInitialIdle`, `waitingForContinuation`, `literalCommandTag` | members of `Parser` of these names |
| `posted`, `handler` | events posted to the loop (`singleShot(0)`, queued signals, `deleteLater()`) in their order; the handler that runs |
| `launcher`, `mIdling`, `idleCommandRunning`, `delayedEnter`, `renewal` | `idleLauncher` and its `m_idling`, `m_idleCommandRunning`, `delayedEnter`, `renewal` |
| `tagIdle`, `tagClose`, `shouldRunIdle`, `shouldExit`, `isRunning`, `finished`, `aborted` | members of `KeepMailboxOpenTask` and `ImapTask` |
| `depending`, `dependingAny`, `running` | `dependingTasksForThisMailbox`, `dependingTasksNoMailbox`, `runningTasksForThisMailbox` |
| `requested`, `fetching`, `fetchTimer`, `arrivals` | `requestedParts`, `fetchPartTasks`, `fetchPartTimer`, `newArrivalsFetch` |
| `active`, `present`, `online`, `logout` | `activeTasks` of `ParserState`, whether the task is its `maintainingTask`, the parser's connection |
| `obtaining`, `deleting` | the `ObtainSynchronizedMailboxTask` or `DeleteMailboxTask` that waits |
| `asked`, `answered`, `failed` | history: tasks of the user, their answers, assertions and exceptions |

Of the other modules:

| Model | Code |
|---|---|
| `Switching`: `active`, `connState`, `maintaining`, `inCharge` | `activeTasks`, `connState`, `maintainingTask` of `ParserState`; `maintainingTask` of each mailbox |
| `tasks[k]`: `obtain`, `isRunning`, `waiting`, `depending`, `busy`, `arrivals` | `status` and the end of the `ObtainSynchronizedMailboxTask`; members of `KeepMailboxOpenTask`, lists of tasks as their lengths |
| `successor`, `watchers` | to whose `failed()`, and to which `destroyed()`, a keeper is connected |
| `Cache`: `sql`, `durable`, `disk` | the database inside the transaction and without it; the files of `DiskPartCache` |
| `txn` | `inTransaction`, what is left of `delayedCommit` and `tooMuchTimeWithoutCommit`; `age` is history |
| `client.phase`, `client.list`, `client.full` | `status` of `ObtainSynchronizedMailboxTask`, "open" once it is completed; whether the list is DONE; it synchronizes from nothing |
| `alone` of a database, `unforgotten` | history: the sync state has been saved by a FETCH since the UID map was; a session found that, and another UIDVALIDITY |
| `Connection`: `state`, `task`, `cmds` | `ParserState::connState`, the task among `activeTasks`, commands without an answer |
| `frozen`, `socket` | `waitingForConnection`, `waitingForEncryption`, `waitingForSslPolicy` of `Parser`; `Socket` |
| `fresh`, `caps`, `epoch` | `capabilitiesFresh`, `capabilities`; history: what the server announced them for |
| `m.password`, `m.prompts` | `m_imapPassword`, `m_hasImapPassword`; open dialogs |
| `m.policy`, `m.desired`, `m.timer` | `netPolicy` of `Model`, `m_netDesired` and `m_reconnectTimer` of `NetworkWatcher` |
| `Smtp`: `queue`, `inProgress`, `authModes` | `commandqueue` (type, `stage`, recipients), `inProgress`, `authModes` |
| `waiting`, `failed`, `cancelled`, `told` | `isWaitingForPassword`, `failed`, how `cancel()` found it; history of the signals |
| `Submission`: `sub` | members of `Submission`; a text is the number of the attempt it was written for |
| `tasks`, `agents`, `payload`, `window` | `AppendTask`, `GenUrlAuthTask`, `UpdateFlagsTask`; the MSAs; what each was given; `ComposeWidget` |
| `MailboxList`: `client.tree` | the `TreeItemMailbox` objects by number, 0 the root: name, status, `\HasNoChildren`, rows |
| `client.later`, `client.tasks` | calls of `askForChildrenOfMailbox()` that are posted; the three kinds of tasks (`item` is a `QPersistentModelIndex`) |
| `listResponses`, `cache` | that of `ParserState`; the table `child_mailboxes` |
| `Threading`: `view.node`, `list`, `noUid` | `threading`, the rows of the mailbox, those without UID |
| `threadingInFlight`, `shallBeThreading`, `criterion`, `conds`, `result`, `resultValid` | members of `ThreadingMsgListModel` |

### What is abstract

* The flags of a message are the mod-sequence of their last change: two values are equal
  just when the flags are the same. They are compared for equality only, in the model and
  in the code.
* The untagged OKs with UIDVALIDITY, UIDNEXT, HIGHESTMODSEQ are one response, `CODES`;
  without CONDSTORE the number is 0, which stands for NOMODSEQ.
* A lost connection and a lost process are one action: after either the tree is built
  anew from the list of mailboxes (`Model::setNetworkPolicy()`, `reloadMailboxList()`), so
  that only the cache remains. An exception in a handler ends in the same state.
* The cache is written at once in `MailboxSession`. `SQLCache` commits up to 10 s later, but
  in one transaction and in order, so that a late commit is an earlier loss; what is beside
  the transaction, and losses between any two writes, is what `Cache` is about.
* A finished task is deleted; its members then have one value, so that TLC does not
  tell apart states which cannot be told apart.
* Counters are unchecked natural numbers. The code's are `uint`, and `TypeOK` says that
  none passes below 0. `OnlyAdditions` compares two differences; taken modulo 2^32, as in
  the code, they are equal in the same cases.
* A failed `Q_ASSERT` of the first chain is recorded in `failure`; the program goes on, as a release build
  does, unless the next access would be out of range: that ends the session.

In `Handover`:

* A task of the user is one command and one answer; which tasks have synchronizing
  literals, need no mailbox, or download parts are constants. A `GetAnyConnectionTask` and
  the task that waits for it are one. Envelopes are requested like parts and are not
  distinguished. FETCH and the OK of the UID FETCH for an arrival are one response.
* The server answers commands in any order, except SELECT and CLOSE, which wait for the
  commands about the mailbox (RFC 3501, 5.5). What it announces are arrivals.
* A timer is stopped, started, or due; it becomes due only when no event is posted, since
  the shortest takes a second.
* A failed `Q_ASSERT` or an exception is recorded in `failed` and ends the model (`Sound`).

In the others:

* `Switching`: synchronizing is SELECT, and perhaps one UID SEARCH; data are EXISTS and FETCH,
  of which only the mailbox they are about matters; a task of the user is one STORE. A
  refused SELECT may or may not come with [CLOSED]. `Sound` is as in `Handover`.
* `Cache`: raw and decoded parts, flags, child mailboxes and the saved THREAD response are not
  distinguished. A tick is a unit of the timers. Which data a session asks for is free; how
  the tasks got to know the mailbox is left to `MailboxSession`. Every server may say MODSEQ at any
  time. EXISTS and the UIDs of the arrivals are one step, and from it the list is LOADING; arrivals that
  QRESYNC leaves without UID while the list is DONE (OB:323) save what `FetchModSeq` in phase "flags" saves.
* `Connection`: an answer and all that is done about it is one step; what is posted to the
  loop is another. Which capabilities the server announces goes with the `epoch`: before
  encryption, after it, after LOGIN. Delays of reconnecting have no length.
* `MailboxList`: a name is the sequence of its parts, and rows are in the order of names. What a LIST
  says comes as one response, tagged answers as others, in between anything may come. The server
  may begin one LIST before it has completed another, in which the order of the answers is that
  of the commands; what changes mailboxes waits (RFC 3501, 5.5). `GetAnyConnectionTask` and the task
  that waits for it are one. A posted call that finds its mailbox deleted reads freed memory:
  it does nothing, or the program ends. An object's number is used again, as an address is, but
  not while a call holds it.
* `Smtp`: a reply is the class of its code where the code looks at no more. `Submission`: progress
  and forwarding are left out, and settings are those that decide about saving and BURL.
* `Threading`: a message, its UID and its node are one number, for internal IDs are not used
  twice between two rebuildings. Each message answers an earlier one or none.

## 3. What TLC checks

Each property has a comment where it is defined. The runs (times with two workers):

| Run | Question | Bounds, distinct states, time |
|---|---|---|
| `sessions` | Does the list become the mailbox, flags included, in two sessions with everything in between? Does the cache hold what it promises, does a handler throw or an assertion fail? | four servers, see below; 3 UIDs, one loss; 1.5 million, 3 min |
| `condstore_chatter` | Everything announced at any moment: EXISTS, UIDNEXT of the cache. Do the loops as written compute the closed forms? | 3 mod-sequences, 2 connections; lists of 4, UIDs to 5, all sets; 566 thousand, 100 s |
| `liveness` | Synchronizing ends, the list follows, everything is saved | 3 mod-sequences, fairness; 167 thousand, 75 s |
| `handover` | Do the flags of `Parser`, `IdleLauncher` and `KeepMailboxOpenTask` agree, is each command sent once, is nothing but DONE written into an IDLE, does SELECT come last, which assertions can fail? | 2 tasks (an APPEND with a literal that needs no mailbox, a part), 1 arrival, IDLE refused or ended at any time, another mailbox opened or this one deleted; 676 thousand, 50 s |
| `handover_live` | Is every task answered, does the next mailbox get the connection, does LOGOUT get through? | 3 tasks (one with a literal, two parts), IDLE refused at any time, [CLOSED], fairness |
| `cache` | Is what the open mailbox finds in the cache of this mailbox, is what is committed of one, how much does a crash cost? | 2 UIDs, 3 lives of the mailbox, 1 crash, both timers of one tick; 4.2 million, 2 min |
| `connection` | Are capabilities current, is there one dialog at a time, is LOGIN said only when allowed? Does every attempt end, does the network come back? | 2 connections, 1 refused LOGIN, 2 choices of the user, 1 outage, fairness; 177 thousand, 100 s |
| `sending` | Does each line of the server meet its command, is nothing said before the encryption asked for, does the agent implement `Msa`, its fairness included? Is what is sent what was written, one attempt at a time, is success true, and does each attempt end? | 2 recipients, every account, every answer; 3 attempts; 20010, 13 s |
| `threading` | Is the forest one at all times, is pruning free of order, is what is shown what was asked for? | 3 UIDs, all threads of them, 2 turns of the user or refusals, 2 searches that overlap, 1 sort criterion; 902 thousand, 45 s |
| `switching` | Do commands and responses meet the mailbox they are about, and is whoever opens a mailbox told? | 3 mailboxes, 1 task of the user, 1 arrival; with and without [CLOSED], SELECT and UID SEARCH refused at any time, fairness; 449 thousand, 2 min |
| `mailboxes` | Is the tree that of the server, do posted calls find their mailbox, is no LIST response left? Is there always something that will end "loading"? | patient: 3 mailboxes, one below another, 2 changes, 1 refusal or lost connection; hasty: 2 mailboxes, one below the other, everything in `Mishaps`, 1 change, 1 refusal or loss, also halfway; 385 thousand, 18 s |
| `v_old_mailbox` | Section 4 | |

Deadlock is checked of mailboxes: a session never gets stuck, since an open mailbox can
always poll; in `Handover` and `Switching` only a state in which nothing is left to do (`Ended`) may last. It is
not checked of `Cache`, `Connection`, `MailboxList`, `Smtp`, `Submission` and `Threading`: there the bounds on
what the environment does are used up some day, or the message is sent, and nothing is
left to do. That none of them stops too early is what `AttemptsEnd`, `ImplementsMsa` and
`EveryAttemptEnds` say.

*The four servers of `sessions`.* `Plain` has no extension, 1 or 2 messages at first and 4
mod-sequences; it announces arrivals while it is synchronized, and arrivals and removals
while UIDs of arrivals are unknown. `Condstore` announces nothing while it is synchronized; saving is always put
off first. `Qresync` has 5 mod-sequences, announces arrivals while it is synchronized and flags, too, while UIDs of arrivals are unknown: here the
list is made from the cache and VANISHED (EARLIER). `Contradicting` sends one response that
contradicts the mailbox: wrong messages or flags are never shown at rest. With more announced
the properties about the cache and about exceptions are false, which is section 4;
`condstore_chatter` announces everything, always, and checks what is true then.

*Bounds.* Three UIDs allow a known message before, one between, and an arrival, at once or
one after another, hence each way to synchronize, arrivals that a session missed and
removals that leave holes. Every change takes a mod-sequence, so their bound is the number
of changes: with 4 the second session can differ from the first by arrivals, removals and
flags. One lost connection, at any moment, makes two sessions, and the second session sees
what the first one left; a third would see what a second leaves, which the first also may
leave. Two incarnations let UIDVALIDITY change. The real thresholds of throttling, 100 and
10000, are constants; 0 or 1 make every counter reach its limit within a few responses.

In `Handover` the limit of 2 active tasks counts `KeepMailboxOpenTask` itself, so that one
task of the user runs at a time and the others queue; with a limit of one part at a time
the second part waits for the first. A literal, an IDLE that is entered, refused, left and
renewed, and one arrival can all be under way together. A behaviour has one switch, for
the model ends where the next mailbox begins. `handover` has "delete" and EXISTS,
`handover_live` has [CLOSED] and going offline: together the two fire every action.

In `Switching` three mailboxes are the one that is open, the one that waits and one that waits
for it or with it; each may be opened while the one before is selected, synchronized, in use
or given up, with a task or an arrival under way. The properties end with `~Sound`: a
server that says no [CLOSED] is cut off, which is what the code wants.

In `Cache` three lives of the mailbox are needed: the database may be of the first, a file of
the second, the mailbox of the third. The constraint `StillClaimed` cuts off what follows a state in
which `StoredIsOfThisMailbox` and `CommittedIsOneMailbox` claim nothing any more. With timers of one tick
a write between tick and commit restarts the short one and not the other. The theorems of
section 5 are for any number of lives and all timers, without the constraint. Two
connections in `Connection` are one that is given up and the next; with one refusal the
password is asked for again, with one outage the timer of reconnecting meets a user who has
other ideas. Two recipients in `Smtp` are the last and one before. Three attempts in
`Submission` let the second leave something for the third which the first could not. In `Threading`
three messages are a thread with a fake parent between; mail and removals come at any
time, also while commands are out (`Hurry`), the user and other mailboxes only when all has
been answered: the rest of `Hurry` is section 4.

In `MailboxList` three mailboxes are one with another below it and one beside, so that nested names,
rows in order and a parent that is deleted all occur; three requests at a time are two LISTs and
a change. The cache may hold any mailboxes of an earlier session, and the server others.
`MCMailboxList` has two instances of the module: in the patient one (`Mishaps = {}`) the tree becomes
that of the server, which is false with each member of `Mishaps` (section 4); the hasty one has all of
them, and whatever happens there "loading" is awaited by a call or a task (`LoadingIsAwaited`). In the
same way `MCSending` has an agent and, apart from it, the attempts which rely on agents.

*Fairness.* `FairSpec` of `MailboxSession` has weak fairness of the server's answers (the server is
assumed to answer), of the handlers (Qt's event loop delivers what has arrived) and of the two
timers (they are started and nothing stops them but what makes them unnecessary). Nothing is
assumed of other clients, lost connections or the user. The same holds for `FairSpec` of
`Handover`: posted events are handled, the socket is read, timers become due and fire, the
server reads and answers, in IDLE too once it is told DONE. Its fairness is written with the
guard of each action in the place of ENABLED, `[]<>~CanRun \/ []<><<ClientStep>>_vars`,
because a handler is long and TLC evaluates ENABLED slowly (`Switching` does the same); that the guards are those of
the actions has been compared with ENABLED in a smaller instance. The liveness properties of
`Handover` end with "or `~Sound`": a failed assertion ends the program, and which of them can
fail is what `AssertionsHold` says.

In `Connection` the server greets and answers, a socket connects or fails and a handshake ends
(Qt reports both), the user answers the dialogs for password and certificate at last, timers
and posted calls run, and an outage of the system ends; that LOGIN succeeds, that the network
holds or that the user wants to be online is not assumed. In `Smtp` the socket and the handshake end, the
server answers, and closes a connection on which nothing is said (RFC 5321, 4.5.3.2.7). In
`Submission` the user answers the dialog, tasks end, and agents keep the promise of `Msa`, which
`sending` shows for one of them. `MailboxList` is without fairness.

## 4. Where the code does not do what it says

One of these is kept as a run that TLC ends with a counterexample:

* `v_old_mailbox`: MODSEQ in a FETCH saves the sync state, EXISTS included, "because everything is
  known" (MT:404-409), whenever the list is DONE. The UID map need not be that of the list: while flags
  are synchronized (OB:493, OB:1115) it is that of the session before until the flags have come (OB:201), and with
  many responses its saving is put off. For the first, a server with CONDSTORE is enough: a message that
  arrived while the client was offline, and a flag that changes while flags are synchronized. When the
  connection is lost then, a later session finds a cache whose UID map and EXISTS differ in length and
  synchronizes in full (OB:254-262), without `clearAllMessages()` and without a look at
  UIDVALIDITY. If the mailbox has been made anew, messages that have the UIDs of old ones are
  shown with the envelopes and parts of those. `ShownIsOfThisMailbox` also fails, without
  MODSEQ, after a crash with three lives of the mailbox: a commit falls between
  `clearAllMessages()` and the end of synchronizing, a big part is written to a file, the
  crash takes the database back to the empty map with the old EXISTS, and by then the
  mailbox is another. `StoredIsOfThisMailbox` is what remains true: both are its exceptions.

The same modules show more when their constants are changed. Of mailboxes:

* `SyncedFlags` fails with QRESYNC and `WhileSyncing = {"EXPUNGE"}`: VANISHED while flags are synchronized
  saves HIGHESTMODSEQ (MT:710-713) before the flags have come; after a lost
  connection they are never asked for;
* `NothingAsserted` fails with CONDSTORE and `WhileSyncing = {"EXISTS"}` (2 messages,
  threshold 1, no loss): when nothing about flags has to be asked but the UIDs of arrivals
  are still to come, `syncFlags()` sets STATE_DONE and sends FETCH all the same (OB:590, 602);
  its OK fails `Q_ASSERT(status == STATE_SYNCING_FLAGS)` (OB:191);
* `SavedUidsKnown` fails without extensions and `WhileSyncing = {"EXISTS", "EXPUNGE"}`: EXPUNGE in
  STATE_DONE (OB:776-780) saves a UID map with UID 0 while those of arrivals are being
  fetched; MT:533 says that there cannot ever be any;
* `SyncedUids` fails with QRESYNC and `WhileSyncing = {"FLAGS"}` after a lost connection: a FETCH
  with MODSEQ saves the sync state "because everything is known" (MT:404-409) while the UIDs
  of arrivals are not, for `finalizeSelect()` had set the list to DONE (OB:323). The next
  session shows wrong messages, and so do those after it;
* with `WhileSyncing = {"EXISTS", "EXPUNGE"}` and no extension, `NothingThrown` fails: EXISTS
  in STATE_SYNCING_UIDS is compared with the old list (OB:738, MT:729), and an EXPUNGE in
  that phase makes the number of UIDs differ from EXISTS (OB:950);
* with `WhileSyncing = {"FLAGS"}` it fails because FETCH concerns a row that is not there yet
  (MT:331); with CONDSTORE `CachedMapSound` fails then, as with QRESYNC;
* `SavedUidNextGrows` fails with CONDSTORE, `WhileSyncing = {"FLAGS"}`, two lives of the mailbox and four lost
  connections: the same FETCH saves the sync state alone (MT:404-409), with the new
  UIDVALIDITY, beside the UID map of the former mailbox, which
  `FinalizeInconsistentCache` (OB:254-262) has not forgotten. A session that finds that map as
  long as EXISTS trusts its UIDs and saves a UIDNEXT above the server's; the one after it lowers it;
* with CONDSTORE and `WhileArriving` containing "FLAGS" `CachedFlagsSound` fails: flags of a
  message without UID are not cached (MT:507), the HIGHESTMODSEQ that covers them is.

Of IDLE and the handover (`handover.cfg` with the property named):

* `IdleFailsInOrder`: the server refuses IDLE; before the NO is handled a task comes, which
  ends IDLE: DONE is queued and `m_idling` reset. `idleCommandFailed()` then fails
  `Q_ASSERT(m_idling)` (IL:139), and DONE will be executed though there is no IDLE (PA:807);
* `TerminatesWithoutDependents`: while the deletion of the
  mailbox waits, the end of a task that needs no mailbox calls `slotTaskDeleted()`, which
  finds nothing pending and terminates; the `DeleteMailboxTask` is still dependent (KO:348);
* `EveryAnswerHasItsTask`: an EXISTS between the post of `terminate()` (KO:213)
  and its execution sends a UID FETCH, whose OK finds no task and kills the connection
  (`src/Imap/Model/Model.cpp:290`); and when the deletion waits, CLOSE is sent twice;
* an EXISTS that crosses CLOSE, or an untagged BAD to a DONE that crosses the server's own
  end of IDLE, is taken by no task and kills the connection ("UnexpectedResponse");
* `TerminatesIdle`: another mailbox is opened while nothing is pending, so that `terminate()`
  is posted (KO:213). A task that comes first finds this task still in charge and is added to
  those which wait; `terminate()` fails the assertion that there are none (KO:309).

`AssertionsHold` leaves out exactly these, named in `KnownFailures`.

Of switching between mailboxes (`switching.cfg` with other `Refusals`, or a property without
what it excepts):

* UID SEARCH or UID FETCH refused: the keeper dies and leaves the mailbox selected, with no task
  to take what the server says of it. The task that opens the next mailbox sends SELECT, is the
  first active one, and applies what is said of the old mailbox until [CLOSED] comes, which
  is what the wait for [CLOSED] is to prevent (KO:351). `ResponsesReachTheirMailbox` has
  "as long as it refuses no command but SELECT" for that; without a next mailbox such a response
  is taken by nobody and kills the connection;
* SELECT or UID SEARCH refused while another mailbox waits: `shouldExit` is set, so that `die()` does
  not come to `killAllPendingTasks()` (KO:667, IT:284), although "we better take any depending
  stuff with us" (KO:663). The mailbox that waits is neither opened nor told of a failure: `Stranded`;
* UID FETCH of arrivals refused: a mailbox opened between the failure of the keeper and
  its deletion waits forever as well;
* without QRESYNC, the OK of a UID FETCH for arrivals may come when the keeper has gone
  (as in `EveryAnswerHasItsTask`).

Of the tree of mailboxes (`mailboxes.cfg` with a member in `Mishaps`):

* "below": `finalizeList()` (`src/Imap/Model/Model.cpp:327`) leaves a response about a deeper
  mailbox to others, but not when it handles the answer about the root, which has no separator. The root
  takes whatever has been collected, and with two LISTs under way nested mailboxes show up at the top,
  in the tree and in the cache (`NestedStaysNested`), although a nested mailbox "must not show up" higher up,
  as a test says (`src/tests/Imap/test_Imap_Tasks_ListChildMailboxes.cpp:282`).
  It also drops a response about the mailbox itself as "rubbish", which may belong to the LIST of its
  parent. And when the mailbox of a LIST has been replaced its responses stay
  ("weird timing", `src/Imap/Tasks/ListChildMailboxesTask.cpp:105`) for the next answer about the root
  (`NothingLeftOver`), for which a server that completes one LIST before the next is enough;
* "again": two LISTs of one mailbox whose responses both come before the first OK: the first answer
  takes all, the second empties the tree and the cache (`TreeIsServers`);
* "change": a reload and the LIST after CREATE both insert the new mailbox, which is then there
  twice (`TreeIsServers`); DELETE frees a mailbox for which a call has been posted, and the call
  dereferences it (`AsksMeetTheirMailbox`, MT:157);
* "broken": a LIST that fails after its data leaves them for the next (`NothingLeftOver`); when LIST
  is refused after CREATE the mailbox is there and not shown (`TreeIsServers`).

CREATE and DELETE leave the cached children as they were. Who creates or deletes a mailbox is not told
when the connection is lost meanwhile.

Of connections:

* `DecisionIsAwaited` fails: the user goes offline while the dialog about a certificate is open;
  the decision finds the task in a state for which there is only `Q_ASSERT(false)` (OC:517);
* when the client goes offline during a TLS handshake, LOGOUT stays in the frozen parser, and the
  connection lives until the handshake ends or the server gives up;
* a server without IMAP4rev1 gets LOGOUT, but its `OpenConnectionTask` stays, and throws at the
  tagged answer; a refused STARTTLS starts the handshake all the same;
* an untagged BYE of an idle server sets the policy to offline without an attempt to
  reconnect; a reconnect timer that is already running undoes the user's refusal of the password.

Of sending:

* `cancel()` of `MSA::SMTP` does not stop a dialogue that has begun: the message may leave after it;
* EHLO answered by 500 waits until the server hangs up; 334 to the answer of AUTH PLAIN goes on to MAIL
  without authentication; AUTH LOGIN answers any number of challenges;
* 421 to MAIL FROM, or to a recipient but the last, is reported as `sent()` and then `error()`
  (`Early421 = TRUE`, `ImplementsMsa`);
* `SettingsChange = TRUE`: a second attempt with other settings finds `m_urlauth` and `m_appendUid` of the
  first (`SendsWhatWasWritten`); `UidPlus = {TRUE, FALSE}`: without APPENDUID a message which was to be sent
  by the server from its copy is empty; `LateErrors = TRUE`: an agent that complains twice re-enables
  the window during the next attempt (`OneAttemptAtATime`).

Of the threaded list, with the member of `Hurry` or the constants:

* `Settles` (UIDs to 2, `Searches = {"late"}`, nothing in `Hurry`): a search result that lacks a message
  makes the threading look incomplete, and THREAD is sent forever (TH:587, TH:602);
* "user": two SEARCH or SORT commands at once; the answer to the first disconnects the task of
  the second and its stale result is taken for fresh, and a third dereferences null;
* "arrival": a message whose UID comes while SEARCH or SORT is in flight stays hidden; "switch": the
  answer about the mailbox that was left is applied to the next; "unknown": removal of a message without UID leaves the list
  unthreaded; "sync": rows that get their UIDs while synchronizing are neither sorted nor filtered when
  threading is off;
* turning threading off during a search shows everything, and turning sorting off during a search
  keeps the order; `applySort()` dereferences `end()` for a UID it does not know (`NothingBroken`);
  a search in an empty mailbox fails an assertion, and so does threading there;
* the answer to THREAD of a search is saved as the threading of the mailbox.

Of the cache: an offline start after a crash may show a file of a newer life than the database
knows; the rows that `applyUids()` removes at the end leave their data in the cache.

## 5. What TLAPS proves

*The list of messages.* For all values of the constants that satisfy the named assumptions (`BoundsAssumption`,
`CapabilitiesAssumption`, `AnnouncedAssumption`, `ThrottlingAssumption`, `LossesAssumption`),
hence with everything announced at any time, mistakes included:

* `TypeCorrect`: `Spec => []TypeOK`. No counter passes below 0.
* `ExistsAlwaysMatches`: `Spec => []ExistsMatchesList`: EXISTS of the sync state, which is
  counted by hand in many places, is the number of messages of an open mailbox. This is what
  the next session compares with the UID map of the cache.
* `SessionInvariant`: `Spec => []IInv`, from which both follow.

*The argument.* `ExistsMatchesList` is not inductive: it holds when the mailbox opens because
the list was made to have EXISTS messages, in an earlier phase. `ExistsKept` says that EXISTS is
right from STATE_SYNCING_FLAGS on. That phase is entered from the tagged OK of SELECT or from the
result of UID SEARCH, and left by the OK of FETCH; to know that no OK comes in the wrong phase,
one has to know what can be on the wire. `WireInv` says it: while SELECT is awaited nothing else
has been sent and nothing else is executed (`SelectIsAlone`); a server without a selected mailbox
reports nothing (`ReportsWhatItHas`); the tagged OK of UID SEARCH comes after its result
(`SearchBeforeOk`); without a connection nothing is on its way (`OfflineIsSilent`). `IInv` is the
conjunction with `TypeOK`. `MailboxSessionProofs` begins with what the operators on lists and sync
states do to types and lengths, and has a lemma per action and conjunct after that.

*The saved UIDNEXT.* `SavedUidNextNeverGoesBack` in the same module: `Spec => SavedUidNextGrows`, if the server
does not number changes or the mailbox is never made anew
(`Capabilities = {} \/ MaxUidValidity <= 1`); section 4 tells what happens otherwise. All of
`WhileSyncing`, `WhileArriving`, mistakes and lost connections are included. UIDNEXT is saved from three sources: a
response code, the highest UID of the list plus one, and a UID that FETCH or VANISHED mentions. It does not go back
because no UID is known that the server has not given in this life of the mailbox, and this is
`UidInv`, inductive together with `IInv`:

* `GivenOnly`, `WireGiven`, `ListGiven`: neither the store, nor a response on its way, nor the list (once it
  is of this life) has a UID above those given;
* `CodesFirst`, `SyncStateGiven`: UIDVALIDITY and UIDNEXT are heard first, or after EXISTS alone; from then on the
  sync state has the UIDVALIDITY of the mailbox and a UIDNEXT between the saved and the server's;
* `CacheGiven`: what is cached is not ahead of the server if it is of this life. A map
  beside a state of a former life is trusted by nobody, and that is what the excluded case breaks;
* `ToldAfterOk`, `SelectsAsCached`: before the OK of SELECT something is said about messages only
  if the mailbox is still the remembered one.

*The cache.* `CacheProofs`, under `CacheAssumption`, hence for every number of UIDs, lives of the mailbox
and crashes, and all intervals of the timers:

* `LossAlwaysBounded`: `Spec => []LossIsBounded`. The invariant is `TimerSound`: the age of the
  transaction and what is left of the second timer make the interval, because
  `touchingDB()` restarts only the first, and what differs from what is committed is in a
  transaction.
* `StoredAlwaysOfThisMailbox` and `CommittedAlwaysOneMailbox`: `Spec => []StoredIsOfThisMailbox`
  and `Spec => []CommittedIsOneMailbox`, for every server. Both properties end with `unforgotten`,
  exactly where `v_old_mailbox` begins: a session that finds a map which it does not trust beside
  a sync state of another UIDVALIDITY, because a FETCH saved that sync state alone.

Neither is inductive. A database may be in a state that the next session will not trust, and what
matters then is what it holds beside the map. `DbSound` says of the database inside the transaction
and of the committed one: what is stored for a UID is of the recorded UIDVALIDITY, and if map
and EXISTS differ in length, although the sync state has not been saved alone, nothing is stored, for
`clearAllMessages()` came last. `DiskSound` says the same of
the files until the first crash; `InUse` relates the phase of the client to what it found:
while it is synchronized the database is about this mailbox or nothing is stored, and while the mailbox is
open the database is about it.
Each action has a lemma per conjunct.

*The agent.* `SendingProofs`, for any number of recipients and every account, if the server does
not answer 421 before it has seen the last recipient (`Early421 = FALSE`: the finding about it
in section 4 shows what happens otherwise):

* `AlwaysFindsCommand`: `Spec => []LinesFindCommand`;
* `AlwaysEncryptsFirst`: `Spec => []EncryptsBeforeMail`;
* `ImplementsAgent`: `Spec => Agent!Init /\ [][Agent!Next]_agent`, which is `ImplementsMsa`
  without its fairness.

None is inductive. `Inv` says in which of three conditions the client is. `Idle`: nothing has
begun. `Stuck`: the connection is over, or was cancelled before it was made, and at most QUIT is
left in the queue. `Live`, which has the content: the queue ends with QUIT and only its head has
begun (`WellOrdered`); whatever must be encrypted comes after STARTTLS in the queue or finds
the connection encrypted (`SecretsCovered`); an agent that has told nothing still has its mail
in the queue, if the server has not taken it (`Verdicts`); and what is awaited from the server
fits type and stage of the head (`Awaited`), without which an answer could be
taken for one to another command. Every function of the library has a lemma which says what it
keeps of that, every action of the model one built from those, and for the refinement one which
names the step of `Msa` it is.

*The attempts.* `SendingProofs`, for any number of attempts and all settings, unless an agent
complains again during the next attempt (`LateErrors = FALSE`):

* `AlwaysOneAttempt`: `SubmissionSpec => []OneAttemptAtATime`, by `OneAtATime` and `OfThisAttempt`: a task or an
  agent that has not told its end belongs to this attempt, there is one at most, and none while
  the button is enabled;
* `SuccessAlwaysDelivered`: `SubmissionSpec => []SuccessIsDelivered`;
* `AlwaysWhatWasWritten`: `SubmissionSpec => []SendsWhatWasWritten`, if moreover the settings do not change
  under an attempt, BURL is only asked for by those who save, and APPEND is answered with
  APPENDUID. `Texts` follows the text of the attempt through the task that saves it, the URL
  of it and the agent.

*The connection.* `ConnectionProofs`, under `ConnectionAssumption`, hence for any number of connections,
refusals, choices of the user and outages, and every kind of account:

* `AlwaysLoginWhenAllowed`: `Spec => []LoginWhenAllowed`;
* `AlwaysOnePrompt`: `Spec => []OnePrompt`;
* `CapabilitiesAlwaysCurrent`: `Spec => []CapabilitiesAreCurrent`.

That LOGIN is said only where it may be is decided long before: by the settings, by what the
server offers, by a certificate the user was asked about while other connections came and went.
The invariant, `ConnectionInv`, has three parts. `Sane` holds of every connection, in LOGOUT and
after it too: at most one command is unanswered, LOGOUT apart; capabilities which are known are those
the server has at that epoch; and where LOGIN is unanswered it was allowed. `InUse` holds of the one
connection which is not in LOGOUT: each of its states has its command, its epoch, its socket and
what is known of the certificate, and in LOGIN the password is either waited for, with nothing
said, or known, with LOGIN said. That there is one such connection is the third (`OthersOut`). The
password belongs to the Model and is asked for by a task, so `Asking` counts the dialogs. In the
middle of a step only `Loose` holds of the connection which the step is about.

*The handover.* `HandoverProofs`, under `TasksAssumption`, `TagsAssumption` and `HandoverAssumption`, hence
for any number of tasks and arrivals, all limits which leave room for a task, any mix of literals,
parts and tasks for any mailbox, a server that refuses or ends IDLE and says [CLOSED] or does not, and every ending:

* `HandoverInvariant`: `Spec => []HandoverInv`;
* `IdleAlwaysGivesWay`: `Spec => []IdleGivesWay`;
* `NeverALostWakeup`: `Spec => []NoLostWakeup`;
* `AssertionsAlwaysHold`: `Spec => []AssertionsHold`;
* `SelectAlwaysAlone`: `Spec => []SelectComesAlone`;
* `AlwaysOneCommand`: `Spec => []OneCommandEach`.

The last five relate flags of three objects, two queues, the wire and the server, and none is
inductive: that `finishIdle()` finds the launcher idling is known because DONE is nowhere else,
and that `+` is due because no other line that asks for one is on its way. `HandoverInv` says,
while no assertion has failed:

* `Order`: IDLE is followed by its DONE in the queue, or is the last thing said; one literal is begun;
* `Launch`: who idles, or is about to, has nothing to do; a launcher that dies before
  the mailbox is aborted has no IDLE under way;
* `Duty`, `Closing`, `Late`: what has been aborted, finished, closed or logged out of, who may use the
  connection then, and what is deleted after that;
* `Stages`: a task waits in one list, is active after that, and its deletion is posted after that;
* `Wired`: after IDLE the server hears DONE or nothing (`WireOrder`); where `+` and the refusals stand
  (`Continuation`); and each active command, or its answer, is in one place between queue and Model
  (`Tokens`);
* `Awake`: a queue that may go on has its event posted, or is being handled.

The first four speak of the client alone, and most methods only queue commands at the
end, post events and move tasks on. `Calls` says so of the client before and after a method and can
be chained (`CallsTwice`), so that each method of `KeepMailboxOpenTask` and `IdleLauncher` has one lemma which
says that it keeps the parts about the client (`HandoverClientProofs`), and one lemma, `WireCalls`, that a
method with that property keeps those about the wire. The parser, the server and the tagged
responses move one command from place to place: a lemma for each move (`HandoverProofs`). A
failure which is known (`KnownFailures`, found in section 4) ends the program, and nothing is said
of the states after it; that no other assertion fails is proved by the same invariant.

*The tree of mailboxes.* `MailboxListProofs`, under `MailboxListAssumption`, hence for any names, any mishaps and any
number of requests, changes and troubles: `LoadingAlwaysAwaited`, `Spec => []LoadingIsAwaited`. A
mailbox that shows "loading" is never asked for again by a view, so it must be awaited: by
`askForChildrenOfMailbox()`, which is posted, or by a `ListChildMailboxesTask`. This is not
inductive, for tasks end one by one, on answers that name them by their tags, while rows are
removed and made again under them. `LoadInv` says:

* the client has the shape it should have (`ClientShape`): tasks have tags of their own, Gone is not in the tree;
* `Awaited`, which is the property; where a mailbox is about to be awaited or to be done, `AwaitedBut` it;
* `WireShape`: the command of a busy task is in at most one of three places, on its way
  to the server, begun by it, or answered and on its way back, once there, and each tag in those places is that of a busy task.
  Hence each answer finds its task, and ends no other;
* the names, the tree and the cache are finite, so that sorted rows are rows.

`findMailboxByName()`, `findParentMailboxByName()` and the destructors of a subtree are recursive and are not expanded:
the proof holds whatever they find, because who is removed is not in the tree any more
and its task knows it (`RemoveRowsFacts`). Each step has a lemma; those about sequences
which are filtered (`KeptFacts`) are about any sequence.

*Switching.* `SwitchingProofs`, under `SwitchingAssumption`, hence for any mailboxes, kinds of
server, refusals, and any number of pairs of tasks, commands and arrivals:
`CommandsAlwaysMeetTheirMailbox`, `Spec => []CommandsMeetTheirMailbox`. A command says nothing
of the mailbox it is meant for; the server takes the one that is selected when the command arrives, and
that was decided by a SELECT which was queued long before. `SwitchingInv` says, as long as no assertion of
the code has failed:

* `Stages`: what a pair of tasks can be. One that waits for the connection has not begun, is not aborted, and runs nothing;
* `Maintaining`: who synchronizes, or runs and may still be asked for something (`Engaged`), is the
  `maintainingTask` of the connection, so there is one at most;
* `Active`: each of the active tasks is at the stage in which it belongs there;
* `Posted`: what a posted call may rely on when it is dispatched at last. At most one
  `slotPerformConnection()` is posted, for the `maintainingTask`, which waits for it;
* `Waiting`: who waits for a keeper that is not aborted has not had the connection (`Patient`), and waits in one list, once;
* `Wired`, of the commands, both queued and on their way. `Asking`: SELECT is the last of them, and
  all others are for the mailbox that is selected. `Answering`: while the answer to SELECT is on its way back, no command is
  queued, and no other answer follows it. `Using`: the `maintainingTask` that uses the connection
  has the selected mailbox, and no UID FETCH of another pair is under way.

A response is handled by several methods one after the other, and in between the invariant does not
hold: `Fine(c, x, ...)` says it of a client in the middle of a handler, where x is the pair whose
synchronization has just ended and is not forgotten yet, and each method has a lemma about that.
Failing is the difficult step, for tasks die with one another: that
the pairs that die are only ones which wait (`Doomed`) follows from `Waiting`.

*Only model-checked*: liveness, and the fairness of the refinement; what needs the relation between
the store and the list (`SyncedUids`, `SyncedFlags`, the soundness of the cached flags), exceptions
and assertions of the first chain; the cases that the assumptions above leave out; that the tree
becomes the server's (`TreeBecomesServers`, `NothingIsLeftBehind`); that responses reach their mailbox
(`ResponsesReachTheirMailbox`); and all of `Threading`, whose operators are recursive. What the loops compute is defined
recursively and is checked, by `condstore_chatter`, not proved.

## 6. Not modelled

Of synchronizing: what a refused command leaves in the list (what it does to the tasks is in
`Switching`), the mailbox disappearing from the tree, ESEARCH in the place of SEARCH,
`resynchronizeMailbox()`, UNSEEN and PERMANENTFLAGS, counts of unread messages.

Of keeping the connection: what COMPRESS does to the stream, LITERAL+ (whose commands are sent at
once, like those without a literal), UNSELECT of a mailbox that is no longer in the tree, what tasks do with
their answers and what happens when one fails, batches of flag and threading requests.

Of opening it: ENABLE, ID and NAMESPACE, a connection by a process, several connections that
are not in LOGOUT.

Of the tree of mailboxes: SUBSCRIBE, STATUS and the numbers of messages, what a
deleted mailbox that is open does to its tasks.

Of the threaded list: CONTEXT=SEARCH, CONTEXT=SORT, INCTHREAD, descending order, persistent
indexes of Qt. Of sending: the inside of `Sendmail` and `ImapSubmit`, forwarding, progress.

Not at all: text to values and back (`Parser`'s reading of responses, RFC 5322, the composer),
which is data without control; presentation (`Gui`, proxy models, `UiUtils`), of which only the
window of the composer and the wishes of the user about the list are in; wrappers of libraries
(sockets, GpgME, plugins, D-Bus). These are most of the lines of the repository. The rest is in
the plan or in the list of section 1.
