\* Three mailboxes, one task of the user, one arrival; SELECT and UID SEARCH may be refused.
SPECIFICATION FairSpec
CONSTANTS
    inbox = inbox
    drafts = drafts
    sent = sent
    Mailboxes = {inbox, drafts, sent}
    Servers = {"always", "forgets", "no"}
    Refusals = {"SELECT", "UID SEARCH"}
    MaxOpened = 3
    MaxCommands = 1
    MaxAnnounced = 1
INVARIANTS
    CommandsMeetTheirMailbox
    ResponsesReachTheirMailbox
PROPERTIES
    EveryMailboxEnds
