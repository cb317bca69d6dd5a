----------------------------- MODULE LocalStore -----------------------------
(***************************************************************************)
(* The session store on local files: one append-only file of records per   *)
(* session, a cache of the head each session's next append is checked      *)
(* against, and the single call in progress, one system call at a time.    *)
(*                                                                         *)
(* A record is a whole line; `torn' says that bytes of an incomplete line  *)
(* follow the last one.  A process crash keeps what the system calls have  *)
(* written, a power loss keeps what has been synced.                       *)
(***************************************************************************)
EXTENDS SessionTypes

LOCAL INSTANCE Functions

CONSTANTS
    Session,    \* session IDs, fresh ones (uuid) for every Create and Fork
    Root,       \* the sessions Create makes; the others are forks
    Saved,      \* the statuses of operations that clients store
    MaxRecords, \* bound on the records of one file
    MaxTotal    \* bound on the records of all files

ASSUME StoreAssumption ==
    /\ Root \subseteq Session
    /\ Saved \subseteq OpStatus
    /\ MaxRecords \in Nat \ {0}
    /\ MaxTotal \in Nat \ {0}

VARIABLES
    files,      \* the session files
    linked,     \* the sessions whose directory entry has been synced
    cache,      \* Store.writeStateCache
    call,       \* the call in progress
    acked       \* per session, the records that successful calls have covered

vars == <<files, linked, cache, call, acked>>

-----------------------------------------------------------------------------
(* Records, and the head they add up to.                                   *)

Header          == [type |-> "session"]
Garbage         == [type |-> "garbage"]     \* a line that is not a record
ItemRecord(seq, item) == [type |-> "item", seq |-> seq, item |-> item]
OperationRecord(key, slot, status) ==
    [type |-> "operation", key |-> key, slot |-> slot, status |-> status]

NewHead ==
    [seq |-> 0, latest |-> 0, turns |-> {}, owned |-> {}, responded |-> {}, statuses |-> {},
     ops |-> [key \in Key |-> NoSnapshot]]

Corrupt == [NewHead EXCEPT !.seq = -1]

\* sessionHead.appendInput, appendTurn, appendModelResponse, appendToolCallStatus:
\* what they check.  A turn follows the latest one; only turns of this branch get
\* responses and statuses; a first status initialises operations that do not exist.
Accepts(head, item) ==
    CASE item.kind = "input"    -> TRUE
      [] item.kind = "turn"     -> item.turn = head.latest + 1 /\ item.turn \notin head.turns
      [] item.kind = "response" -> item.turn \in head.owned \ head.responded
      [] item.kind = "status"   ->
            /\ item.key[1] \in head.owned
            /\ item.key \in head.statuses \/ head.ops[item.key] = NoSnapshot
      [] OTHER                  -> FALSE

\* What they change in the maps of the head, which the cache shares.
ApplyInPlace(head, item) ==
    CASE item.kind = "turn"     ->
            [head EXCEPT !.turns = @ \cup {item.turn}, !.owned = @ \cup {item.turn}]
      [] item.kind = "response" -> [head EXCEPT !.responded = @ \cup {item.turn}]
      [] item.kind = "status" /\ item.key \notin head.statuses ->
            [head EXCEPT !.statuses = @ \cup {item.key}, !.ops[item.key] = item.ops]
      [] OTHER                  -> head

\* And in the fields the call has a copy of.
Apply(head, item) ==
    [ApplyInPlace(head, item) EXCEPT
        !.seq = @ + 1,
        !.latest = IF item.kind = "turn" THEN item.turn ELSE @]

AcceptsSave(head, key, slot) == head.ops[key][slot] # "none"

Save(head, key, slot, status) == [head EXCEPT !.ops[key][slot] = status]

ResetOwned(head) ==
    [head EXCEPT !.owned = {}, !.responded = {}, !.statuses = {},
                 !.ops = [key \in Key |-> NoSnapshot]]

\* storedState.inheritItem: an item of the history before the last fork.
Inherit(head, record) ==
    LET item == record.item
        next == [head EXCEPT !.seq = record.seq]
    IN  CASE item.kind = "turn"     ->
                [next EXCEPT !.turns = @ \cup {item.turn}, !.owned = @ \cup {item.turn},
                             !.latest = item.turn]
          [] item.kind = "response" -> [next EXCEPT !.responded = @ \cup {item.turn}]
          [] item.kind = "status"   -> [next EXCEPT !.statuses = @ \cup {item.key}]
          [] item.kind = "fork"     -> ResetOwned(next)
          [] OTHER                  -> next

IsItem(record) == record.type = "item"
IsFork(record) == IsItem(record) /\ record.item.kind = "fork"
InitialisesOps(record) ==
    record.item.kind = "status" /\ \E slot \in Slot : record.item.ops[slot] \in OpStatus

\* decodeLog, one more record: the head with it, or Corrupt when it is refused.
DecodeRecord(records, head, i) ==
    LET record    == records[i]
        inherited == \E j \in DOMAIN records : i <= j /\ IsFork(records[j])
    IN  IF head = Corrupt THEN Corrupt
        ELSE CASE record.type = "session" /\ i = 1 -> NewHead
               [] IsItem(record) /\ i > 1 /\ record.seq = head.seq + 1 /\ inherited
                     /\ ~InitialisesOps(record) -> Inherit(head, record)
               [] IsItem(record) /\ i > 1 /\ record.seq = head.seq + 1 /\ ~inherited
                     /\ Accepts(head, record.item) -> Apply(head, record.item)
               [] record.type = "operation" /\ i > 1 /\ ~inherited
                     /\ AcceptsSave(head, record.key, record.slot) ->
                     Save(head, record.key, record.slot, record.status)
               [] OTHER -> Corrupt

\* decodeLog: the heads that the records add up to, one by one.
Heads(records) ==
    LET head[i \in 0 .. Len(records)] ==
            IF i = 0 THEN NewHead ELSE DecodeRecord(records, head[i - 1], i)
    IN  head

Replay(records) == IF records = <<>> THEN Corrupt ELSE Heads(records)[Len(records)]

\* storedState.items, as the records are decoded.
Items(records) ==
    LET items[i \in 0 .. Len(records)] ==
            IF i = 0 THEN <<>>
            ELSE IF IsItem(records[i]) THEN Append(items[i - 1], records[i].item) ELSE items[i - 1]
    IN  items

ItemsIn(records) == Items(records)[Len(records)]

\* storedState.resume: an unfinished operation is resumed, and a finished one
\* whose call's statuses last showed it unfinished.
Pending(items, key, slot) ==
    LET pending[i \in 0 .. Len(items)] ==
            IF i = 0 THEN FALSE
            ELSE IF items[i].kind = "status" /\ items[i].key = key /\ items[i].ops[slot] \in OpStatus
            THEN items[i].ops[slot] \in Unfinished ELSE pending[i - 1]
    IN  pending[Len(items)]

\* Mutant: what the history holds is not looked at.
MutResumesUnfinished(records, key, slot) == Replay(records).ops[key][slot] \in Unfinished

Resumes(records, key, slot) ==
    LET status == Replay(records).ops[key][slot]
    IN  \/ status \in Unfinished
        \/ status \in Finished /\ Pending(ItemsIn(records), key, slot)

\* encodeInitialLog numbers the items.
InitialLog(items) == <<Header>> \o [i \in DOMAIN items |-> ItemRecord(i, items[i])]

\* The records of a fork at the turn.
Forked(items, turn) == InitialLog(ForkedItems(items, turn))

\* The heads that inheritItem makes of numbered items.
InheritedHeads(items) ==
    LET head[i \in 0 .. Len(items)] ==
            IF i = 0 THEN NewHead ELSE Inherit(head[i - 1], ItemRecord(i, items[i]))
    IN  head

\* And the head forkStoredState leaves in memory.
ForkedHead(items, turn) ==
    LET kept == Kept(items, turn)
    IN  ResetOwned([InheritedHeads(kept)[Len(kept)] EXCEPT !.seq = @ + 1])

-----------------------------------------------------------------------------

NoFile == [exists |-> FALSE, records |-> <<>>, torn |-> FALSE, synced |-> 0]
NoEntry == [valid |-> FALSE, head |-> NewHead, size |-> 0]
Entry(head, size) == [valid |-> TRUE, head |-> head, size |-> size]
Idle == [phase |-> "idle"]

Init ==
    /\ files = [s \in Session |-> NoFile]
    /\ linked = {}
    /\ cache = [s \in Session |-> NoEntry]
    /\ call = Idle
    /\ acked = [s \in Session |-> 0]

Evict(s) == cache' = [cache EXCEPT ![s] = NoEntry]

HasRoom(s, n) ==
    /\ Len(files[s].records) + n <= MaxRecords
    /\ FoldFunction(+, n, [t \in Session |-> Len(files[t].records)]) <= MaxTotal

\* A call that fails forgets the session's head and returns its error.
Fail ==
    /\ Evict(call.session)
    /\ call' = Idle
    /\ UNCHANGED acked

-----------------------------------------------------------------------------
(* The appends: AppendInput, AppendTurn, AppendModelResponse,              *)
(* AppendToolCallStatus and SaveOperation.                                 *)

\* loadWriteState, when the head is not cached.  A call whose change is refused
\* ends here.
LoadWriteState(s) ==
    /\ call = Idle
    /\ ~cache[s].valid
    /\ files[s].exists
    /\ Replay(files[s].records) # Corrupt
    /\ cache' = [cache EXCEPT ![s] = Entry(Replay(files[s].records), Len(files[s].records))]
    /\ UNCHANGED <<files, linked, call, acked>>

\* The call holds the changed head; the maps of the cached head change with it.
StartAppend(s, record, next, shared) ==
    /\ call = Idle
    /\ cache[s].valid
    /\ HasRoom(s, 1)
    /\ cache' = [cache EXCEPT ![s].head = shared]
    /\ call' = [phase |-> "truncate", session |-> s, record |-> record, head |-> next,
                size |-> cache[s].size]
    /\ UNCHANGED <<files, linked, acked>>

AppendItem(s, item) ==
    LET head == cache[s].head
    IN  /\ Accepts(head, item)
        /\ StartAppend(s, ItemRecord(head.seq + 1, item), Apply(head, item),
                       ApplyInPlace(head, item))

SaveOperation(s, key, slot, status) ==
    LET next == Save(cache[s].head, key, slot, status)
    IN  /\ AcceptsSave(cache[s].head, key, slot)
        /\ StartAppend(s, OperationRecord(key, slot, status), next, next)

\* Mutant: an incomplete line is not discarded.
MutKeepTail == UNCHANGED files

\* appendFile's Truncate to the committed size.
DiscardTail ==
    files' = [files EXCEPT
        ![call.session].records = SubSeq(@, 1, call.size),
        ![call.session].torn = FALSE]

Truncate ==
    /\ call.phase = "truncate"
    /\ DiscardTail
    /\ call' = [call EXCEPT !.phase = "write"]
    /\ UNCHANGED <<linked, cache, acked>>

TruncateFails ==
    /\ call.phase = "truncate"
    /\ Fail
    /\ UNCHANGED <<files, linked>>

\* A line written after an incomplete one completes it instead.
Write ==
    /\ call.phase = "write"
    /\ LET line == IF files[call.session].torn THEN Garbage ELSE call.record
       IN  files' = [files EXCEPT ![call.session].records = Append(@, line),
                                  ![call.session].torn = FALSE]
    /\ call' = [call EXCEPT !.phase = "sync"]
    /\ UNCHANGED <<linked, cache, acked>>

\* Write returns an error, after no byte or some.
WriteFails ==
    /\ call.phase = "write"
    /\ Fail
    /\ \E torn \in {files[call.session].torn, TRUE} :
          files' = [files EXCEPT ![call.session].torn = torn]
    /\ UNCHANGED linked

\* Mutant: the record is acknowledged before it is synced.
MutAcknowledgeUnsynced ==
    /\ call.phase = "sync"
    /\ acked' = [acked EXCEPT ![call.session] = Len(files[call.session].records)]
    /\ cache' = [cache EXCEPT ![call.session] = Entry(call.head, call.size + 1)]
    /\ call' = Idle
    /\ UNCHANGED <<files, linked>>

\* Sync and Close succeed: the new head is cached and the call succeeds.  The
\* journal that holds the file's new size holds its earlier rename too.
Sync ==
    /\ call.phase = "sync"
    /\ files' = [files EXCEPT ![call.session].synced = Len(files[call.session].records)]
    /\ linked' = linked \cup {call.session}
    /\ acked' = [acked EXCEPT ![call.session] = Len(files[call.session].records)]
    /\ cache' = [cache EXCEPT ![call.session] = Entry(call.head, call.size + 1)]
    /\ call' = Idle

\* Sync fails, or Close does after it.
SyncFails ==
    /\ call.phase = "sync"
    /\ Fail
    /\ \E synced \in {files[call.session].synced, Len(files[call.session].records)} :
          files' = [files EXCEPT ![call.session].synced = synced]
    /\ UNCHANGED linked

-----------------------------------------------------------------------------
(* Create and Fork: publish a new file under the session's name.           *)

StartPublish(s, records, head) ==
    /\ call = Idle
    /\ ~files[s].exists
    /\ HasRoom(s, Len(records))
    /\ call' = [phase |-> "rename", session |-> s, records |-> records,
                head |-> head]
    /\ UNCHANGED <<files, linked, cache, acked>>

Create(s) == s \in Root /\ StartPublish(s, <<Header>>, NewHead)

Fork(s, parent, turn) ==
    /\ s \notin Root /\ s # parent
    /\ files[parent].exists
    /\ Replay(files[parent].records) # Corrupt
    /\ LET items == ItemsIn(files[parent].records)
       IN  /\ Boundary(items, turn) # {}
           /\ StartPublish(s, Forked(items, turn), ForkedHead(items, turn))

\* The temporary file is written and synced, then renamed over the session's.
Rename ==
    /\ call.phase = "rename"
    /\ files' = [files EXCEPT ![call.session] =
          [exists |-> TRUE, records |-> call.records, torn |-> FALSE,
           synced |-> Len(call.records)]]
    /\ call' = [call EXCEPT !.phase = "syncDirectory"]
    /\ UNCHANGED <<linked, cache, acked>>

\* Any step before the rename fails; the temporary file is removed.
RenameFails ==
    /\ call.phase = "rename"
    /\ Fail
    /\ UNCHANGED <<files, linked>>

SyncDirectory ==
    /\ call.phase = "syncDirectory"
    /\ linked' = linked \cup {call.session}
    /\ cache' = [cache EXCEPT ![call.session] =
          Entry(call.head, Len(call.records))]
    /\ acked' = [acked EXCEPT ![call.session] = Len(call.records)]
    /\ call' = Idle
    /\ UNCHANGED files

SyncDirectoryFails ==
    /\ call.phase = "syncDirectory"
    /\ Fail
    /\ UNCHANGED <<files, linked>>

-----------------------------------------------------------------------------

\* The process dies; the next one starts with an empty cache.
Crash ==
    /\ call' = Idle
    /\ cache' = [s \in Session |-> NoEntry]
    /\ UNCHANGED <<files, linked, acked>>

Cut(file, n, torn) == [file EXCEPT !.records = SubSeq(@, 1, n), !.torn = torn]

\* A file after a power loss: some of its unsynced bytes are gone, and the file
\* itself may be when its name was not synced.
Survivors(s) ==
    LET file == files[s]
    IN  {file}
        \cup {Cut(file, n, torn) :
                n \in file.synced .. (Len(file.records) - 1), torn \in BOOLEAN}
        \cup (IF s \in linked THEN {} ELSE {NoFile})

\* The machine goes down.  What it does to one file it may do to none of the
\* others, and losing each of several files is several losses in a row.
PowerLoss(s) ==
    /\ files[s].exists
    /\ \E file \in Survivors(s) : files' = [files EXCEPT ![s] = [file EXCEPT !.synced = Len(file.records)]]
    /\ call' = Idle
    /\ cache' = [t \in Session |-> NoEntry]
    /\ UNCHANGED <<linked, acked>>

\* The items a client may try to append.
Appendable ==
    {[kind |-> "input", input |-> [kind |-> "external", id |-> id]] : id \in External}
    \cup {[kind |-> "turn", turn |-> turn] : turn \in Turn}
    \cup {[kind |-> "response", turn |-> turn, calls |-> {}] : turn \in Turn}
    \cup {[kind |-> "status", key |-> key, ops |-> ops] :
            key \in Key, ops \in [Slot -> Saved \cup {"none"}]}

Next ==
    \/ \E s \in Session : LoadWriteState(s)
    \/ \E s \in Session, item \in Appendable : AppendItem(s, item)
    \/ \E s \in Session, key \in Key, slot \in Slot, status \in Saved :
          SaveOperation(s, key, slot, status)
    \/ Truncate
    \/ TruncateFails
    \/ Write
    \/ WriteFails
    \/ Sync
    \/ SyncFails
    \/ \E s \in Session : Create(s)
    \/ \E s \in Session, parent \in Session, turn \in Turn : Fork(s, parent, turn)
    \/ Rename
    \/ RenameFails
    \/ SyncDirectory
    \/ SyncDirectoryFails
    \/ Crash
    \/ \E s \in Session : PowerLoss(s)

Spec == Init /\ [][Next]_vars

-----------------------------------------------------------------------------
(* Properties.                                                             *)

CacheIsCoherent ==
    call = Idle => \A s \in Session : cache[s].valid =>
        /\ cache[s].head = Replay(files[s].records)
        /\ cache[s].size = Len(files[s].records)

\* Every session can be opened again: decodeLog accepts what the appends and
\* forks wrote, whatever failed, crashed or was torn in between.  And between
\* calls, a cached head is the one that a reader of the file would compute, at the
\* size it would find, although calls change the cached maps in place before they
\* write and most of their steps can fail.
SessionsReopen ==
    /\ \A s \in Session : files[s].exists => Replay(files[s].records) # Corrupt
    /\ CacheIsCoherent

\* A session without a fork answers as the coordinator's store does: the same
\* items are accepted, and a resume returns the same operations and input IDs.
Promised(s) == INSTANCE SessionStore WITH
    log <- ItemsIn(files[s].records), saved <- Replay(files[s].records).ops

ExternalIDs(items) ==
    {items[i].input.id : i \in {j \in DOMAIN items : items[j].kind = "input"}}

KeepsPromise ==
    \A s \in Session :
        files[s].exists /\ (\A i \in DOMAIN files[s].records : ~IsFork(files[s].records[i])) =>
            LET records == files[s].records
            IN  /\ \A item \in Appendable :
                      Accepts(Replay(records), item)
                         <=> Promised(s)!AcceptsItem(ItemsIn(records), item)
                /\ \A key \in Key, slot \in Slot :
                      /\ Resumes(records, key, slot) <=> Promised(s)!IsResumed(key, slot)
                      /\ AcceptsSave(Replay(records), key, slot)
                            <=> Promised(s)!AcceptsOperation(key, slot)
                /\ ExternalIDs(ItemsIn(records)) = Promised(s)!RestoredIDs

\* Every file is a durable log: acknowledged records survive crashes and power
\* losses, and nothing is ever lost or inserted before them.
Durable == INSTANCE DurableLog WITH logs <- [s \in Session |-> files[s].records]

IsDurable == Durable!Spec
=============================================================================
