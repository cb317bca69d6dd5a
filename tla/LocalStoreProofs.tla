-------------------------- MODULE LocalStoreProofs --------------------------
(***************************************************************************)
(* Theorems about the session store on local files, for any number of      *)
(* sessions and records: every file is a durable log; every session opens  *)
(* again; and a session without a fork answers as the coordinator's store  *)
(* does.                                                                   *)
(***************************************************************************)
EXTENDS LocalStore, WellFoundedInduction, TLAPS

\* A sequence, whatever its elements.
IsSeq(r) == \E S : r \in Seq(S)

LEMMA SeqFacts ==
    ASSUME NEW r, IsSeq(r), NEW x
    PROVE  /\ Len(r) \in Nat /\ IsSeq(Append(r, x)) /\ Len(Append(r, x)) = Len(r) + 1
           /\ SubSeq(r, 1, Len(r)) = r
           /\ \A n \in 0 .. Len(r) : IsSeq(SubSeq(r, 1, n)) /\ Len(SubSeq(r, 1, n)) = n
           /\ r # <<>> => Len(r) > 0
<1>1. PICK S : r \in Seq(S)
  BY DEF IsSeq
<1>2. Append(r, x) \in Seq(S \cup {x})
  BY <1>1
<1> QED
  BY <1>1, <1>2 DEF IsSeq

\* An initial log is a sequence of at least one record.
LEMMA InitialLogFacts ==
    ASSUME NEW items, IsSeq(items)
    PROVE  IsSeq(InitialLog(items)) /\ InitialLog(items) # <<>>
<1> DEFINE tail == [i \in DOMAIN items |-> ItemRecord(i, items[i])]
<1>1. PICK S : items \in Seq(S)
  BY DEF IsSeq
<1>2. tail \in Seq({tail[i] : i \in 1 .. Len(items)})
  BY <1>1
<1> HIDE DEF tail
<1>3. /\ <<Header>> \o tail \in Seq({Header} \cup {tail[i] : i \in 1 .. Len(items)})
      /\ <<Header>> \o tail # <<>>
  BY <1>2
<1> QED
  BY <1>3 DEF InitialLog, IsSeq, tail

\* And so is that of a fork.
LEMMA ForkedFacts ==
    ASSUME NEW items, NEW turn, Boundary(items, turn) # {}
    PROVE  IsSeq(Forked(items, turn)) /\ Forked(items, turn) # <<>>
<1> DEFINE boundary == CHOOSE i \in Boundary(items, turn) : TRUE
<1>1. boundary \in Int /\ boundary >= 1
  BY DEF Boundary
<1> HIDE DEF boundary
<1>2. Kept(items, turn) = [i \in 1 .. boundary |-> Inherited(items[i])]
  BY DEF Kept, boundary
<1> DEFINE S == {Inherited(items[i]) : i \in 1 .. boundary}
<1>3. Kept(items, turn) \in Seq(S)
  BY <1>1, <1>2
<1> HIDE DEF S
<1>4. IsSeq(ForkedItems(items, turn))
  BY <1>3, SeqFacts DEF IsSeq, ForkedItems
<1> QED
  BY <1>4, InitialLogFacts DEF Forked

\* Appending extends a sequence; dropping its last elements leaves a prefix.
LEMMA PrefixFacts ==
    ASSUME NEW r, IsSeq(r)
    PROVE  /\ \A x : Durable!IsPrefix(r, Append(r, x))
           /\ \A n \in 0 .. (Len(r) - 1) : Durable!IsStrictPrefix(SubSeq(r, 1, n), r)
<1>1. PICK S : r \in Seq(S)
  BY DEF IsSeq
<1>2. ASSUME NEW x PROVE Durable!IsPrefix(r, Append(r, x))
  <2>1. Append(r, x) \in Seq(S \cup {x})
    BY <1>1
  <2>2. SubSeq(r, 1, Len(r)) = SubSeq(Append(r, x), 1, Len(r))
    BY <1>1, <2>1
  <2> QED
    BY <1>1, <2>1, <2>2 DEF Durable!IsPrefix
<1>3. ASSUME NEW n \in 0 .. (Len(r) - 1) PROVE Durable!IsStrictPrefix(SubSeq(r, 1, n), r)
  <2>1. SubSeq(r, 1, n) \in Seq(S) /\ Len(SubSeq(r, 1, n)) = n
    BY <1>1
  <2>2. SubSeq(SubSeq(r, 1, n), 1, n) = SubSeq(r, 1, n)
    BY <1>1, <2>1
  <2> QED
    BY <1>1, <2>1, <2>2 DEF Durable!IsPrefix, Durable!IsStrictPrefix
<1> QED
  BY <1>2, <1>3

-----------------------------------------------------------------------------
(* The inductive invariant.                                                *)

Logs == [s \in Session |-> files[s].records]

\* What has been acknowledged has been synced, under a name that has been synced.
FileInv(s) ==
    /\ files[s] = [exists |-> files[s].exists, records |-> files[s].records,
                   torn |-> files[s].torn, synced |-> files[s].synced]
    /\ IsSeq(files[s].records)
    /\ files[s].synced \in 0 .. Len(files[s].records)
    /\ acked[s] \in 0 .. files[s].synced
    /\ s \notin linked => acked[s] = 0
    /\ ~files[s].exists => files[s].records = <<>>

\* The size that the next append truncates a file to is that of the whole file.
IsCurrent(s) ==
    cache[s].valid => files[s].exists /\ cache[s].size = Len(files[s].records)

Appends ==
    LET s == call.session
    IN  /\ call = [phase |-> call.phase, session |-> s, record |-> call.record,
                   head |-> call.head, size |-> call.size]
        /\ s \in Session /\ files[s].exists
        /\ \/ call.phase \in {"truncate", "write"} /\ Len(files[s].records) = call.size
           \/ call.phase = "sync" /\ Len(files[s].records) = call.size + 1

Publishes ==
    LET s == call.session
    IN  /\ call = [phase |-> call.phase, session |-> s, records |-> call.records,
                   head |-> call.head]
        /\ s \in Session
        /\ \/ /\ call.phase = "rename" /\ ~files[s].exists
              /\ IsSeq(call.records) /\ call.records # <<>>
           \/ /\ call.phase = "syncDirectory" /\ files[s].exists
              /\ call.records = files[s].records /\ files[s].synced = Len(call.records)

FilesInv ==
    /\ files = [s \in Session |-> files[s]] /\ acked = [s \in Session |-> acked[s]]
    /\ \A s \in Session : FileInv(s)

CacheInv ==
    /\ cache = [s \in Session |-> cache[s]]
    /\ \A s \in Session :
          cache[s] = [valid |-> cache[s].valid, head |-> cache[s].head, size |-> cache[s].size]

\* The call in progress owns the entry of its session; every other one is current.
CallInv ==
    /\ call = Idle \/ Appends \/ Publishes
    /\ \A s \in Session : call = Idle \/ call.session # s => IsCurrent(s)

StoreInv == FilesInv /\ CacheInv /\ CallInv

\* A step of the abstract logs, or none.
LogStep == Durable!Next \/ (Logs' = Logs /\ acked' = acked)

LEMMA InitStore == Init => StoreInv /\ Durable!Init
<1> SUFFICES ASSUME Init PROVE StoreInv /\ Durable!Init
  OBVIOUS
<1>1. IsSeq(<<>>)
  BY DEF IsSeq
<1>2. FilesInv
  BY <1>1 DEF Init, FilesInv, FileInv, NoFile
<1>3. CacheInv /\ CallInv
  BY DEF Init, CacheInv, CallInv, IsCurrent, NoEntry
<1>4. Durable!Init
  BY DEF Durable!Init, Init, NoFile
<1> QED
  BY <1>2, <1>3, <1>4 DEF StoreInv

-----------------------------------------------------------------------------
(* Steps that change one file, or none.                                    *)

LEMMA NoFileStep ==
    ASSUME FilesInv, UNCHANGED <<files, acked>>, linked \subseteq linked'
    PROVE  FilesInv' /\ LogStep
BY DEF FilesInv, FileInv, LogStep, Logs

LEMMA OneFileStep ==
    ASSUME FilesInv, NEW s \in Session,
           files' = [files EXCEPT ![s] = files'[s]], acked' = [acked EXCEPT ![s] = acked'[s]],
           linked \subseteq linked', FileInv(s)',
           \/ Durable!Publish(s) \/ Durable!Grow(s) \/ Durable!Acknowledge(s) \/ Durable!Lose(s)
           \/ files'[s].records = files[s].records /\ acked'[s] = acked[s]
    PROVE  FilesInv' /\ LogStep
<1>1. /\ files' = [t \in Session |-> files'[t]] /\ acked' = [t \in Session |-> acked'[t]]
      /\ \A t \in Session \ {s} : files'[t] = files[t] /\ acked'[t] = acked[t]
  BY DEF FilesInv
<1>2. ASSUME NEW t \in Session \ {s} PROVE FileInv(t)'
  BY <1>1 DEF FilesInv, FileInv
<1>3. LogStep
  <2>1. CASE files'[s].records = files[s].records /\ acked'[s] = acked[s]
    BY <1>1, <2>1 DEF LogStep, Logs, FilesInv
  <2>2. CASE Durable!Publish(s) \/ Durable!Grow(s) \/ Durable!Acknowledge(s) \/ Durable!Lose(s)
    BY <1>1, <2>2 DEF LogStep, Durable!Next
  <2> QED
    BY <2>1, <2>2
<1> QED
  BY <1>1, <1>2, <1>3 DEF FilesInv

-----------------------------------------------------------------------------
(* The appends.                                                            *)

\* The state is read again, from the whole file.
LEMMA LoadWriteStateStep ==
    ASSUME StoreInv, NEW s \in Session, LoadWriteState(s)
    PROVE  StoreInv' /\ LogStep
<1>1. /\ UNCHANGED <<files, linked, call, acked>> /\ call = Idle /\ files[s].exists
      /\ cache' = [cache EXCEPT ![s] =
                     Entry(Replay(files[s].records), Len(files[s].records))]
  BY DEF LoadWriteState
<1>2. FilesInv' /\ LogStep
  BY <1>1, NoFileStep DEF StoreInv
<1>3. CacheInv' /\ IsCurrent(s)' /\ \A t \in Session \ {s} : cache'[t] = cache[t]
  BY <1>1 DEF StoreInv, CacheInv, IsCurrent, Entry
<1>4. CallInv'
  BY <1>1, <1>3 DEF StoreInv, CallInv, IsCurrent
<1> QED
  BY <1>2, <1>3, <1>4 DEF StoreInv

LEMMA StartAppendStep ==
    ASSUME StoreInv, NEW s \in Session, NEW record, NEW next, NEW shared,
           StartAppend(s, record, next, shared)
    PROVE  StoreInv' /\ LogStep
<1>1. /\ UNCHANGED <<files, linked, acked>> /\ call = Idle /\ cache[s].valid
      /\ call' = [phase |-> "truncate", session |-> s, record |-> record, head |-> next,
                  size |-> cache[s].size]
      /\ cache' = [cache EXCEPT ![s] = [cache[s] EXCEPT !.head = shared]]
  BY DEF StartAppend, StoreInv, CacheInv
<1>2. FilesInv' /\ LogStep
  BY <1>1, NoFileStep DEF StoreInv
<1>3. CacheInv' /\ \A t \in Session \ {s} : cache'[t] = cache[t]
  BY <1>1 DEF StoreInv, CacheInv
<1>4. files[s].exists /\ Len(files[s].records) = cache[s].size
  BY <1>1 DEF StoreInv, CallInv, IsCurrent
<1>5. Appends'
  BY <1>1, <1>4 DEF Appends
<1>6. CallInv'
  BY <1>1, <1>3, <1>5 DEF StoreInv, CallInv, IsCurrent
<1> QED
  BY <1>2, <1>3, <1>6 DEF StoreInv

\* What the invariant says while an append is in progress.
LEMMA AppendFacts ==
    ASSUME StoreInv, call.phase \in {"truncate", "write", "sync"}
    PROVE  \E s \in Session : s = call.session /\ call # Idle /\ Appends /\ FileInv(s)
BY DEF StoreInv, CallInv, FilesInv, Appends, Publishes, Idle

\* A step of a call that changes nothing of another session, and leaves a call in
\* progress or a current cache.
LEMMA CallStep ==
    ASSUME StoreInv, call # Idle, NEW s \in Session, s = call.session,
           files' = [files EXCEPT ![s] = files'[s]], cache' = [cache EXCEPT ![s] = cache'[s]],
           cache'[s] = [valid |-> cache'[s].valid, head |-> cache'[s].head,
                        size |-> cache'[s].size],
           FilesInv',
           \/ call' = Idle /\ IsCurrent(s)'
           \/ call'.session = s /\ (Appends' \/ Publishes')
    PROVE  StoreInv'
<1>1. \A t \in Session : t # s => files'[t] = files[t] /\ cache'[t] = cache[t]
  BY DEF StoreInv, FilesInv, CacheInv
<1>2. CacheInv'
  BY <1>1 DEF StoreInv, CacheInv
<1>3. ASSUME NEW t \in Session, t # s PROVE IsCurrent(t)'
  BY <1>1, <1>3 DEF StoreInv, CallInv, IsCurrent
<1>4. Appends' \/ Publishes' => call' # Idle
  <2>1. Appends' \/ Publishes' => call'.phase # "idle"
    BY DEF Appends, Publishes
  <2> QED
    BY <2>1 DEF Idle
<1>5. CallInv'
  <2>1. call' = Idle \/ Appends' \/ Publishes'
    OBVIOUS
  <2>2. ASSUME NEW t \in Session, call' = Idle \/ call'.session # t PROVE IsCurrent(t)'
    <3>1. CASE t = s
      BY <1>4, <2>2, <3>1 DEF IsCurrent
    <3>2. CASE t # s
      BY <1>3, <3>2
    <3> QED
      BY <3>1, <3>2
  <2> QED
    BY <2>1, <2>2 DEF CallInv, Idle
<1> QED
  BY <1>2, <1>5 DEF StoreInv

\* A call that fails leaves no head in the cache.
LEMMA FailStep ==
    ASSUME StoreInv, call # Idle, NEW s \in Session, s = call.session, Fail,
           files' = [files EXCEPT ![s] = files'[s]], FilesInv'
    PROVE  StoreInv'
<1>1. /\ call' = Idle /\ cache' = [cache EXCEPT ![s] = cache'[s]] /\ cache'[s] = NoEntry
  BY DEF Fail, Evict, StoreInv, CacheInv
<1>2. IsCurrent(s)' /\ cache'[s] = [valid |-> cache'[s].valid, head |-> cache'[s].head,
                                    size |-> cache'[s].size]
  BY <1>1 DEF IsCurrent, NoEntry
<1> QED
  BY <1>1, <1>2, CallStep

\* There is nothing to truncate but an incomplete line.
LEMMA TruncateStep == ASSUME StoreInv, Truncate PROVE StoreInv' /\ LogStep
<1>1. PICK s \in Session : s = call.session /\ call # Idle /\ Appends /\ FileInv(s)
  BY AppendFacts DEF Truncate
<1>2. /\ call.phase = "truncate" /\ UNCHANGED <<linked, cache, acked>>
      /\ call' = [call EXCEPT !.phase = "write"]
  BY DEF Truncate
<1>3. SubSeq(files[s].records, 1, call.size) = files[s].records
  BY <1>1, <1>2, SeqFacts DEF Appends, FileInv
<1>4. /\ files' = [files EXCEPT ![s] = files'[s]]
      /\ files'[s] = [files[s] EXCEPT !.records = files[s].records, !.torn = FALSE]
  BY <1>1, <1>3 DEF Truncate, DiscardTail, StoreInv, FilesInv
<1>5. /\ files'[s].records = files[s].records /\ files'[s].exists = files[s].exists
      /\ files'[s].synced = files[s].synced
      /\ files'[s] = [exists |-> files'[s].exists, records |-> files'[s].records,
                      torn |-> files'[s].torn, synced |-> files'[s].synced]
  BY <1>1, <1>4 DEF FileInv
<1>6. FileInv(s)'
  BY <1>1, <1>2, <1>5 DEF FileInv
<1>7. acked' = [acked EXCEPT ![s] = acked'[s]] /\ cache' = [cache EXCEPT ![s] = cache'[s]]
  BY <1>2 DEF StoreInv, FilesInv, CacheInv
<1>8. FilesInv' /\ LogStep
  BY <1>2, <1>4, <1>5, <1>6, <1>7, OneFileStep DEF StoreInv
<1>9. call'.session = s /\ Appends'
  <2>1. /\ call' = [phase |-> "write", session |-> s, record |-> call.record,
                    head |-> call.head, size |-> call.size]
        /\ files[s].exists /\ Len(files[s].records) = call.size
    BY <1>1, <1>2 DEF Appends
  <2> QED
    BY <2>1, <1>5 DEF Appends
<1>10. cache'[s] = [valid |-> cache'[s].valid, head |-> cache'[s].head,
                    size |-> cache'[s].size]
  BY <1>2 DEF StoreInv, CacheInv
<1> QED
  BY <1>1, <1>4, <1>7, <1>8, <1>9, <1>10, CallStep

\* A line is written: the record, or garbage.
LEMMA WriteStep == ASSUME StoreInv, Write PROVE StoreInv' /\ LogStep
<1>1. PICK s \in Session : s = call.session /\ call # Idle /\ Appends /\ FileInv(s)
  BY AppendFacts DEF Write
<1>2. /\ call.phase = "write" /\ UNCHANGED <<linked, cache, acked>>
      /\ call' = [call EXCEPT !.phase = "sync"]
  BY DEF Write
<1>3. PICK line : files' = [files EXCEPT ![s] =
                    [files[s] EXCEPT !.records = Append(files[s].records, line), !.torn = FALSE]]
  BY <1>1 DEF Write, StoreInv, FilesInv
<1>4. /\ files' = [files EXCEPT ![s] = files'[s]]
      /\ files'[s] = [files[s] EXCEPT !.records = Append(files[s].records, line),
                                      !.torn = FALSE]
  BY <1>3 DEF StoreInv, FilesInv
<1>5. /\ files'[s].records = Append(files[s].records, line)
      /\ files'[s].exists = files[s].exists /\ files'[s].synced = files[s].synced
      /\ files'[s] = [exists |-> files'[s].exists, records |-> files'[s].records,
                      torn |-> files'[s].torn, synced |-> files'[s].synced]
  BY <1>1, <1>4 DEF FileInv
<1>6. /\ IsSeq(files'[s].records) /\ Len(files[s].records) \in Nat
      /\ Len(files'[s].records) = Len(files[s].records) + 1
      /\ Durable!IsPrefix(files[s].records, files'[s].records)
  BY <1>1, <1>5, SeqFacts, PrefixFacts DEF FileInv
<1>7. /\ files[s].exists /\ Len(files[s].records) = call.size
      /\ call' = [phase |-> "sync", session |-> s, record |-> call.record,
                  head |-> call.head, size |-> call.size]
  BY <1>1, <1>2 DEF Appends
<1>8. FileInv(s)'
  BY <1>1, <1>2, <1>5, <1>6, <1>7 DEF FileInv
<1>9. /\ acked' = [acked EXCEPT ![s] = acked'[s]] /\ cache' = [cache EXCEPT ![s] = cache'[s]]
      /\ Durable!Grow(s)
  BY <1>2, <1>6 DEF StoreInv, FilesInv, CacheInv, Durable!Grow
<1>10. FilesInv' /\ LogStep
  BY <1>2, <1>4, <1>8, <1>9, OneFileStep DEF StoreInv
<1>11. call'.session = s /\ Appends'
  BY <1>5, <1>6, <1>7 DEF Appends
<1>12. cache'[s] = [valid |-> cache'[s].valid, head |-> cache'[s].head,
                    size |-> cache'[s].size]
  BY <1>2 DEF StoreInv, CacheInv
<1> QED
  BY <1>1, <1>4, <1>9, <1>10, <1>11, <1>12, CallStep

\* A failed truncate has changed nothing.
LEMMA TruncateFailsStep == ASSUME StoreInv, TruncateFails PROVE StoreInv' /\ LogStep
<1>1. PICK s \in Session : s = call.session /\ call # Idle
  BY AppendFacts DEF TruncateFails
<1>2. UNCHANGED <<files, linked, acked>> /\ Fail
  BY DEF TruncateFails, Fail
<1>3. FilesInv' /\ LogStep /\ files' = [files EXCEPT ![s] = files'[s]]
  BY <1>2, NoFileStep DEF StoreInv, FilesInv
<1> QED
  BY <1>1, <1>2, <1>3, FailStep

\* A failed write leaves the record out, whatever else it wrote.
LEMMA WriteFailsStep == ASSUME StoreInv, WriteFails PROVE StoreInv' /\ LogStep
<1>1. PICK s \in Session : s = call.session /\ call # Idle /\ FileInv(s)
  BY AppendFacts DEF WriteFails
<1>2. UNCHANGED <<linked, acked>> /\ Fail
  BY DEF WriteFails, Fail
<1>3. PICK torn : files' = [files EXCEPT ![s] = [files[s] EXCEPT !.torn = torn]]
  BY <1>1 DEF WriteFails, StoreInv, FilesInv
<1>4. /\ files' = [files EXCEPT ![s] = files'[s]]
      /\ files'[s] = [files[s] EXCEPT !.torn = torn]
  BY <1>3 DEF StoreInv, FilesInv
<1>5. FileInv(s)' /\ files'[s].records = files[s].records
  BY <1>1, <1>2, <1>4 DEF FileInv
<1>6. acked' = [acked EXCEPT ![s] = acked'[s]]
  BY <1>2 DEF StoreInv, FilesInv
<1>7. FilesInv' /\ LogStep
  BY <1>2, <1>4, <1>5, <1>6, OneFileStep DEF StoreInv
<1> QED
  BY <1>1, <1>2, <1>4, <1>7, FailStep

\* The sync acknowledges the whole file, the record and those before it.
LEMMA SyncStep == ASSUME StoreInv, Sync PROVE StoreInv' /\ LogStep
<1>1. PICK s \in Session : s = call.session /\ call # Idle /\ Appends /\ FileInv(s)
  BY AppendFacts DEF Sync
<1>2. /\ call.phase = "sync" /\ call' = Idle /\ linked' = linked \cup {s}
      /\ files' = [files EXCEPT ![s] = [files[s] EXCEPT !.synced = Len(files[s].records)]]
      /\ acked' = [acked EXCEPT ![s] = Len(files[s].records)]
      /\ cache' = [cache EXCEPT ![s] = Entry(call.head, call.size + 1)]
  BY <1>1 DEF Sync, StoreInv, FilesInv
<1>3. /\ files' = [files EXCEPT ![s] = files'[s]]
      /\ files'[s] = [files[s] EXCEPT !.synced = Len(files[s].records)]
      /\ acked' = [acked EXCEPT ![s] = acked'[s]] /\ acked'[s] = Len(files[s].records)
      /\ cache' = [cache EXCEPT ![s] = cache'[s]]
      /\ cache'[s] = Entry(call.head, call.size + 1)
  BY <1>2 DEF StoreInv, FilesInv, CacheInv
<1>4. /\ files'[s].records = files[s].records /\ files'[s].exists = files[s].exists
      /\ files'[s].synced = Len(files[s].records) /\ Len(files[s].records) \in Nat
      /\ files'[s] = [exists |-> files'[s].exists, records |-> files'[s].records,
                      torn |-> files'[s].torn, synced |-> files'[s].synced]
  BY <1>1, <1>3, SeqFacts DEF FileInv
<1>5. FileInv(s)'
  BY <1>1, <1>2, <1>3, <1>4 DEF FileInv
<1>6. Durable!Acknowledge(s)
  BY <1>3, <1>4 DEF Durable!Acknowledge
<1>7. FilesInv' /\ LogStep
  BY <1>2, <1>3, <1>5, <1>6, OneFileStep DEF StoreInv
<1>8. files[s].exists /\ Len(files[s].records) = call.size + 1
  BY <1>1, <1>2 DEF Appends
<1>9. /\ IsCurrent(s)'
      /\ cache'[s] = [valid |-> cache'[s].valid, head |-> cache'[s].head,
                      size |-> cache'[s].size]
  BY <1>3, <1>4, <1>8 DEF IsCurrent, Entry
<1> QED
  BY <1>1, <1>2, <1>3, <1>7, <1>9, CallStep

\* A failed sync may have synced the file.
LEMMA SyncFailsStep == ASSUME StoreInv, SyncFails PROVE StoreInv' /\ LogStep
<1>1. PICK s \in Session : s = call.session /\ call # Idle /\ FileInv(s)
  BY AppendFacts DEF SyncFails
<1>2. UNCHANGED <<linked, acked>> /\ Fail
  BY DEF SyncFails, Fail
<1>3. PICK synced \in {files[s].synced, Len(files[s].records)} :
        files' = [files EXCEPT ![s] = [files[s] EXCEPT !.synced = synced]]
  BY <1>1 DEF SyncFails, StoreInv, FilesInv
<1>4. /\ files' = [files EXCEPT ![s] = files'[s]]
      /\ files'[s] = [files[s] EXCEPT !.synced = synced]
  BY <1>3 DEF StoreInv, FilesInv
<1>5. /\ files'[s].records = files[s].records /\ files'[s].exists = files[s].exists
      /\ files'[s].synced = synced /\ Len(files[s].records) \in Nat
      /\ files'[s] = [exists |-> files'[s].exists, records |-> files'[s].records,
                      torn |-> files'[s].torn, synced |-> files'[s].synced]
  BY <1>1, <1>4, SeqFacts DEF FileInv
<1>6. FileInv(s)'
  BY <1>1, <1>2, <1>3, <1>5 DEF FileInv
<1>7. acked' = [acked EXCEPT ![s] = acked'[s]]
  BY <1>2 DEF StoreInv, FilesInv
<1>8. FilesInv' /\ LogStep
  BY <1>2, <1>4, <1>5, <1>6, <1>7, OneFileStep DEF StoreInv
<1> QED
  BY <1>1, <1>2, <1>4, <1>8, FailStep

-----------------------------------------------------------------------------
(* Create and Fork.                                                        *)

LEMMA PublishFacts ==
    ASSUME StoreInv, call.phase \in {"rename", "syncDirectory"}
    PROVE  \E s \in Session : s = call.session /\ call # Idle /\ Publishes /\ FileInv(s)
BY DEF StoreInv, CallInv, FilesInv, Appends, Publishes, Idle

LEMMA StartPublishStep ==
    ASSUME StoreInv, NEW s \in Session, NEW records, NEW head,
           IsSeq(records), records # <<>>, StartPublish(s, records, head)
    PROVE  StoreInv' /\ LogStep
<1>1. /\ UNCHANGED <<files, linked, cache, acked>> /\ call = Idle /\ ~files[s].exists
      /\ call' = [phase |-> "rename", session |-> s, records |-> records, head |-> head]
  BY DEF StartPublish
<1>2. FilesInv' /\ LogStep
  BY <1>1, NoFileStep DEF StoreInv
<1>3. Publishes'
  BY <1>1 DEF Publishes
<1>4. CacheInv' /\ CallInv'
  BY <1>1, <1>3 DEF StoreInv, CacheInv, CallInv, IsCurrent
<1> QED
  BY <1>2, <1>4 DEF StoreInv

LEMMA CreateStep ==
    ASSUME StoreInv, NEW s \in Session, Create(s)
    PROVE  StoreInv' /\ LogStep
<1>1. IsSeq(<<Header>>) /\ <<Header>> # <<>>
  <2>1. <<Header>> \in Seq({Header})
    OBVIOUS
  <2> QED
    BY <2>1 DEF IsSeq
<1> QED
  BY <1>1, StartPublishStep DEF Create

LEMMA ForkStep ==
    ASSUME StoreInv, NEW s \in Session, NEW parent \in Session, NEW turn, Fork(s, parent, turn)
    PROVE  StoreInv' /\ LogStep
<1> DEFINE items == ItemsIn(files[parent].records)
<1>1. Boundary(items, turn) # {} /\ StartPublish(s, Forked(items, turn), ForkedHead(items, turn))
  BY DEF Fork
<1>2. IsSeq(Forked(items, turn)) /\ Forked(items, turn) # <<>>
  BY <1>1, ForkedFacts
<1> QED
  BY <1>1, <1>2, StartPublishStep

\* The whole log appears at once.
LEMMA RenameStep == ASSUME StoreInv, Rename PROVE StoreInv' /\ LogStep
<1>1. PICK s \in Session : s = call.session /\ call # Idle /\ Publishes /\ FileInv(s)
  BY PublishFacts DEF Rename
<1>2. /\ call.phase = "rename" /\ UNCHANGED <<linked, cache, acked>>
      /\ call' = [call EXCEPT !.phase = "syncDirectory"]
      /\ files' = [files EXCEPT ![s] =
                     [exists |-> TRUE, records |-> call.records, torn |-> FALSE,
                      synced |-> Len(call.records)]]
  BY <1>1 DEF Rename
<1>3. /\ files' = [files EXCEPT ![s] = files'[s]]
      /\ files'[s] = [exists |-> TRUE, records |-> call.records, torn |-> FALSE,
                      synced |-> Len(call.records)]
  BY <1>2 DEF StoreInv, FilesInv
<1>4. /\ call' = [phase |-> "syncDirectory", session |-> s, records |-> call.records,
                  head |-> call.head]
      /\ ~files[s].exists /\ IsSeq(call.records) /\ call.records # <<>>
  BY <1>1, <1>2 DEF Publishes
<1>5. files[s].records = <<>> /\ acked[s] = 0 /\ Len(call.records) \in Nat
  BY <1>1, <1>4, SeqFacts DEF FileInv
<1>6. FileInv(s)'
  <2>1. /\ files'[s].records = call.records /\ files'[s].synced = Len(call.records)
        /\ files'[s].exists /\ files'[s].torn = FALSE /\ acked'[s] = 0
    BY <1>2, <1>3, <1>5
  <2>2. files'[s] = [exists |-> files'[s].exists, records |-> files'[s].records,
                     torn |-> files'[s].torn, synced |-> files'[s].synced]
    BY <1>3
  <2> QED
    BY <1>4, <1>5, <2>1, <2>2 DEF FileInv
<1>7. /\ acked' = [acked EXCEPT ![s] = acked'[s]] /\ cache' = [cache EXCEPT ![s] = cache'[s]]
      /\ Durable!Publish(s)
  BY <1>2, <1>3, <1>4, <1>5 DEF StoreInv, FilesInv, CacheInv, Durable!Publish
<1>8. FilesInv' /\ LogStep
  BY <1>2, <1>3, <1>6, <1>7, OneFileStep DEF StoreInv
<1>9. call'.session = s /\ Publishes'
  BY <1>3, <1>4 DEF Publishes
<1>10. cache'[s] = [valid |-> cache'[s].valid, head |-> cache'[s].head,
                    size |-> cache'[s].size]
  BY <1>2 DEF StoreInv, CacheInv
<1> QED
  BY <1>1, <1>3, <1>7, <1>8, <1>9, <1>10, CallStep

LEMMA RenameFailsStep ==
    ASSUME StoreInv, RenameFails \/ SyncDirectoryFails
    PROVE  StoreInv' /\ LogStep
<1>1. PICK s \in Session : s = call.session /\ call # Idle
  BY PublishFacts DEF RenameFails, SyncDirectoryFails
<1>2. UNCHANGED <<files, linked, acked>> /\ Fail
  BY DEF RenameFails, SyncDirectoryFails, Fail
<1>3. FilesInv' /\ LogStep /\ files' = [files EXCEPT ![s] = files'[s]]
  BY <1>2, NoFileStep DEF StoreInv, FilesInv
<1> QED
  BY <1>1, <1>2, <1>3, FailStep

\* The name is synced as the file was: the new session is acknowledged.
LEMMA SyncDirectoryStep == ASSUME StoreInv, SyncDirectory PROVE StoreInv' /\ LogStep
<1>1. PICK s \in Session : s = call.session /\ call # Idle /\ Publishes /\ FileInv(s)
  BY PublishFacts DEF SyncDirectory
<1>2. /\ call.phase = "syncDirectory" /\ call' = Idle /\ linked' = linked \cup {s}
      /\ UNCHANGED files
      /\ acked' = [acked EXCEPT ![s] = Len(call.records)]
      /\ cache' = [cache EXCEPT ![s] = Entry(call.head, Len(call.records))]
  BY <1>1 DEF SyncDirectory
<1>3. /\ files[s].exists /\ call.records = files[s].records
      /\ files[s].synced = Len(files[s].records)
  BY <1>1, <1>2 DEF Publishes
<1>4. /\ files' = [files EXCEPT ![s] = files'[s]] /\ files'[s] = files[s]
      /\ acked' = [acked EXCEPT ![s] = acked'[s]] /\ acked'[s] = Len(files[s].records)
      /\ cache' = [cache EXCEPT ![s] = cache'[s]]
      /\ cache'[s] = Entry(call.head, Len(files[s].records))
  BY <1>2, <1>3 DEF StoreInv, FilesInv, CacheInv
<1>5. FileInv(s)'
  BY <1>1, <1>2, <1>3, <1>4, SeqFacts DEF FileInv
<1>6. Durable!Acknowledge(s)
  BY <1>4 DEF Durable!Acknowledge
<1>7. FilesInv' /\ LogStep
  BY <1>2, <1>4, <1>5, <1>6, OneFileStep DEF StoreInv
<1>8. /\ IsCurrent(s)'
      /\ cache'[s] = [valid |-> cache'[s].valid, head |-> cache'[s].head,
                      size |-> cache'[s].size]
  BY <1>3, <1>4 DEF IsCurrent, Entry
<1> QED
  BY <1>1, <1>2, <1>4, <1>7, <1>8, CallStep

-----------------------------------------------------------------------------
(* Crashes.                                                                *)

\* The next process has no call and no cache.
LEMMA RestartStep ==
    ASSUME call' = Idle, cache' = [s \in Session |-> NoEntry]
    PROVE  CacheInv' /\ CallInv'
BY DEF CacheInv, CallInv, IsCurrent, NoEntry

LEMMA CrashStep == ASSUME StoreInv, Crash PROVE StoreInv' /\ LogStep
<1>1. FilesInv' /\ LogStep
  BY NoFileStep DEF StoreInv, Crash
<1> QED
  BY <1>1, RestartStep DEF StoreInv, Crash

\* What a power loss takes from a file has not been acknowledged.
LEMMA PowerLossStep ==
    ASSUME StoreInv, NEW s \in Session, PowerLoss(s)
    PROVE  StoreInv' /\ LogStep
<1>1. FileInv(s) /\ UNCHANGED <<linked, acked>> /\ CacheInv' /\ CallInv'
  BY RestartStep DEF PowerLoss, StoreInv, FilesInv
<1>2. PICK file \in Survivors(s) :
        files' = [files EXCEPT ![s] = [file EXCEPT !.synced = Len(file.records)]]
  BY DEF PowerLoss
<1>3. /\ files' = [files EXCEPT ![s] = files'[s]]
      /\ files'[s] = [file EXCEPT !.synced = Len(file.records)]
  BY <1>2 DEF StoreInv, FilesInv
<1>4. acked' = [acked EXCEPT ![s] = acked'[s]] /\ acked'[s] = acked[s]
  BY <1>1 DEF StoreInv, FilesInv
<1> DEFINE records == files[s].records
<1>5. /\ file = [exists |-> file.exists, records |-> file.records, torn |-> file.torn,
                 synced |-> file.synced]
      /\ IsSeq(file.records) /\ acked[s] <= Len(file.records)
      /\ ~file.exists => file.records = <<>>
      /\ file.records = records \/ Durable!IsStrictPrefix(file.records, records)
  <2>1. CASE file = files[s]
    BY <1>1, <2>1, SeqFacts DEF FileInv
  <2>2. CASE \E n \in files[s].synced .. (Len(records) - 1), torn \in BOOLEAN :
               file = Cut(files[s], n, torn)
    <3>1. PICK n \in files[s].synced .. (Len(records) - 1), torn \in BOOLEAN :
            file = Cut(files[s], n, torn)
      BY <2>2
    <3>2. /\ file.records = SubSeq(records, 1, n) /\ file.exists = files[s].exists
          /\ file = [exists |-> file.exists, records |-> file.records,
                     torn |-> file.torn, synced |-> file.synced]
      BY <1>1, <3>1 DEF FileInv, Cut
    <3>3. n \in 0 .. (Len(records) - 1) /\ Len(records) \in Nat /\ acked[s] <= n
      BY <1>1, <3>1, SeqFacts DEF FileInv
    <3>4. IsSeq(file.records) /\ Len(file.records) = n
      <4>1. IsSeq(records) /\ n \in 0 .. Len(records)
        BY <1>1, <3>3 DEF FileInv
      <4> HIDE DEF records
      <4>2. IsSeq(SubSeq(records, 1, n)) /\ Len(SubSeq(records, 1, n)) = n
        BY <4>1, SeqFacts
      <4> QED
        BY <3>2, <4>2
    <3>5. Durable!IsStrictPrefix(file.records, records)
      BY <1>1, <3>2, <3>3, PrefixFacts DEF FileInv
    <3>6. file.exists
      BY <1>1, <3>2, <3>3 DEF FileInv
    <3> QED
      BY <3>2, <3>3, <3>4, <3>5, <3>6
  <2>3. CASE s \notin linked /\ file = NoFile
    <3>1. acked[s] = 0 /\ IsSeq(<<>>) /\ file.records = <<>>
      BY <1>1, <2>3 DEF FileInv, NoFile, IsSeq
    <3>2. <<>> = records \/ Durable!IsStrictPrefix(<<>>, records)
      <4>1. CASE records # <<>>
        <5>1. Len(records) > 0 /\ Len(records) \in Nat /\ SubSeq(records, 1, 0) = <<>>
          BY <1>1, <4>1, SeqFacts DEF FileInv
        <5>2. IsSeq(records) /\ 0 \in 0 .. (Len(records) - 1)
          BY <1>1, <5>1 DEF FileInv
        <5> HIDE DEF records
        <5>3. Durable!IsStrictPrefix(SubSeq(records, 1, 0), records)
          BY <5>2, PrefixFacts
        <5> QED
          BY <5>1, <5>3
      <4> QED
        BY <4>1
    <3> QED
      BY <2>3, <3>1, <3>2 DEF NoFile
  <2>4. \/ file = files[s]
        \/ \E n \in files[s].synced .. (Len(records) - 1), torn \in BOOLEAN :
              file = Cut(files[s], n, torn)
        \/ s \notin linked /\ file = NoFile
    BY DEF Survivors
  <2> QED
    BY <2>1, <2>2, <2>3, <2>4
<1>6. /\ files'[s].records = file.records /\ files'[s].exists = file.exists
      /\ files'[s].synced = Len(file.records) /\ Len(file.records) \in Nat
      /\ files'[s] = [exists |-> files'[s].exists, records |-> files'[s].records,
                      torn |-> files'[s].torn, synced |-> files'[s].synced]
  BY <1>3, <1>5, SeqFacts
<1>7. FileInv(s)'
  BY <1>1, <1>4, <1>5, <1>6 DEF FileInv
<1>8. files'[s].records = records \/ Durable!Lose(s)
  BY <1>4, <1>5, <1>6 DEF Durable!Lose
<1>9. FilesInv' /\ LogStep
  BY <1>1, <1>3, <1>4, <1>7, <1>8, OneFileStep DEF StoreInv
<1> QED
  BY <1>1, <1>9 DEF StoreInv

-----------------------------------------------------------------------------

LEMMA NextStep == ASSUME StoreInv, [Next]_vars PROVE StoreInv' /\ LogStep
<1>1. CASE \E s \in Session : LoadWriteState(s)
  BY <1>1, LoadWriteStateStep
<1>2. CASE \E s \in Session, item \in Appendable : AppendItem(s, item)
  BY <1>2, StartAppendStep DEF AppendItem
<1>3. CASE \E s \in Session, key \in Key, slot \in Slot, status \in Saved :
             SaveOperation(s, key, slot, status)
  BY <1>3, StartAppendStep DEF SaveOperation
<1>4. CASE Truncate \/ TruncateFails
  BY <1>4, TruncateStep, TruncateFailsStep
<1>5. CASE Write \/ WriteFails
  BY <1>5, WriteStep, WriteFailsStep
<1>6. CASE Sync \/ SyncFails
  BY <1>6, SyncStep, SyncFailsStep
<1>7. CASE \E s \in Session : Create(s)
  BY <1>7, CreateStep
<1>8. CASE \E s \in Session, parent \in Session, turn \in Turn : Fork(s, parent, turn)
  BY <1>8, ForkStep
<1>9. CASE Rename \/ RenameFails \/ SyncDirectoryFails
  BY <1>9, RenameStep, RenameFailsStep
<1>10. CASE SyncDirectory
  BY <1>10, SyncDirectoryStep
<1>11. CASE Crash
  BY <1>11, CrashStep
<1>12. CASE \E s \in Session : PowerLoss(s)
  BY <1>12, PowerLossStep
<1>13. CASE UNCHANGED vars
  <2>1. UNCHANGED <<files, linked, cache, call, acked>>
    BY <1>13 DEF vars
  <2> QED
    BY <2>1, NoFileStep DEF StoreInv, CacheInv, CallInv, IsCurrent, Appends, Publishes
<1> QED
  BY <1>1, <1>2, <1>3, <1>4, <1>5, <1>6, <1>7, <1>8, <1>9, <1>10, <1>11, <1>12, <1>13 DEF Next

\* Whatever the calls, their failures, the crashes and the power losses: the files are
\* durable logs.  A record that AppendInput, AppendTurn, AppendModelResponse,
\* AppendToolCallStatus or SaveOperation has reported stored stays where it is, and a
\* session that Create or Fork has returned stays.
THEOREM Durability == Spec => IsDurable
<1>1. Init => StoreInv /\ Durable!Init
  BY InitStore
<1>2. StoreInv /\ [Next]_vars => StoreInv' /\ [Durable!Next]_<<Logs, acked>>
  BY NextStep DEF LogStep
<1>3. Durable!Spec <=> Durable!Init /\ [][Durable!Next]_<<Logs, acked>>
  BY DEF Durable!Spec, Logs
<1> QED
  BY <1>1, <1>2, <1>3, PTL DEF Spec, IsDurable

-----------------------------------------------------------------------------
(* What is written can be read again: recursive functions on the records.  *)

\* What holds at 0, and at every number when it holds at the one before it, holds up to
\* any bound.
LEMMA UpTo ==
    ASSUME NEW bound \in Nat, NEW S, 0 \in S,
           \A n \in 1 .. bound : n - 1 \in S => n \in S
    PROVE  \A n \in 0 .. bound : n \in S
<1> DEFINE Less == {pair \in Nat \X Nat : pair[1] < pair[2]}
           rest == (0 .. bound) \ S
<1>1. IsWellFoundedOn(Less, Nat)
  BY NatLessThanWellFounded DEF OpToRel
<1> SUFFICES ASSUME rest # {} PROVE FALSE
  OBVIOUS
<1> HIDE DEF Less
<1>2. rest \subseteq Nat
  OBVIOUS
<1> HIDE DEF rest
<1>3. PICK x \in rest : \A y \in rest : <<y, x>> \notin Less
  BY <1>1, <1>2, WFMin
<1>4. x \in 1 .. bound /\ x - 1 \in 0 .. bound /\ x \notin S /\ <<x - 1, x>> \in Less
  BY <1>3 DEF rest, Less
<1>5. x - 1 \in S
  BY <1>3, <1>4 DEF rest
<1> QED
  BY <1>4, <1>5

\* A function that starts with the first value and goes from each value to the next.
Steps(f, bound, V, first, step) ==
    f \in [0 .. bound -> V] /\ f[0] = first /\ \A n \in 1 .. bound : f[n] = step[n][f[n - 1]]

LEMMA Recursion ==
    ASSUME NEW bound \in Nat, NEW V, NEW first \in V, NEW step \in [1 .. bound -> [V -> V]]
    PROVE  \E f : Steps(f, bound, V, first, step)
<1> DEFINE Is(f, m) == Steps(f, m, V, first, step)
           have == {m \in 0 .. bound : \E f : Is(f, m)}
<1> USE DEF Steps
<1>1. 0 \in have
  <2> DEFINE f == [n \in 0 .. 0 |-> first]
  <2>1. Is(f, 0)
    OBVIOUS
  <2> HIDE DEF f, Is
  <2> QED
    BY <2>1
<1>2. ASSUME NEW m \in 1 .. bound, m - 1 \in have PROVE m \in have
  <2>1. PICK f : Is(f, m - 1)
    BY <1>2
  <2> DEFINE next == step[m][f[m - 1]]
             g == [n \in 0 .. m |-> IF n = m THEN next ELSE f[n]]
  <2>2. m \in Nat /\ m - 1 \in 0 .. (m - 1) /\ \A n \in 0 .. (m - 1) : n # m /\ n \in 0 .. m
    BY <1>2
  <2>3. next \in V
    BY <2>1, <2>2
  <2>4. /\ \A n \in 0 .. (m - 1) : g[n] = f[n]
        /\ g[m] = next
    BY <2>2
  <2>5. g \in [0 .. m -> V]
    BY <2>1, <2>2, <2>3
  <2> HIDE DEF g
  <2>6. ASSUME NEW n \in 1 .. m PROVE g[n] = step[n][g[n - 1]]
    <3>1. CASE n = m
      <4>1. n - 1 = m - 1 /\ g[n] = next /\ g[n - 1] = f[m - 1]
        BY <2>2, <2>4, <3>1
      <4> QED
        BY <3>1, <4>1
    <3>2. CASE n \in 1 .. (m - 1)
      <4>1. n \in 0 .. (m - 1) /\ n - 1 \in 0 .. (m - 1)
        BY <2>2, <3>2
      <4>2. g[n] = f[n] /\ g[n - 1] = f[n - 1] /\ f[n] = step[n][f[n - 1]]
        BY <2>1, <2>4, <3>2, <4>1
      <4> QED
        BY <4>2
    <3> QED
      BY <2>2, <3>1, <3>2
  <2>7. g[0] = first
    BY <2>1, <2>2, <2>4
  <2>8. Is(g, m)
    BY <2>5, <2>6, <2>7
  <2> HIDE DEF Is
  <2> QED
    BY <2>8
<1> HIDE DEF have
<1>3. \A n \in 0 .. bound : n \in have
  BY <1>1, <1>2, UpTo
<1> QED
  BY <1>3 DEF have

\* The records that the store writes, and the heads they can add up to.
StoredItem ==
    [kind : {"input"}, input : Message] \cup TurnItem \cup ResponseItem \cup StatusItem
    \cup ForkItem

Record ==
    {Header}
    \cup [type : {"item"}, seq : Nat, item : StoredItem]
    \cup [type : {"operation"}, key : Key, slot : Slot, status : OpStatus]

HeadType ==
    [seq : Int, latest : 0 .. MaxTurn, turns : SUBSET Turn, owned : SUBSET Turn,
     responded : SUBSET Turn, statuses : SUBSET Key, ops : [Key -> Snapshot]]

LEMMA FirstHead == NewHead \in HeadType /\ Corrupt \in HeadType /\ NewHead # Corrupt
<1>1. NoSnapshot \in Snapshot /\ 0 \in 0 .. MaxTurn
  BY MaxTurnAssumption DEF NoSnapshot, Snapshot
<1> QED
  BY <1>1 DEF NewHead, Corrupt, HeadType

\* Every kind of record, with what it holds.
LEMMA RecordCases ==
    ASSUME NEW record \in Record
    PROVE  \/ record = Header /\ record.type = "session" /\ ~IsItem(record) /\ ~IsFork(record)
           \/ /\ record.type = "item" /\ IsItem(record)
              /\ record.seq \in Nat /\ record.item \in StoredItem
              /\ record = ItemRecord(record.seq, record.item)
           \/ /\ record.type = "operation" /\ ~IsItem(record) /\ ~IsFork(record)
              /\ record.key \in Key /\ record.slot \in Slot /\ record.status \in OpStatus
BY DEF Record, Header, IsItem, IsFork, ItemRecord

LEMMA ItemCases ==
    ASSUME NEW item \in StoredItem
    PROVE  \/ item.kind = "input"
           \/ item.kind \in {"turn", "response", "fork"} /\ item.turn \in Turn
           \/ item.kind = "status" /\ item.key \in Key /\ item.ops \in Snapshot
BY DEF StoredItem, TurnItem, ResponseItem, StatusItem, ForkItem

LEMMA ApplyInPlaceType ==
    ASSUME NEW head \in HeadType, NEW item \in StoredItem
    PROVE  ApplyInPlace(head, item) \in HeadType /\ ApplyInPlace(head, item).seq = head.seq
<1>1. CASE item.kind = "turn"
  <2> DEFINE turns == head.turns \cup {item.turn}
             owned == head.owned \cup {item.turn}
  <2>1. turns \in SUBSET Turn /\ owned \in SUBSET Turn
    BY <1>1, ItemCases DEF HeadType
  <2>2. ApplyInPlace(head, item) = [head EXCEPT !.turns = turns, !.owned = owned]
    BY <1>1 DEF ApplyInPlace
  <2> HIDE DEF turns, owned
  <2> QED
    BY <2>1, <2>2 DEF HeadType
<1>2. CASE item.kind = "response"
  <2>1. item.turn \in Turn
    BY <1>2, ItemCases
  <2>2. ApplyInPlace(head, item) = [head EXCEPT !.responded = @ \cup {item.turn}]
    BY <1>2 DEF ApplyInPlace
  <2> QED
    BY <2>1, <2>2 DEF HeadType
<1>3. CASE item.kind = "status" /\ item.key \notin head.statuses
  <2> DEFINE statuses == head.statuses \cup {item.key}
             ops == [head.ops EXCEPT ![item.key] = item.ops]
  <2>1. statuses \in SUBSET Key /\ ops \in [Key -> Snapshot]
    BY <1>3, ItemCases DEF HeadType
  <2>2. ApplyInPlace(head, item) = [head EXCEPT !.statuses = statuses, !.ops = ops]
    BY <1>3 DEF ApplyInPlace
  <2> HIDE DEF statuses, ops
  <2> QED
    BY <2>1, <2>2 DEF HeadType
<1>4. CASE ApplyInPlace(head, item) = head
  BY <1>4
<1> QED
  BY <1>1, <1>2, <1>3, <1>4, ItemCases DEF ApplyInPlace

LEMMA ApplyType ==
    ASSUME NEW head \in HeadType, NEW item \in StoredItem
    PROVE  Apply(head, item) \in HeadType /\ Apply(head, item).seq = head.seq + 1
<1> DEFINE next   == ApplyInPlace(head, item)
           latest == IF item.kind = "turn" THEN item.turn ELSE next.latest
<1>1. next \in HeadType /\ next.seq = head.seq /\ next.seq + 1 \in Int
  BY ApplyInPlaceType DEF HeadType
<1> HIDE DEF next
<1>2. latest \in 0 .. MaxTurn
  BY <1>1, ItemCases, MaxTurnAssumption DEF Turn, HeadType
<1>3. Apply(head, item) = [next EXCEPT !.seq = next.seq + 1, !.latest = latest]
  BY DEF Apply, next
<1> HIDE DEF latest
<1> QED
  BY <1>1, <1>2, <1>3 DEF HeadType

LEMMA SaveType ==
    ASSUME NEW head \in HeadType, NEW key \in Key, NEW slot \in Slot, NEW status \in OpStatus
    PROVE  Save(head, key, slot, status) \in HeadType
           /\ Save(head, key, slot, status).seq = head.seq
<1> DEFINE ops == [head.ops EXCEPT ![key] = [head.ops[key] EXCEPT ![slot] = status]]
<1>1. Save(head, key, slot, status) = [head EXCEPT !.ops = ops]
  BY DEF Save
<1>2. ops \in [Key -> Snapshot]
  BY DEF HeadType, Snapshot
<1> HIDE DEF ops
<1> QED
  BY <1>1, <1>2 DEF HeadType

LEMMA ResetOwnedType ==
    ASSUME NEW head \in HeadType
    PROVE  ResetOwned(head) \in HeadType /\ ResetOwned(head).seq = head.seq
<1> DEFINE ops == [key \in Key |-> NoSnapshot]
<1>1. ops \in [Key -> Snapshot]
  BY DEF NoSnapshot, Snapshot
<1>2. ResetOwned(head) = [head EXCEPT !.owned = {}, !.responded = {}, !.statuses = {}, !.ops = ops]
  BY DEF ResetOwned
<1> HIDE DEF ops
<1> QED
  BY <1>1, <1>2 DEF HeadType

LEMMA InheritType ==
    ASSUME NEW head \in HeadType, NEW seq \in Nat, NEW item \in StoredItem
    PROVE  /\ Inherit(head, ItemRecord(seq, item)) \in HeadType
           /\ Inherit(head, ItemRecord(seq, item)).seq = seq
<1> DEFINE next == [head EXCEPT !.seq = seq]
           new == Inherit(head, ItemRecord(seq, item))
<1>1. new = CASE item.kind = "turn"     ->
                      [next EXCEPT !.turns = @ \cup {item.turn}, !.owned = @ \cup {item.turn},
                                   !.latest = item.turn]
              [] item.kind = "response" -> [next EXCEPT !.responded = @ \cup {item.turn}]
              [] item.kind = "status"   -> [next EXCEPT !.statuses = @ \cup {item.key}]
              [] item.kind = "fork"     -> ResetOwned(next)
              [] OTHER                  -> next
  BY DEF Inherit, ItemRecord
<1>2. next \in HeadType /\ next.seq = seq
  BY DEF HeadType
<1> SUFFICES new \in HeadType /\ new.seq = seq
  OBVIOUS
<1> HIDE DEF next, new
<1>3. CASE item.kind = "turn"
  <2>1. item.turn \in Turn /\ item.turn \in 0 .. MaxTurn
    BY <1>3, ItemCases, MaxTurnAssumption DEF Turn
  <2>2. new = [next EXCEPT !.turns = @ \cup {item.turn}, !.owned = @ \cup {item.turn},
                           !.latest = item.turn]
    BY <1>1, <1>3
  <2> QED
    BY <1>2, <2>1, <2>2 DEF HeadType
<1>4. CASE item.kind = "response"
  <2>1. item.turn \in Turn
    BY <1>4, ItemCases
  <2>2. new = [next EXCEPT !.responded = @ \cup {item.turn}]
    BY <1>1, <1>4
  <2> QED
    BY <1>2, <2>1, <2>2 DEF HeadType
<1>5. CASE item.kind = "status"
  <2>1. item.key \in Key
    BY <1>5, ItemCases
  <2>2. new = [next EXCEPT !.statuses = @ \cup {item.key}]
    BY <1>1, <1>5
  <2> QED
    BY <1>2, <2>1, <2>2 DEF HeadType
<1>6. CASE item.kind = "fork"
  BY <1>1, <1>2, <1>6, ResetOwnedType
<1>7. CASE item.kind = "input"
  BY <1>1, <1>2, <1>7
<1> QED
  BY <1>3, <1>4, <1>5, <1>6, <1>7, ItemCases

-----------------------------------------------------------------------------
(* The heads of a file's records.                                          *)

\* A record at or before the last fork.
IsInherited(records, i) == \E j \in DOMAIN records : i <= j /\ IsFork(records[j])

\* What decodeLog makes of a record of each kind.
LEMMA DecodeCases ==
    ASSUME NEW records, NEW head, head # Corrupt, NEW i \in Nat, records[i] \in Record
    PROVE  LET record == records[i]
               new    == DecodeRecord(records, head, i)
           IN  \/ i = 1 /\ record = Header /\ new = NewHead
               \/ /\ i > 1 /\ IsItem(record) /\ record.seq = head.seq + 1
                  /\ IsInherited(records, i) /\ ~InitialisesOps(record)
                  /\ new = Inherit(head, record)
               \/ /\ i > 1 /\ IsItem(record) /\ record.seq = head.seq + 1
                  /\ ~IsInherited(records, i) /\ Accepts(head, record.item)
                  /\ new = Apply(head, record.item)
               \/ /\ i > 1 /\ record.type = "operation" /\ ~IsInherited(records, i)
                  /\ AcceptsSave(head, record.key, record.slot)
                  /\ new = Save(head, record.key, record.slot, record.status)
               \/ new = Corrupt
<1> DEFINE record == records[i]
           new == DecodeRecord(records, head, i)
<1>1. CASE record = Header /\ record.type = "session" /\ ~IsItem(record)
  BY <1>1 DEF DecodeRecord
<1>2. CASE record.type = "item" /\ IsItem(record)
  BY <1>2 DEF DecodeRecord, IsInherited
<1>3. CASE record.type = "operation" /\ ~IsItem(record)
  BY <1>3 DEF DecodeRecord, IsInherited
<1> QED
  BY <1>1, <1>2, <1>3, RecordCases

\* And that it accepts it.
LEMMA DecodeHeader ==
    ASSUME NEW records, NEW head, head # Corrupt, records[1] = Header
    PROVE  DecodeRecord(records, head, 1) = NewHead
BY DEF DecodeRecord, Header, IsItem

LEMMA DecodeItem ==
    ASSUME NEW records, NEW head, head # Corrupt, NEW i \in Nat, i > 1, ~IsInherited(records, i),
           NEW item, records[i] = ItemRecord(head.seq + 1, item), Accepts(head, item)
    PROVE  DecodeRecord(records, head, i) = Apply(head, item)
BY DEF DecodeRecord, IsInherited, IsItem, ItemRecord

LEMMA DecodeOperation ==
    ASSUME NEW records, NEW head, head # Corrupt, NEW i \in Nat, i > 1, ~IsInherited(records, i),
           NEW key, NEW slot, NEW status, records[i] = OperationRecord(key, slot, status),
           AcceptsSave(head, key, slot)
    PROVE  DecodeRecord(records, head, i) = Save(head, key, slot, status)
BY DEF DecodeRecord, IsInherited, IsItem, OperationRecord

LEMMA DecodeInherited ==
    ASSUME NEW records, NEW head, head # Corrupt, NEW i \in Nat, i > 1, IsInherited(records, i),
           NEW item, records[i] = ItemRecord(head.seq + 1, item), ~InitialisesOps(records[i])
    PROVE  DecodeRecord(records, head, i) = Inherit(head, records[i])
BY DEF DecodeRecord, IsInherited, IsItem, ItemRecord

LEMMA DecodeType ==
    ASSUME NEW records, NEW head \in HeadType, NEW i \in Nat, records[i] \in Record
    PROVE  DecodeRecord(records, head, i) \in HeadType
<1> DEFINE record == records[i]
           new == DecodeRecord(records, head, i)
<1>1. CASE head = Corrupt
  BY <1>1, FirstHead DEF DecodeRecord
<1>2. CASE head # Corrupt
  <2>1. CASE new = NewHead \/ new = Corrupt
    BY <2>1, FirstHead
  <2>2. CASE IsItem(record) /\ (new = Inherit(head, record) \/ new = Apply(head, record.item))
    <3>1. record.seq \in Nat /\ record.item \in StoredItem
          /\ record = ItemRecord(record.seq, record.item)
      BY <2>2, RecordCases DEF Header
    <3> HIDE DEF record
    <3> QED
      BY <2>2, <3>1, InheritType, ApplyType
  <2>3. CASE record.type = "operation" /\ new = Save(head, record.key, record.slot, record.status)
    BY <2>3, RecordCases, SaveType DEF Header
  <2> QED
    BY <1>2, <2>1, <2>2, <2>3, DecodeCases
<1> QED
  BY <1>1, <1>2

\* The heads exist, and each is what the record before it makes of the last one.
LEMMA HeadsDef ==
    ASSUME NEW records \in Seq(Record)
    PROVE  /\ Heads(records)[0] = NewHead
           /\ \A i \in 1 .. Len(records) :
                 Heads(records)[i] = DecodeRecord(records, Heads(records)[i - 1], i)
           /\ \A i \in 0 .. Len(records) : Heads(records)[i] \in HeadType
<1> DEFINE len  == Len(records)
           Is(f) == f = [i \in 0 .. len |->
                           IF i = 0 THEN NewHead ELSE DecodeRecord(records, f[i - 1], i)]
           step == [i \in 1 .. len |-> [head \in HeadType |-> DecodeRecord(records, head, i)]]
<1>1. len \in Nat /\ \A i \in 1 .. len : i \in Nat /\ i # 0 /\ records[i] \in Record
  OBVIOUS
<1>2. step \in [1 .. len -> [HeadType -> HeadType]]
  <2>1. ASSUME NEW i \in 1 .. len, NEW head \in HeadType
        PROVE  DecodeRecord(records, head, i) \in HeadType
    BY <1>1, DecodeType
  <2> QED
    BY <2>1
<1>3. \A head \in HeadType, i \in 1 .. len : step[i][head] = DecodeRecord(records, head, i)
  OBVIOUS
<1> HIDE DEF step, len
<1>4. PICK f : Steps(f, len, HeadType, NewHead, step)
  <2>1. len \in Nat /\ NewHead \in HeadType
    BY <1>1, FirstHead
  <2> QED
    BY <1>2, <2>1, Recursion
<1>5. Is(f)
  <2>1. ASSUME NEW n \in 1 .. len PROVE f[n] = DecodeRecord(records, f[n - 1], n)
    <3>1. n - 1 \in 0 .. len
      BY <1>1
    <3>2. f[n - 1] \in HeadType
      BY <1>4, <3>1 DEF Steps
    <3> QED
      BY <1>3, <1>4, <3>2 DEF Steps
  <2>2. \A n \in 0 .. len : f[n] = IF n = 0 THEN NewHead ELSE DecodeRecord(records, f[n - 1], n)
    BY <1>1, <1>4, <2>1 DEF Steps
  <2> QED
    BY <1>4, <2>2 DEF Steps
<1>6. Heads(records) = CHOOSE g : Is(g)
  BY DEF Heads, len
<1> HIDE DEF Is
<1>7. Is(Heads(records))
  BY <1>5, <1>6
<1>8. /\ Heads(records)[0] = NewHead
      /\ \A i \in 1 .. len : Heads(records)[i] = DecodeRecord(records, Heads(records)[i - 1], i)
  BY <1>1, <1>7 DEF Is
<1> DEFINE typed == {i \in 0 .. len : Heads(records)[i] \in HeadType}
<1>9. 0 \in typed
  BY <1>1, <1>8, FirstHead
<1>10. ASSUME NEW n \in 1 .. len, n - 1 \in typed PROVE n \in typed
  BY <1>1, <1>8, <1>10, DecodeType
<1> HIDE DEF typed
<1>11. \A n \in 0 .. len : n \in typed
  BY <1>1, <1>9, <1>10, UpTo
<1> QED
  BY <1>8, <1>11 DEF typed, len

\* A head that is not Corrupt has numbered its items.
LEMMA DecodeSeq ==
    ASSUME NEW records, NEW head \in HeadType, NEW i \in Nat, records[i] \in Record,
           DecodeRecord(records, head, i) # Corrupt, head # Corrupt => head.seq \in Nat
    PROVE  head # Corrupt /\ DecodeRecord(records, head, i).seq \in Nat
<1> DEFINE record == records[i]
           new == DecodeRecord(records, head, i)
<1>1. head # Corrupt
  BY DEF DecodeRecord
<1>2. CASE new = NewHead
  BY <1>1, <1>2 DEF NewHead
<1>3. CASE IsItem(record) /\ (new = Inherit(head, record) \/ new = Apply(head, record.item))
  <2>1. record.seq \in Nat /\ record.item \in StoredItem
        /\ record = ItemRecord(record.seq, record.item)
    BY <1>3, RecordCases DEF Header
  <2>2. CASE new = Inherit(head, record)
    <3>1. Inherit(head, ItemRecord(record.seq, record.item)).seq = record.seq
      BY <2>1, InheritType
    <3> QED
      BY <1>1, <2>1, <2>2, <3>1
  <2>3. CASE new = Apply(head, record.item)
    <3>1. Apply(head, record.item).seq = head.seq + 1 /\ head.seq \in Nat
      BY <1>1, <2>1, ApplyType
    <3> QED
      BY <1>1, <2>3, <3>1
  <2> QED
    BY <1>3, <2>2, <2>3
<1>4. CASE record.type = "operation" /\ new = Save(head, record.key, record.slot, record.status)
  <2>1. record.key \in Key /\ record.slot \in Slot /\ record.status \in OpStatus
    BY <1>4, RecordCases DEF Header
  <2> QED
    BY <1>1, <1>4, <2>1, SaveType
<1> QED
  BY <1>1, <1>2, <1>3, <1>4, DecodeCases

\* Once refused, refused for good; and what is accepted has numbered its items.
LEMMA HeadsSeq ==
    ASSUME NEW records \in Seq(Record)
    PROVE  \A i \in 0 .. Len(records) :
              Heads(records)[i] # Corrupt =>
                 Heads(records)[i].seq \in Nat /\ (i > 0 => Heads(records)[i - 1] # Corrupt)
<1> DEFINE heads == Heads(records)
           len   == Len(records)
           Is(i) == heads[i] # Corrupt => heads[i].seq \in Nat /\ (i > 0 => heads[i - 1] # Corrupt)
           good  == {i \in 0 .. len : Is(i)}
<1>1. len \in Nat /\ \A i \in 1 .. len : i \in Nat /\ records[i] \in Record
  OBVIOUS
<1>2. /\ heads[0] = NewHead /\ \A i \in 0 .. len : heads[i] \in HeadType
      /\ \A i \in 1 .. len : heads[i] = DecodeRecord(records, heads[i - 1], i)
  BY HeadsDef
<1> HIDE DEF heads, len
<1>3. 0 \in good
  BY <1>1, <1>2 DEF NewHead
<1>4. ASSUME NEW i \in 1 .. len, i - 1 \in good PROVE i \in good
  <2>1. i \in 0 .. len /\ i - 1 \in 0 .. len
    BY <1>1
  <2>3. heads[i - 1] \in HeadType /\ (heads[i - 1] # Corrupt => heads[i - 1].seq \in Nat)
    BY <1>2, <1>4, <2>1
  <2>2. heads[i] # Corrupt => heads[i - 1] # Corrupt /\ heads[i].seq \in Nat
    BY <1>1, <1>2, <2>3, DecodeSeq
  <2> QED
    BY <2>1, <2>2
<1> HIDE DEF good
<1>5. \A i \in 0 .. len : i \in good
  BY <1>1, <1>3, <1>4, UpTo
<1>6. \A i \in 0 .. len : Is(i)
  BY <1>5 DEF good
<1> QED
  BY <1>6 DEF heads, len

LEMMA HeadsBefore ==
    ASSUME NEW records \in Seq(Record), NEW n \in 0 .. Len(records), Heads(records)[Len(records)] # Corrupt
    PROVE  Heads(records)[n] # Corrupt
<1> DEFINE heads == Heads(records)
           len   == Len(records)
           good  == {i \in 0 .. len : heads[len - i] # Corrupt}
<1>1. len \in Nat /\ len \in 0 .. len
  OBVIOUS
<1>2. \A i \in 0 .. len : heads[i] # Corrupt /\ i > 0 => heads[i - 1] # Corrupt
  BY <1>1, HeadsSeq
<1> HIDE DEF heads, len
<1>3. 0 \in good
  <2>1. len - 0 = len
    BY <1>1
  <2> QED
    BY <1>1, <2>1 DEF heads, len
<1>4. ASSUME NEW i \in 1 .. len, i - 1 \in good PROVE i \in good
  <2>1. /\ len - (i - 1) \in 0 .. len /\ len - (i - 1) > 0 /\ (len - (i - 1)) - 1 = len - i
        /\ i \in 0 .. len
    BY <1>1
  <2>2. heads[len - (i - 1)] # Corrupt
    BY <1>4
  <2>3. heads[len - i] # Corrupt
    BY <1>2, <2>1, <2>2
  <2> QED
    BY <2>1, <2>3
<1> HIDE DEF good
<1>5. \A i \in 0 .. len : i \in good
  BY <1>1, <1>3, <1>4, UpTo
<1>6. len - n \in 0 .. len /\ len - (len - n) = n
  BY <1>1 DEF len
<1>7. heads[len - (len - n)] # Corrupt
  BY <1>5, <1>6 DEF good
<1> QED
  BY <1>6, <1>7 DEF heads

\* Files that start with the same records, none of them inherited in one file only, have
\* the same heads that far.
LEMMA HeadsAgree ==
    ASSUME NEW r \in Seq(Record), NEW q \in Seq(Record), NEW n \in 0 .. Len(r), n <= Len(q),
           \A i \in 1 .. n : r[i] = q[i] /\ (IsInherited(r, i) <=> IsInherited(q, i))
    PROVE  Heads(r)[n] = Heads(q)[n]
<1> DEFINE same == {i \in 0 .. n : Heads(r)[i] = Heads(q)[i]}
<1>1. /\ n \in Nat /\ Len(r) \in Nat /\ Len(q) \in Nat
      /\ \A i \in 1 .. n : i \in 1 .. Len(r) /\ i \in 1 .. Len(q)
  OBVIOUS
<1>2. 0 \in same
  BY <1>1, HeadsDef
<1>3. ASSUME NEW i \in 1 .. n, i - 1 \in same PROVE i \in same
  <2>1. /\ Heads(r)[i] = DecodeRecord(r, Heads(r)[i - 1], i)
        /\ Heads(q)[i] = DecodeRecord(q, Heads(q)[i - 1], i)
    BY <1>1, HeadsDef
  <2>2. ASSUME NEW head PROVE DecodeRecord(r, head, i) = DecodeRecord(q, head, i)
    <3>1. r[i] = q[i] /\ (IsInherited(r, i) <=> IsInherited(q, i))
      OBVIOUS
    <3> QED
      BY <3>1 DEF DecodeRecord, IsInherited
  <2> QED
    BY <1>3, <2>1, <2>2
<1> HIDE DEF same
<1>4. \A i \in 0 .. n : i \in same
  BY <1>1, <1>2, <1>3, UpTo
<1> QED
  BY <1>1, <1>4 DEF same

-----------------------------------------------------------------------------
(* What appends, forks and cuts do to the head of a file.                  *)

\* The last fork is among the first n records.
ForksWithin(records, n) == \A j \in DOMAIN records : IsFork(records[j]) => j <= n

\* A file that decodeLog accepts.
Opens(records) == records # <<>> /\ records \in Seq(Record) /\ Replay(records) # Corrupt

LEMMA ReplayFacts ==
    ASSUME NEW records \in Seq(Record), records # <<>>
    PROVE  /\ Len(records) \in Nat \ {0} /\ Replay(records) = Heads(records)[Len(records)]
           /\ Replay(records) \in HeadType
           /\ Replay(records) # Corrupt => Replay(records).seq \in Nat
<1>1. Len(records) \in Nat \ {0} /\ Len(records) \in 0 .. Len(records)
  OBVIOUS
<1>2. Replay(records) = Heads(records)[Len(records)]
  BY DEF Replay
<1> QED
  BY <1>1, <1>2, HeadsDef, HeadsSeq

\* One more record that is not a fork: the head is what the record makes of the last one.
LEMMA ReplayAppend ==
    ASSUME NEW records \in Seq(Record), records # <<>>, NEW record \in Record, ~IsFork(record)
    PROVE  LET more == Append(records, record)
           IN  /\ more \in Seq(Record) /\ more # <<>> /\ Len(more) = Len(records) + 1
               /\ more[Len(more)] = record /\ ~IsInherited(more, Len(more))
               /\ Replay(more) = DecodeRecord(more, Replay(records), Len(more))
               /\ \A n : ForksWithin(records, n) => ForksWithin(more, n)
<1> DEFINE more == Append(records, record)
           len  == Len(records)
<1>1. /\ len \in Nat \ {0} /\ more \in Seq(Record) /\ more # <<>> /\ Len(more) = len + 1
      /\ DOMAIN more = 1 .. (len + 1) /\ DOMAIN records = 1 .. len
      /\ more[len + 1] = record /\ \A i \in 1 .. len : more[i] = records[i]
  OBVIOUS
<1> HIDE DEF more, len
<1>2. ~IsInherited(more, len + 1)
  BY <1>1 DEF IsInherited
<1>3. ASSUME NEW i \in 1 .. len PROVE IsInherited(records, i) <=> IsInherited(more, i)
  <2>1. ASSUME NEW j \in 1 .. (len + 1), IsFork(more[j]) PROVE j \in 1 .. len
    BY <1>1, <2>1
  <2> QED
    BY <1>1, <2>1 DEF IsInherited
<1>4. Heads(records)[len] = Heads(more)[len]
  <2>1. len \in 0 .. Len(records) /\ len <= Len(more)
    BY <1>1 DEF len
  <2>2. \A i \in 1 .. len : records[i] = more[i] /\ (IsInherited(records, i) <=> IsInherited(more, i))
    BY <1>1, <1>3
  <2> QED
    BY <1>1, <2>1, <2>2, HeadsAgree
<1>5. Replay(more) = DecodeRecord(more, Replay(records), len + 1)
  <2>1. Replay(more) = Heads(more)[len + 1] /\ Replay(records) = Heads(records)[len]
    BY <1>1 DEF Replay, len
  <2>2. len + 1 \in 1 .. Len(more) /\ (len + 1) - 1 = len
    BY <1>1
  <2>3. Heads(more)[len + 1] = DecodeRecord(more, Heads(more)[(len + 1) - 1], len + 1)
    BY <1>1, <2>2, HeadsDef
  <2> QED
    BY <1>4, <2>1, <2>2, <2>3
<1>6. ASSUME NEW n, ForksWithin(records, n) PROVE ForksWithin(more, n)
  <2>1. ASSUME NEW j \in DOMAIN more, IsFork(more[j]) PROVE j \in DOMAIN records /\ IsFork(records[j])
    BY <1>1, <2>1
  <2> QED
    BY <1>6, <2>1 DEF ForksWithin
<1> QED
  BY <1>1, <1>2, <1>5, <1>6 DEF more, len

\* The records before the last ones open too, from the last fork on.
LEMMA ReplayCut ==
    ASSUME NEW records, Opens(records), NEW n \in 1 .. Len(records), ForksWithin(records, n)
    PROVE  Opens(SubSeq(records, 1, n)) /\ ForksWithin(SubSeq(records, 1, n), n)
<1> DEFINE cut == SubSeq(records, 1, n)
           len == Len(records)
<1>1. records \in Seq(Record) /\ len \in Nat \ {0} /\ n \in Nat \ {0} /\ n <= len
  BY ReplayFacts DEF Opens
<1>2. /\ cut \in Seq(Record) /\ Len(cut) = n /\ cut # <<>> /\ DOMAIN cut = 1 .. n
      /\ \A i \in 1 .. n : cut[i] = records[i]
  BY <1>1
<1>3. DOMAIN records = 1 .. len
  BY <1>1
<1>4. Heads(records)[n] # Corrupt
  <2>1. Heads(records)[len] # Corrupt
    BY DEF Opens, Replay
  <2> QED
    BY <1>1, <2>1, HeadsBefore
<1> HIDE DEF cut, len
<1>5. ForksWithin(cut, n)
  BY <1>1, <1>2 DEF ForksWithin
<1>6. ASSUME NEW i \in 1 .. n PROVE IsInherited(cut, i) <=> IsInherited(records, i)
  <2>1. ASSUME NEW j \in DOMAIN records, IsFork(records[j]) PROVE j \in 1 .. n
    BY <1>1, <1>3, <2>1 DEF ForksWithin
  <2>2. 1 .. n \subseteq 1 .. len
    BY <1>1
  <2> QED
    BY <1>2, <1>3, <2>1, <2>2 DEF IsInherited
<1>7. Heads(cut)[n] = Heads(records)[n]
  <2>1. n \in 0 .. Len(cut) /\ n <= Len(records)
    BY <1>1, <1>2 DEF len
  <2> QED
    BY <1>1, <1>2, <1>6, <2>1, HeadsAgree
<1>8. Replay(cut) # Corrupt
  BY <1>2, <1>4, <1>7 DEF Replay
<1> QED
  BY <1>2, <1>5, <1>8 DEF Opens, cut

\* The record of an item, appended to the file whose head accepts the item.
LEMMA ItemAppended ==
    ASSUME NEW records, Opens(records), NEW item \in StoredItem, item.kind # "fork",
           Accepts(Replay(records), item)
    PROVE  LET head   == Replay(records)
               record == ItemRecord(head.seq + 1, item)
           IN  /\ record \in Record /\ ~IsFork(record)
               /\ Replay(Append(records, record)) = Apply(head, item) /\ Apply(head, item) # Corrupt
<1> DEFINE head   == Replay(records)
           record == ItemRecord(head.seq + 1, item)
           more   == Append(records, record)
<1>1. records \in Seq(Record) /\ records # <<>> /\ head # Corrupt /\ head \in HeadType /\ head.seq \in Nat
  BY ReplayFacts DEF Opens
<1> HIDE DEF head
<1>2. record \in Record /\ ~IsFork(record)
  BY <1>1 DEF Record, ItemRecord, IsFork
<1>3. /\ Len(more) = Len(records) + 1 /\ more[Len(more)] = record /\ ~IsInherited(more, Len(more))
      /\ Replay(more) = DecodeRecord(more, head, Len(more))
  BY <1>1, <1>2, ReplayAppend DEF head
<1>4. Len(more) \in Nat /\ Len(more) > 1
  BY <1>1, <1>3, ReplayFacts
<1> HIDE DEF more
<1>5. Replay(more) = Apply(head, item)
  BY <1>1, <1>3, <1>4, DecodeItem DEF head
<1>6. Apply(head, item) # Corrupt
  <2>1. Apply(head, item).seq = head.seq + 1
    BY <1>1, ApplyType
  <2> QED
    BY <1>1, <2>1 DEF Corrupt, NewHead
<1> QED
  BY <1>2, <1>5, <1>6 DEF more, head

\* The record of an operation's status.
LEMMA OperationAppended ==
    ASSUME NEW records, Opens(records), NEW key \in Key, NEW slot \in Slot, NEW status \in OpStatus,
           AcceptsSave(Replay(records), key, slot)
    PROVE  LET head   == Replay(records)
               record == OperationRecord(key, slot, status)
               next   == Save(head, key, slot, status)
           IN  /\ record \in Record /\ ~IsFork(record)
               /\ Replay(Append(records, record)) = next /\ next # Corrupt
<1> DEFINE head   == Replay(records)
           record == OperationRecord(key, slot, status)
           next   == Save(head, key, slot, status)
           more   == Append(records, record)
<1>1. records \in Seq(Record) /\ records # <<>> /\ head # Corrupt /\ head \in HeadType /\ head.seq \in Nat
  BY ReplayFacts DEF Opens
<1> HIDE DEF head
<1>2. record \in Record /\ ~IsFork(record)
  BY DEF Record, OperationRecord, IsFork, IsItem
<1>3. /\ Len(more) = Len(records) + 1 /\ more[Len(more)] = record /\ ~IsInherited(more, Len(more))
      /\ Replay(more) = DecodeRecord(more, head, Len(more))
  BY <1>1, <1>2, ReplayAppend DEF head
<1>4. Len(more) \in Nat /\ Len(more) > 1
  BY <1>1, <1>3, ReplayFacts
<1> HIDE DEF more
<1>5. Replay(more) = next
  BY <1>1, <1>3, <1>4, DecodeOperation DEF head
<1>6. next # Corrupt
  <2>1. next.seq = head.seq
    BY <1>1, SaveType
  <2> QED
    BY <1>1, <2>1 DEF Corrupt, NewHead
<1> QED
  BY <1>2, <1>5, <1>6 DEF more, head

\* The items of a file's records, as decodeLog gathers them.
LEMMA ItemsDef ==
    ASSUME NEW records \in Seq(Record)
    PROVE  /\ Items(records)[0] = <<>>
           /\ \A i \in 1 .. Len(records) :
                 Items(records)[i] = IF IsItem(records[i])
                                     THEN Append(Items(records)[i - 1], records[i].item)
                                     ELSE Items(records)[i - 1]
           /\ \A i \in 0 .. Len(records) : Items(records)[i] \in Seq(StoredItem)
<1> DEFINE len  == Len(records)
           V    == Seq(StoredItem)
           Next1(items, i) == IF IsItem(records[i]) THEN Append(items, records[i].item) ELSE items
           Is(f) == f = [i \in 0 .. len |-> IF i = 0 THEN <<>> ELSE Next1(f[i - 1], i)]
           step == [i \in 1 .. len |-> [items \in V |-> Next1(items, i)]]
<1>1. len \in Nat /\ \A i \in 1 .. len : i \in Nat /\ i # 0 /\ records[i] \in Record
  OBVIOUS
<1>2. ASSUME NEW i \in 1 .. len, NEW items \in V PROVE Next1(items, i) \in V
  <2>1. IsItem(records[i]) => records[i].item \in StoredItem
    BY <1>1, RecordCases DEF Header
  <2> QED
    BY <2>1
<1>3. <<>> \in V
  OBVIOUS
<1> HIDE DEF Next1, V, len
<1>4. step \in [1 .. len -> [V -> V]]
  BY <1>2
<1>5. \A items \in V, i \in 1 .. len : step[i][items] = Next1(items, i)
  OBVIOUS
<1> HIDE DEF step
<1>6. PICK f : Steps(f, len, V, <<>>, step)
  BY <1>1, <1>3, <1>4, Recursion
<1>7. Is(f)
  <2>1. ASSUME NEW n \in 1 .. len PROVE f[n] = Next1(f[n - 1], n)
    <3>1. n - 1 \in 0 .. len
      BY <1>1
    <3>2. f[n - 1] \in V
      BY <1>6, <3>1 DEF Steps
    <3> QED
      BY <1>5, <1>6, <3>2 DEF Steps
  <2>2. \A n \in 0 .. len : f[n] = IF n = 0 THEN <<>> ELSE Next1(f[n - 1], n)
    BY <1>1, <1>6, <2>1 DEF Steps
  <2> QED
    BY <1>6, <2>2 DEF Steps
<1>8. Items(records) = CHOOSE g : Is(g)
  BY DEF Items, len, Next1
<1> HIDE DEF Is
<1>9. Is(Items(records))
  BY <1>7, <1>8
<1>10. /\ Items(records)[0] = <<>>
       /\ \A i \in 1 .. len : Items(records)[i] = Next1(Items(records)[i - 1], i)
  BY <1>1, <1>9 DEF Is
<1> DEFINE typed == {i \in 0 .. len : Items(records)[i] \in V}
<1>11. 0 \in typed
  BY <1>1, <1>3, <1>10
<1>12. ASSUME NEW n \in 1 .. len, n - 1 \in typed PROVE n \in typed
  BY <1>1, <1>2, <1>10, <1>12
<1> HIDE DEF typed
<1>13. \A n \in 0 .. len : n \in typed
  BY <1>1, <1>11, <1>12, UpTo
<1> QED
  BY <1>10, <1>13 DEF typed, len, Next1, V

LEMMA ItemsInType ==
    ASSUME NEW records \in Seq(Record)
    PROVE  ItemsIn(records) \in Seq(StoredItem)
<1>1. Len(records) \in 0 .. Len(records)
  OBVIOUS
<1> QED
  BY <1>1, ItemsDef DEF ItemsIn

\* The heads of inherited items are numbered as they are.
LEMMA InheritedHeadsDef ==
    ASSUME NEW items \in Seq(StoredItem)
    PROVE  /\ InheritedHeads(items)[0] = NewHead
           /\ \A i \in 1 .. Len(items) :
                 InheritedHeads(items)[i] = Inherit(InheritedHeads(items)[i - 1], ItemRecord(i, items[i]))
           /\ \A i \in 0 .. Len(items) :
                 InheritedHeads(items)[i] \in HeadType /\ InheritedHeads(items)[i].seq = i
<1> DEFINE len  == Len(items)
           Next1(head, i) == Inherit(head, ItemRecord(i, items[i]))
           Is(f) == f = [i \in 0 .. len |-> IF i = 0 THEN NewHead ELSE Next1(f[i - 1], i)]
           step == [i \in 1 .. len |-> [head \in HeadType |-> Next1(head, i)]]
<1>1. len \in Nat /\ \A i \in 1 .. len : i \in Nat /\ i # 0 /\ items[i] \in StoredItem
  OBVIOUS
<1>2. ASSUME NEW i \in 1 .. len, NEW head \in HeadType
      PROVE  Next1(head, i) \in HeadType /\ Next1(head, i).seq = i
  BY <1>1, InheritType
<1>3. NewHead \in HeadType /\ NewHead.seq = 0
  BY FirstHead DEF NewHead
<1> HIDE DEF Next1, len
<1>4. step \in [1 .. len -> [HeadType -> HeadType]]
  BY <1>2
<1>5. \A head \in HeadType, i \in 1 .. len : step[i][head] = Next1(head, i)
  OBVIOUS
<1> HIDE DEF step
<1>6. PICK f : Steps(f, len, HeadType, NewHead, step)
  BY <1>1, <1>3, <1>4, Recursion
<1>7. Is(f)
  <2>1. ASSUME NEW n \in 1 .. len PROVE f[n] = Next1(f[n - 1], n)
    <3>1. n - 1 \in 0 .. len
      BY <1>1
    <3>2. f[n - 1] \in HeadType
      BY <1>6, <3>1 DEF Steps
    <3> QED
      BY <1>5, <1>6, <3>2 DEF Steps
  <2>2. \A n \in 0 .. len : f[n] = IF n = 0 THEN NewHead ELSE Next1(f[n - 1], n)
    BY <1>1, <1>6, <2>1 DEF Steps
  <2> QED
    BY <1>6, <2>2 DEF Steps
<1>8. InheritedHeads(items) = CHOOSE g : Is(g)
  BY DEF InheritedHeads, len, Next1
<1> HIDE DEF Is
<1>9. Is(InheritedHeads(items))
  BY <1>7, <1>8
<1>10. /\ InheritedHeads(items)[0] = NewHead
       /\ \A i \in 1 .. len : InheritedHeads(items)[i] = Next1(InheritedHeads(items)[i - 1], i)
  BY <1>1, <1>9 DEF Is
<1> DEFINE typed == {i \in 0 .. len : InheritedHeads(items)[i] \in HeadType /\ InheritedHeads(items)[i].seq = i}
<1>11. 0 \in typed
  BY <1>1, <1>3, <1>10
<1>12. ASSUME NEW n \in 1 .. len, n - 1 \in typed PROVE n \in typed
  <2>1. n \in 0 .. len /\ InheritedHeads(items)[n - 1] \in HeadType
    BY <1>1, <1>12
  <2> QED
    BY <1>2, <1>10, <2>1
<1> HIDE DEF typed
<1>13. \A n \in 0 .. len : n \in typed
  BY <1>1, <1>11, <1>12, UpTo
<1> QED
  BY <1>10, <1>13 DEF typed, len, Next1

\* What a fork keeps of an item is an item, and initialises no operation.
LEMMA InheritedItem ==
    ASSUME NEW item \in StoredItem, NEW seq
    PROVE  Inherited(item) \in StoredItem /\ ~InitialisesOps(ItemRecord(seq, Inherited(item)))
<1>1. CASE item.kind = "status"
  <2>1. item \in StatusItem
    BY <1>1 DEF StoredItem, TurnItem, ResponseItem, ForkItem
  <2> DEFINE ops == InheritedOps(item.ops)
  <2>2. Inherited(item) = [item EXCEPT !.ops = ops] /\ ops \in Snapshot
    BY <1>1 DEF Inherited, InheritedOps, Snapshot
  <2>3. \A slot \in Slot : ops[slot] \notin OpStatus
    BY DEF InheritedOps, OpStatus, Unfinished, Finished
  <2> HIDE DEF ops
  <2>4. Inherited(item) \in StatusItem /\ Inherited(item).ops = ops
    BY <2>1, <2>2 DEF StatusItem
  <2> QED
    BY <2>3, <2>4 DEF StoredItem, InitialisesOps, ItemRecord
<1>2. CASE item.kind # "status"
  BY <1>2 DEF Inherited, InitialisesOps, ItemRecord
<1> QED
  BY <1>1, <1>2

LEMMA KeptFacts ==
    ASSUME NEW items \in Seq(StoredItem), NEW turn, Boundary(items, turn) # {}
    PROVE  /\ Kept(items, turn) \in Seq(StoredItem)
           /\ \A i \in 1 .. Len(Kept(items, turn)) : \A seq :
                 ~InitialisesOps(ItemRecord(seq, Kept(items, turn)[i]))
<1> DEFINE boundary == CHOOSE i \in Boundary(items, turn) : TRUE
<1>1. boundary \in 1 .. Len(items) /\ Len(items) \in Nat
  BY DEF Boundary
<1> HIDE DEF boundary
<1>2. Kept(items, turn) = [i \in 1 .. boundary |-> Inherited(items[i])]
  BY DEF Kept, boundary
<1>3. ASSUME NEW i \in 1 .. boundary
      PROVE  Inherited(items[i]) \in StoredItem
             /\ \A seq : ~InitialisesOps(ItemRecord(seq, Inherited(items[i])))
  <2>1. items[i] \in StoredItem
    BY <1>1
  <2> QED
    BY <2>1, InheritedItem
<1>4. Kept(items, turn) \in Seq(StoredItem) /\ Len(Kept(items, turn)) = boundary
  BY <1>1, <1>2, <1>3
<1> QED
  BY <1>2, <1>3, <1>4

\* The file of a fork opens: its records replay to the head that Fork has in memory.
LEMMA ForkOpens ==
    ASSUME NEW items \in Seq(StoredItem), NEW turn \in Turn, Boundary(items, turn) # {}
    PROVE  LET log == Forked(items, turn)
           IN  Opens(log) /\ ForksWithin(log, Len(log)) /\ Replay(log) = ForkedHead(items, turn)
<1> DEFINE kept  == Kept(items, turn)
           b     == Len(kept)
           fork  == [kind |-> "fork", turn |-> turn]
           all   == Append(kept, fork)
           tail  == [i \in DOMAIN all |-> ItemRecord(i, all[i])]
           log   == <<Header>> \o tail
           heads == InheritedHeads(kept)
<1>1. kept \in Seq(StoredItem) /\ \A i \in 1 .. b : \A seq : ~InitialisesOps(ItemRecord(seq, kept[i]))
  BY KeptFacts
<1>2. Forked(items, turn) = log
  BY DEF Forked, ForkedItems, InitialLog
<1>3. ForkedHead(items, turn) = ResetOwned([heads[b] EXCEPT !.seq = @ + 1])
  BY DEF ForkedHead
<1> HIDE DEF kept
<1>4. fork \in StoredItem /\ fork.kind = "fork"
  BY DEF StoredItem, ForkItem
<1> HIDE DEF fork
<1>5. /\ b \in Nat /\ all \in Seq(StoredItem) /\ Len(all) = b + 1 /\ all[b + 1] = fork
      /\ \A i \in 1 .. b : all[i] = kept[i]
  BY <1>1, <1>4
<1> HIDE DEF all, b
<1>6. tail \in Seq(Record) /\ Len(tail) = b + 1 /\ \A i \in 1 .. (b + 1) : tail[i] = ItemRecord(i, all[i])
  <2>1. DOMAIN all = 1 .. (b + 1)
    BY <1>5
  <2>2. ASSUME NEW i \in 1 .. (b + 1) PROVE ItemRecord(i, all[i]) \in Record
    BY <1>5, <2>2 DEF ItemRecord, Record
  <2> QED
    BY <1>5, <2>1, <2>2
<1> HIDE DEF tail
<1>7. /\ log \in Seq(Record) /\ Len(log) = b + 2 /\ log # <<>> /\ log[1] = Header
      /\ \A i \in 1 .. (b + 1) : log[i + 1] = ItemRecord(i, all[i])
  <2>1. Header \in Record
    BY DEF Record
  <2>2. <<Header>> \in Seq(Record) /\ Len(<<Header>>) = 1
    BY <2>1
  <2> QED
    BY <1>5, <1>6, <2>2
<1> HIDE DEF log
<1>8. \A i \in 1 .. (b + 2) : IsInherited(log, i)
  <2>1. b + 2 \in DOMAIN log /\ log[(b + 1) + 1] = ItemRecord(b + 1, fork) /\ (b + 1) + 1 = b + 2
    BY <1>5, <1>7
  <2>2. IsFork(log[b + 2])
    BY <1>4, <2>1 DEF IsFork, IsItem, ItemRecord
  <2> QED
    BY <1>5, <2>1, <2>2 DEF IsInherited
<1>9. /\ Heads(log)[0] = NewHead
      /\ \A i \in 1 .. (b + 2) : Heads(log)[i] = DecodeRecord(log, Heads(log)[i - 1], i)
  BY <1>7, HeadsDef
<1>10. /\ heads[0] = NewHead
       /\ \A i \in 1 .. b : heads[i] = Inherit(heads[i - 1], ItemRecord(i, kept[i]))
       /\ \A i \in 0 .. b : heads[i] \in HeadType /\ heads[i].seq = i
  BY <1>1, InheritedHeadsDef DEF b
<1> HIDE DEF heads
<1>11. \A i \in 0 .. b : heads[i] # Corrupt
  <2>1. Corrupt.seq = -1
    BY DEF Corrupt, NewHead
  <2> QED
    BY <1>5, <1>10, <2>1
<1> DEFINE same == {i \in 0 .. b : Heads(log)[i + 1] = heads[i]}
<1>12. 0 \in same
  <2>1. 1 \in 1 .. (b + 2) /\ 0 \in 0 .. b /\ 1 - 1 = 0 /\ 0 + 1 = 1
    BY <1>5
  <2>2. Heads(log)[1] = DecodeRecord(log, NewHead, 1)
    BY <1>9, <2>1
  <2>3. DecodeRecord(log, NewHead, 1) = NewHead
    BY <1>7, FirstHead, DecodeHeader
  <2> QED
    BY <1>10, <2>1, <2>2, <2>3
<1>13. ASSUME NEW i \in 1 .. b, i - 1 \in same PROVE i \in same
  <2>1. /\ i \in Nat /\ i + 1 \in 1 .. (b + 2) /\ (i + 1) - 1 = i /\ (i - 1) + 1 = i /\ i + 1 > 1
        /\ i \in 1 .. (b + 1) /\ i - 1 \in 0 .. b /\ i \in 0 .. b
    BY <1>5
  <2>2. Heads(log)[i] = heads[i - 1]
    BY <1>13, <2>1
  <2>3. Heads(log)[i + 1] = DecodeRecord(log, heads[i - 1], i + 1)
    BY <1>9, <2>1, <2>2
  <2>4. heads[i - 1] # Corrupt /\ heads[i - 1].seq + 1 = i /\ IsInherited(log, i + 1)
    BY <1>8, <1>10, <1>11, <2>1
  <2>5. log[i + 1] = ItemRecord(i, kept[i])
    BY <1>5, <1>7, <2>1
  <2>6. ~InitialisesOps(log[i + 1])
    BY <1>1, <2>5 DEF b
  <2>7. DecodeRecord(log, heads[i - 1], i + 1) = Inherit(heads[i - 1], log[i + 1])
    <3>1. log[i + 1] = ItemRecord(heads[i - 1].seq + 1, kept[i]) /\ i + 1 \in Nat
      BY <2>1, <2>4, <2>5
    <3> QED
      BY <2>1, <2>4, <2>6, <3>1, DecodeInherited
  <2> QED
    BY <1>10, <2>1, <2>3, <2>5, <2>7
<1> HIDE DEF same
<1>14. Heads(log)[b + 1] = heads[b]
  <2>1. \A i \in 0 .. b : i \in same
    BY <1>5, <1>12, <1>13, UpTo
  <2> QED
    BY <1>5, <2>1 DEF same
<1>15. Heads(log)[b + 2] = Inherit(heads[b], ItemRecord(b + 1, fork))
  <2>1. /\ b + 2 \in 1 .. (b + 2) /\ b + 2 \in Nat /\ (b + 2) - 1 = b + 1 /\ (b + 1) + 1 = b + 2 /\ b + 2 > 1
        /\ b \in 0 .. b /\ b + 1 \in 1 .. (b + 1)
    BY <1>5
  <2>2. Heads(log)[b + 2] = DecodeRecord(log, heads[b], b + 2)
    BY <1>9, <1>14, <2>1
  <2>3. /\ heads[b] # Corrupt /\ heads[b].seq + 1 = b + 1 /\ IsInherited(log, b + 2)
        /\ log[b + 2] = ItemRecord(b + 1, fork)
    BY <1>5, <1>7, <1>8, <1>10, <1>11, <2>1
  <2>4. ~InitialisesOps(log[b + 2])
    BY <1>4, <2>3 DEF InitialisesOps, ItemRecord
  <2> QED
    BY <2>1, <2>2, <2>3, <2>4, DecodeInherited
<1>16. Inherit(heads[b], ItemRecord(b + 1, fork)) = ForkedHead(items, turn)
  <2>1. Inherit(heads[b], ItemRecord(b + 1, fork)) = ResetOwned([heads[b] EXCEPT !.seq = b + 1])
    BY <1>4 DEF Inherit, ItemRecord
  <2>2. heads[b].seq = b
    BY <1>5, <1>10
  <2> QED
    BY <1>3, <2>1, <2>2
<1>17. Replay(log) = ForkedHead(items, turn)
  BY <1>7, <1>15, <1>16 DEF Replay
<1>18. Replay(log) # Corrupt
  <2>1. Inherit(heads[b], ItemRecord(b + 1, fork)).seq = b + 1
    <3>1. b + 1 \in Nat /\ heads[b] \in HeadType
      BY <1>5, <1>10
    <3> QED
      BY <1>4, <3>1, InheritType
  <2>2. Corrupt.seq = -1 /\ b + 1 # -1
    BY <1>5 DEF Corrupt, NewHead
  <2> QED
    BY <1>16, <1>17, <2>1, <2>2
<1>19. ForksWithin(log, Len(log))
  BY <1>5, <1>7 DEF ForksWithin
<1> QED
  BY <1>2, <1>7, <1>17, <1>18, <1>19 DEF Opens

\* And so does that of a new session.
LEMMA NewOpens ==
    Opens(<<Header>>) /\ ForksWithin(<<Header>>, 1) /\ Replay(<<Header>>) = NewHead
<1> DEFINE log == <<Header>>
<1>1. Header \in Record
  BY DEF Record
<1>2. log \in Seq(Record) /\ Len(log) = 1 /\ log # <<>> /\ log[1] = Header /\ DOMAIN log = 1 .. 1
  BY <1>1
<1> HIDE DEF log
<1>3. Heads(log)[1] = DecodeRecord(log, NewHead, 1)
  <2>1. 1 \in 1 .. Len(log) /\ 1 - 1 = 0
    BY <1>2
  <2> QED
    BY <1>2, <2>1, HeadsDef
<1>4. Heads(log)[1] = NewHead
  BY <1>2, <1>3, FirstHead, DecodeHeader
<1>5. Replay(log) = NewHead
  BY <1>2, <1>4 DEF Replay
<1> QED
  BY <1>2, <1>5, FirstHead DEF Opens, ForksWithin, log

-----------------------------------------------------------------------------
(* Every file opens, and the heads in memory are those of the files.       *)

\* The last fork of a file has been synced: what a power loss cuts off was appended.
FileReopens(s) ==
    files[s].exists =>
        /\ Opens(files[s].records) /\ files[s].synced >= 1
        /\ ForksWithin(files[s].records, files[s].synced)

HeadIsCurrent(s) == cache[s].valid => cache[s].head = Replay(files[s].records)

\* The head a call holds is that of the file it is about to make, or has made; and an
\* append that has discarded an incomplete line writes a whole one.
CallReopens ==
    LET s == call.session
    IN  /\ call.phase \in {"truncate", "write"} =>
              /\ call.record \in Record /\ ~IsFork(call.record) /\ call.head # Corrupt
              /\ call.head = Replay(Append(files[s].records, call.record))
        /\ call.phase = "write" => files[s].torn = FALSE
        /\ call.phase = "sync" => call.head = Replay(files[s].records)
        /\ call.phase = "rename" =>
              Opens(call.records) /\ ForksWithin(call.records, Len(call.records))
        /\ call.phase \in {"rename", "syncDirectory"} => call.head = Replay(call.records)

ReopenInv ==
    /\ \A s \in Session : FileReopens(s)
    /\ \A s \in Session : call = Idle \/ call.session # s => HeadIsCurrent(s)
    /\ CallReopens

LEMMA InitReopens == Init => ReopenInv
BY DEF Init, ReopenInv, FileReopens, HeadIsCurrent, CallReopens, NoFile, NoEntry, Idle

\* Without a call there is nothing to say of it.
LEMMA IdleReopens == call' = Idle => CallReopens'
BY DEF CallReopens, Idle

\* A step of at most one session, whose call it is if there is one.
LEMMA OneSessionReopens ==
    ASSUME StoreInv, ReopenInv, NEW s \in Session, call = Idle \/ call.session = s,
           files' = [files EXCEPT ![s] = files'[s]], cache' = [cache EXCEPT ![s] = cache'[s]],
           FileReopens(s)', CallReopens',
           \/ call' = Idle /\ HeadIsCurrent(s)'
           \/ call' # Idle /\ call'.session = s
    PROVE  ReopenInv'
<1>1. \A t \in Session : t # s => files'[t] = files[t] /\ cache'[t] = cache[t]
  BY DEF StoreInv, FilesInv, CacheInv
<1>2. ASSUME NEW t \in Session, t # s PROVE FileReopens(t)' /\ HeadIsCurrent(t)'
  <2>1. FileReopens(t) /\ HeadIsCurrent(t)
    BY <1>2 DEF ReopenInv
  <2> QED
    BY <1>1, <1>2, <2>1 DEF FileReopens, HeadIsCurrent
<1>3. ASSUME NEW t \in Session, call' = Idle \/ call'.session # t PROVE HeadIsCurrent(t)'
  BY <1>2, <1>3
<1> QED
  BY <1>2, <1>3 DEF ReopenInv

\* The same records open as before, however much of them is synced.
LEMMA SameRecordsReopen ==
    ASSUME NEW s \in Session, FileReopens(s), files'[s].records = files[s].records,
           files'[s].exists = files[s].exists,
           files[s].exists => files[s].synced \in Nat /\ files'[s].synced \in Nat
                              /\ files[s].synced <= files'[s].synced
    PROVE  FileReopens(s)'
<1> SUFFICES ASSUME files[s].exists PROVE FileReopens(s)'
  BY DEF FileReopens
<1>1. ForksWithin(files[s].records, files'[s].synced)
  <2>1. ASSUME NEW j \in DOMAIN files[s].records, IsFork(files[s].records[j])
        PROVE  j <= files'[s].synced
    <3>1. j <= files[s].synced /\ j \in Nat
      <4>1. files[s].records \in Seq(Record)
        BY DEF FileReopens, Opens
      <4>2. DOMAIN files[s].records \subseteq Nat
        BY <4>1
      <4> QED
        BY <2>1, <4>2 DEF FileReopens, ForksWithin
    <3> QED
      BY <3>1
  <2> QED
    BY <2>1 DEF ForksWithin
<1> QED
  BY <1>1 DEF FileReopens

LEMMA LoadWriteStateReopens ==
    ASSUME StoreInv, ReopenInv, NEW s \in Session, LoadWriteState(s)
    PROVE  ReopenInv'
<1>1. /\ UNCHANGED <<files, call>> /\ call = Idle
      /\ cache' = [cache EXCEPT ![s] = Entry(Replay(files[s].records), Len(files[s].records))]
  BY DEF LoadWriteState
<1>2. /\ files' = [files EXCEPT ![s] = files'[s]] /\ cache' = [cache EXCEPT ![s] = cache'[s]]
      /\ cache'[s].head = Replay(files[s].records)
  BY <1>1 DEF StoreInv, FilesInv, CacheInv, Entry
<1>3. FileReopens(s)' /\ HeadIsCurrent(s)'
  BY <1>1, <1>2 DEF ReopenInv, FileReopens, HeadIsCurrent
<1>4. call' = Idle /\ CallReopens'
  BY <1>1, IdleReopens
<1> QED
  BY <1>1, <1>2, <1>3, <1>4, OneSessionReopens

\* An append starts with the head that its record will have made of the file's.
LEMMA StartAppendReopens ==
    ASSUME StoreInv, ReopenInv, NEW s \in Session, NEW record, NEW next, NEW shared,
           StartAppend(s, record, next, shared), record \in Record, ~IsFork(record),
           next = Replay(Append(files[s].records, record)), next # Corrupt
    PROVE  ReopenInv'
<1>1. /\ UNCHANGED files /\ call = Idle
      /\ call' = [phase |-> "truncate", session |-> s, record |-> record, head |-> next,
                  size |-> cache[s].size]
      /\ cache' = [cache EXCEPT ![s] = cache'[s]]
  BY DEF StartAppend, StoreInv, CacheInv
<1>2. files' = [files EXCEPT ![s] = files'[s]]
  BY <1>1 DEF StoreInv, FilesInv
<1>3. FileReopens(s)' /\ CallReopens'
  BY <1>1 DEF ReopenInv, FileReopens, CallReopens
<1>4. call' # Idle /\ call'.session = s
  BY <1>1 DEF Idle
<1> QED
  BY <1>1, <1>2, <1>3, <1>4, OneSessionReopens

\* What an append starts from: the head of the file is the cached one.
LEMMA CachedHead ==
    ASSUME StoreInv, ReopenInv, NEW s \in Session, call = Idle, cache[s].valid
    PROVE  Opens(files[s].records) /\ cache[s].head = Replay(files[s].records)
BY DEF StoreInv, CallInv, IsCurrent, ReopenInv, FileReopens, HeadIsCurrent

LEMMA AppendableItem == \A item \in Appendable : item \in StoredItem /\ item.kind # "fork"
<1> SUFFICES ASSUME NEW item \in Appendable PROVE item \in StoredItem /\ item.kind # "fork"
  OBVIOUS
<1>1. Saved \subseteq OpStatus
  BY StoreAssumption
<1>2. CASE item \in {[kind |-> "input", input |-> [kind |-> "external", id |-> id]] : id \in External}
  BY <1>2 DEF StoredItem, Message
<1>3. CASE item \in {[kind |-> "turn", turn |-> turn] : turn \in Turn}
  BY <1>3 DEF StoredItem, TurnItem
<1>4. CASE item \in {[kind |-> "response", turn |-> turn, calls |-> {}] : turn \in Turn}
  BY <1>4 DEF StoredItem, ResponseItem
<1>5. CASE item \in {[kind |-> "status", key |-> key, ops |-> ops] :
                       key \in Key, ops \in [Slot -> Saved \cup {"none"}]}
  BY <1>1, <1>5 DEF StoredItem, StatusItem, Snapshot
<1> QED
  BY <1>2, <1>3, <1>4, <1>5 DEF Appendable

LEMMA AppendItemReopens ==
    ASSUME StoreInv, ReopenInv, NEW s \in Session, NEW item \in Appendable, AppendItem(s, item)
    PROVE  ReopenInv'
<1> DEFINE head == cache[s].head
           record == ItemRecord(head.seq + 1, item)
<1>1. /\ call = Idle /\ cache[s].valid /\ Accepts(head, item)
      /\ StartAppend(s, record, Apply(head, item), ApplyInPlace(head, item))
  BY DEF AppendItem, StartAppend
<1>2. Opens(files[s].records) /\ head = Replay(files[s].records)
      /\ item \in StoredItem /\ item.kind # "fork"
  BY <1>1, CachedHead, AppendableItem
<1>3. /\ record \in Record /\ ~IsFork(record) /\ Apply(head, item) # Corrupt
      /\ Replay(Append(files[s].records, record)) = Apply(head, item)
  BY <1>1, <1>2, ItemAppended
<1> HIDE DEF head, record
<1> QED
  BY <1>1, <1>3, StartAppendReopens

LEMMA SaveOperationReopens ==
    ASSUME StoreInv, ReopenInv, NEW s \in Session, NEW key \in Key, NEW slot \in Slot,
           NEW status \in Saved, SaveOperation(s, key, slot, status)
    PROVE  ReopenInv'
<1> DEFINE head == cache[s].head
           next == Save(head, key, slot, status)
           record == OperationRecord(key, slot, status)
<1>1. /\ call = Idle /\ cache[s].valid /\ AcceptsSave(head, key, slot)
      /\ StartAppend(s, record, next, next)
  BY DEF SaveOperation, StartAppend
<1>2. Opens(files[s].records) /\ head = Replay(files[s].records) /\ status \in OpStatus
  BY <1>1, CachedHead, StoreAssumption
<1>3. /\ record \in Record /\ ~IsFork(record) /\ next # Corrupt
      /\ Replay(Append(files[s].records, record)) = next
  BY <1>1, <1>2, OperationAppended
<1> HIDE DEF head, record, next
<1> QED
  BY <1>1, <1>3, StartAppendReopens

\* What a step of an append that goes on leaves alone, and what one that fails.
LEMMA CallGoesOn ==
    ASSUME StoreInv, ReopenInv, NEW s \in Session, call # Idle, s = call.session, UNCHANGED cache,
           call' # Idle, call'.session = s, files' = [files EXCEPT ![s] = files'[s]],
           FileReopens(s)', CallReopens'
    PROVE  ReopenInv'
<1>1. cache' = [cache EXCEPT ![s] = cache'[s]]
  BY DEF StoreInv, CacheInv
<1> QED
  BY <1>1, OneSessionReopens

LEMMA CallFails ==
    ASSUME StoreInv, ReopenInv, NEW s \in Session, call # Idle, s = call.session, Fail,
           files' = [files EXCEPT ![s] = files'[s]], FileReopens(s)'
    PROVE  ReopenInv'
<1>1. /\ call' = Idle /\ cache' = [cache EXCEPT ![s] = cache'[s]] /\ cache'[s] = NoEntry
  BY DEF Fail, Evict, StoreInv, CacheInv
<1>2. HeadIsCurrent(s)' /\ CallReopens'
  BY <1>1, IdleReopens DEF HeadIsCurrent, NoEntry
<1> QED
  BY <1>1, <1>2, OneSessionReopens

LEMMA UnchangedReopens ==
    ASSUME ReopenInv, NEW s \in Session, files'[s] = files[s]
    PROVE  FileReopens(s)'
BY DEF ReopenInv, FileReopens

LEMMA TruncateReopens == ASSUME StoreInv, ReopenInv, Truncate PROVE ReopenInv'
<1>1. PICK s \in Session : s = call.session /\ call # Idle /\ Appends /\ FileInv(s)
  BY AppendFacts DEF Truncate
<1>2. /\ call.phase = "truncate" /\ UNCHANGED cache
      /\ call' = [phase |-> "write", session |-> s, record |-> call.record,
                  head |-> call.head, size |-> call.size]
  BY <1>1 DEF Truncate, Appends
<1>3. SubSeq(files[s].records, 1, call.size) = files[s].records
  BY <1>1, <1>2, SeqFacts DEF Appends, FileInv
<1>4. /\ files' = [files EXCEPT ![s] = files'[s]]
      /\ files'[s] = [files[s] EXCEPT !.records = files[s].records, !.torn = FALSE]
  BY <1>1, <1>3 DEF Truncate, DiscardTail, StoreInv, FilesInv
<1>5. /\ files'[s].records = files[s].records /\ files'[s].exists = files[s].exists
      /\ files'[s].synced = files[s].synced /\ files'[s].torn = FALSE
  BY <1>1, <1>4 DEF FileInv
<1>6. FileReopens(s)'
  <2>1. FileReopens(s) /\ Len(files[s].records) \in Nat
    BY <1>1, SeqFacts DEF ReopenInv, FileInv
  <2>2. files[s].synced \in Nat
    BY <1>1, <2>1 DEF FileInv
  <2> QED
    BY <1>5, <2>1, <2>2, SameRecordsReopen
<1>7. CallReopens'
  BY <1>1, <1>2, <1>5 DEF ReopenInv, CallReopens
<1>8. call' # Idle /\ call'.session = s
  BY <1>2 DEF Idle
<1> QED
  BY <1>1, <1>2, <1>4, <1>6, <1>7, <1>8, CallGoesOn

\* A line is written whole: the record.
LEMMA WriteReopens == ASSUME StoreInv, ReopenInv, Write PROVE ReopenInv'
<1>1. PICK s \in Session : s = call.session /\ call # Idle /\ Appends /\ FileInv(s)
  BY AppendFacts DEF Write
<1>2. /\ call.phase = "write" /\ UNCHANGED cache
      /\ call' = [phase |-> "sync", session |-> s, record |-> call.record,
                  head |-> call.head, size |-> call.size]
  BY <1>1 DEF Write, Appends
<1>3. /\ files[s].torn = FALSE /\ call.record \in Record /\ ~IsFork(call.record) /\ call.head # Corrupt
      /\ call.head = Replay(Append(files[s].records, call.record))
  BY <1>1, <1>2 DEF ReopenInv, CallReopens
<1>4. files' = [files EXCEPT ![s] =
                  [files[s] EXCEPT !.records = Append(files[s].records, call.record), !.torn = FALSE]]
  BY <1>1, <1>3 DEF Write, StoreInv, FilesInv
<1>5. /\ files' = [files EXCEPT ![s] = files'[s]]
      /\ files'[s] = [files[s] EXCEPT !.records = Append(files[s].records, call.record), !.torn = FALSE]
  BY <1>4 DEF StoreInv, FilesInv
<1>6. /\ files'[s].records = Append(files[s].records, call.record)
      /\ files'[s].exists = files[s].exists /\ files'[s].synced = files[s].synced
  BY <1>1, <1>5 DEF FileInv
<1>7. FileReopens(s)'
  <2>1. files[s].exists /\ Opens(files[s].records) /\ files[s].synced >= 1
        /\ ForksWithin(files[s].records, files[s].synced)
    BY <1>1 DEF Appends, ReopenInv, FileReopens
  <2>2. /\ Append(files[s].records, call.record) \in Seq(Record)
        /\ Append(files[s].records, call.record) # <<>>
        /\ ForksWithin(Append(files[s].records, call.record), files[s].synced)
    BY <1>3, <2>1, ReplayAppend DEF Opens
  <2>3. Opens(files[s].records)'
    BY <1>3, <1>6, <2>2 DEF Opens
  <2> QED
    BY <1>6, <2>1, <2>2, <2>3 DEF FileReopens
<1>8. CallReopens'
  BY <1>2, <1>3, <1>6 DEF CallReopens
<1>9. call' # Idle /\ call'.session = s
  BY <1>2 DEF Idle
<1> QED
  BY <1>1, <1>2, <1>5, <1>7, <1>8, <1>9, CallGoesOn

LEMMA WriteFailsReopens == ASSUME StoreInv, ReopenInv, WriteFails PROVE ReopenInv'
<1>1. PICK s \in Session : s = call.session /\ call # Idle /\ FileInv(s)
  BY AppendFacts DEF WriteFails
<1>2. PICK torn : files' = [files EXCEPT ![s] = [files[s] EXCEPT !.torn = torn]]
  BY <1>1 DEF WriteFails, StoreInv, FilesInv
<1>3. /\ files' = [files EXCEPT ![s] = files'[s]]
      /\ files'[s] = [files[s] EXCEPT !.torn = torn]
  BY <1>2 DEF StoreInv, FilesInv
<1>4. /\ files'[s].records = files[s].records /\ files'[s].exists = files[s].exists
      /\ files'[s].synced = files[s].synced
  BY <1>1, <1>3 DEF FileInv
<1>5. FileReopens(s)'
  BY <1>4 DEF ReopenInv, FileReopens
<1>6. Fail
  BY DEF WriteFails
<1> QED
  BY <1>1, <1>3, <1>5, <1>6, CallFails

\* A sync may cover more of the file, and never less.
LEMMA SyncedReopens ==
    ASSUME ReopenInv, NEW s \in Session, FileInv(s), NEW synced,
           synced \in {files[s].synced, Len(files[s].records)},
           files' = [files EXCEPT ![s] = [files[s] EXCEPT !.synced = synced]],
           files = [t \in Session |-> files[t]]
    PROVE  /\ files' = [files EXCEPT ![s] = files'[s]] /\ FileReopens(s)'
           /\ files'[s].records = files[s].records
<1>1. /\ files' = [files EXCEPT ![s] = files'[s]]
      /\ files'[s] = [files[s] EXCEPT !.synced = synced]
  OBVIOUS
<1>2. /\ files'[s].records = files[s].records /\ files'[s].exists = files[s].exists
      /\ files'[s].synced = synced
  BY <1>1 DEF FileInv
<1>3. Len(files[s].records) \in Nat /\ FileReopens(s)
  BY SeqFacts DEF FileInv, ReopenInv
<1>4. files[s].synced \in Nat /\ synced \in Nat /\ files[s].synced <= synced
  BY <1>3 DEF FileInv
<1> QED
  BY <1>1, <1>2, <1>3, <1>4, SameRecordsReopen

LEMMA SyncReopens == ASSUME StoreInv, ReopenInv, Sync PROVE ReopenInv'
<1>1. PICK s \in Session : s = call.session /\ call # Idle /\ Appends /\ FileInv(s)
  BY AppendFacts DEF Sync
<1>2. /\ call.phase = "sync" /\ call' = Idle
      /\ files' = [files EXCEPT ![s] = [files[s] EXCEPT !.synced = Len(files[s].records)]]
      /\ cache' = [cache EXCEPT ![s] = Entry(call.head, call.size + 1)]
      /\ files = [t \in Session |-> files[t]]
  BY <1>1 DEF Sync, StoreInv, FilesInv
<1>3. /\ files' = [files EXCEPT ![s] = files'[s]] /\ FileReopens(s)'
      /\ files'[s].records = files[s].records
  BY <1>1, <1>2, SyncedReopens
<1>4. /\ cache' = [cache EXCEPT ![s] = cache'[s]]
      /\ cache'[s].head = Replay(files[s].records)
  BY <1>1, <1>2 DEF StoreInv, CacheInv, Entry, ReopenInv, CallReopens
<1>5. HeadIsCurrent(s)' /\ CallReopens'
  BY <1>2, <1>3, <1>4, IdleReopens DEF HeadIsCurrent
<1> QED
  BY <1>1, <1>2, <1>3, <1>4, <1>5, OneSessionReopens

LEMMA SyncFailsReopens == ASSUME StoreInv, ReopenInv, SyncFails PROVE ReopenInv'
<1>1. PICK s \in Session : s = call.session /\ call # Idle /\ FileInv(s)
  BY AppendFacts DEF SyncFails
<1>2. PICK synced \in {files[s].synced, Len(files[s].records)} :
        files' = [files EXCEPT ![s] = [files[s] EXCEPT !.synced = synced]]
  BY <1>1 DEF SyncFails, StoreInv, FilesInv
<1>3. files' = [files EXCEPT ![s] = files'[s]] /\ FileReopens(s)'
  <2>1. files = [t \in Session |-> files[t]]
    BY DEF StoreInv, FilesInv
  <2> QED
    BY <1>1, <1>2, <2>1, SyncedReopens
<1>4. Fail
  BY DEF SyncFails
<1> QED
  BY <1>1, <1>3, <1>4, CallFails

\* A call that fails before it writes has changed no file.
LEMMA OtherFailureReopens ==
    ASSUME StoreInv, ReopenInv, TruncateFails \/ RenameFails \/ SyncDirectoryFails
    PROVE  ReopenInv'
<1>1. Fail /\ UNCHANGED files
  BY DEF TruncateFails, RenameFails, SyncDirectoryFails
<1>2. PICK s \in Session : s = call.session /\ call # Idle
  BY AppendFacts, PublishFacts DEF TruncateFails, RenameFails, SyncDirectoryFails
<1>3. files' = [files EXCEPT ![s] = files'[s]] /\ FileReopens(s)'
  BY <1>1, UnchangedReopens DEF StoreInv, FilesInv
<1> QED
  BY <1>1, <1>2, <1>3, CallFails

LEMMA StartPublishReopens ==
    ASSUME StoreInv, ReopenInv, NEW s \in Session, NEW records, NEW head,
           StartPublish(s, records, head), Opens(records), ForksWithin(records, Len(records)),
           head = Replay(records)
    PROVE  ReopenInv'
<1>1. /\ UNCHANGED <<files, cache>> /\ call = Idle
      /\ call' = [phase |-> "rename", session |-> s, records |-> records, head |-> head]
  BY DEF StartPublish
<1>2. files' = [files EXCEPT ![s] = files'[s]] /\ cache' = [cache EXCEPT ![s] = cache'[s]]
  BY <1>1 DEF StoreInv, FilesInv, CacheInv
<1>3. FileReopens(s)' /\ CallReopens'
  BY <1>1 DEF ReopenInv, FileReopens, CallReopens
<1>4. call' # Idle /\ call'.session = s
  BY <1>1 DEF Idle
<1> QED
  BY <1>1, <1>2, <1>3, <1>4, OneSessionReopens

LEMMA CreateReopens ==
    ASSUME StoreInv, ReopenInv, NEW s \in Session, Create(s)
    PROVE  ReopenInv'
<1>1. StartPublish(s, <<Header>>, NewHead) /\ Len(<<Header>>) = 1
  BY DEF Create
<1> QED
  BY <1>1, NewOpens, StartPublishReopens

LEMMA ForkReopens ==
    ASSUME StoreInv, ReopenInv, NEW s \in Session, NEW parent \in Session, NEW turn \in Turn,
           Fork(s, parent, turn)
    PROVE  ReopenInv'
<1> DEFINE items == ItemsIn(files[parent].records)
<1>1. /\ Boundary(items, turn) # {} /\ files[parent].exists
      /\ StartPublish(s, Forked(items, turn), ForkedHead(items, turn))
  BY DEF Fork
<1>2. items \in Seq(StoredItem)
  BY <1>1, ItemsInType DEF ReopenInv, FileReopens, Opens
<1> HIDE DEF items
<1>3. /\ Opens(Forked(items, turn)) /\ ForksWithin(Forked(items, turn), Len(Forked(items, turn)))
      /\ ForkedHead(items, turn) = Replay(Forked(items, turn))
  BY <1>1, <1>2, ForkOpens
<1> QED
  BY <1>1, <1>3, StartPublishReopens

LEMMA RenameReopens == ASSUME StoreInv, ReopenInv, Rename PROVE ReopenInv'
<1>1. PICK s \in Session : s = call.session /\ call # Idle /\ Publishes /\ FileInv(s)
  BY PublishFacts DEF Rename
<1>2. /\ call.phase = "rename" /\ UNCHANGED cache
      /\ call' = [phase |-> "syncDirectory", session |-> s, records |-> call.records,
                  head |-> call.head]
      /\ files' = [files EXCEPT ![s] =
                     [exists |-> TRUE, records |-> call.records, torn |-> FALSE,
                      synced |-> Len(call.records)]]
  BY <1>1 DEF Rename, Publishes
<1>3. /\ files' = [files EXCEPT ![s] = files'[s]]
      /\ files'[s] = [exists |-> TRUE, records |-> call.records, torn |-> FALSE,
                      synced |-> Len(call.records)]
  BY <1>2 DEF StoreInv, FilesInv
<1>4. /\ Opens(call.records) /\ ForksWithin(call.records, Len(call.records))
      /\ call.head = Replay(call.records)
  BY <1>2 DEF ReopenInv, CallReopens
<1>5. Len(call.records) >= 1
  BY <1>4, ReplayFacts DEF Opens
<1>6. /\ files'[s].records = call.records /\ files'[s].synced = Len(call.records)
  BY <1>3
<1>7. FileReopens(s)'
  <2>1. Opens(files[s].records)'
    BY <1>4, <1>6 DEF Opens
  <2>2. ForksWithin(files'[s].records, files'[s].synced)
    BY <1>4, <1>6 DEF ForksWithin
  <2> QED
    BY <1>5, <1>6, <2>1, <2>2 DEF FileReopens
<1>8. CallReopens'
  BY <1>2, <1>4 DEF CallReopens
<1>9. call' # Idle /\ call'.session = s
  BY <1>2 DEF Idle
<1> QED
  BY <1>1, <1>2, <1>3, <1>7, <1>8, <1>9, CallGoesOn

LEMMA SyncDirectoryReopens == ASSUME StoreInv, ReopenInv, SyncDirectory PROVE ReopenInv'
<1>1. PICK s \in Session : s = call.session /\ call # Idle /\ Publishes /\ FileInv(s)
  BY PublishFacts DEF SyncDirectory
<1>2. /\ call.phase = "syncDirectory" /\ call' = Idle /\ UNCHANGED files
      /\ cache' = [cache EXCEPT ![s] = Entry(call.head, Len(call.records))]
  BY <1>1 DEF SyncDirectory
<1>3. /\ files' = [files EXCEPT ![s] = files'[s]] /\ FileReopens(s)' /\ files'[s] = files[s]
  BY <1>2, UnchangedReopens DEF StoreInv, FilesInv
<1>4. call.head = Replay(files[s].records)
  BY <1>1, <1>2 DEF Publishes, ReopenInv, CallReopens
<1>5. cache' = [cache EXCEPT ![s] = cache'[s]] /\ cache'[s].head = Replay(files[s].records)
  BY <1>2, <1>4 DEF StoreInv, CacheInv, Entry
<1>6. HeadIsCurrent(s)' /\ CallReopens'
  BY <1>2, <1>3, <1>5, IdleReopens DEF HeadIsCurrent
<1> QED
  BY <1>1, <1>2, <1>3, <1>5, <1>6, OneSessionReopens

\* The next process has no head in memory.
LEMMA RestartReopens ==
    ASSUME call' = Idle, cache' = [s \in Session |-> NoEntry], \A s \in Session : FileReopens(s)'
    PROVE  ReopenInv'
BY IdleReopens DEF ReopenInv, HeadIsCurrent, NoEntry

LEMMA CrashReopens == ASSUME ReopenInv, Crash PROVE ReopenInv'
<1>1. \A s \in Session : FileReopens(s)'
  BY UnchangedReopens DEF Crash
<1> QED
  BY <1>1, RestartReopens DEF Crash

\* A power loss cuts a file behind its last fork, or takes all of it.
LEMMA PowerLossReopens ==
    ASSUME StoreInv, ReopenInv, NEW s \in Session, PowerLoss(s)
    PROVE  ReopenInv'
<1>1. FileInv(s) /\ FileReopens(s) /\ files[s].exists
  BY DEF PowerLoss, StoreInv, FilesInv, ReopenInv
<1>2. PICK file \in Survivors(s) :
        files' = [files EXCEPT ![s] = [file EXCEPT !.synced = Len(file.records)]]
  BY DEF PowerLoss
<1>3. /\ files'[s] = [file EXCEPT !.synced = Len(file.records)]
      /\ \A t \in Session : t # s => files'[t] = files[t]
  BY <1>2 DEF StoreInv, FilesInv
<1> DEFINE records == files[s].records
           synced  == files[s].synced
<1>4. /\ Opens(records) /\ synced >= 1 /\ ForksWithin(records, synced)
      /\ Len(records) \in Nat \ {0} /\ synced \in 1 .. Len(records) /\ DOMAIN records = 1 .. Len(records)
  BY <1>1, ReplayFacts DEF FileReopens, FileInv, Opens
<1> SUFFICES FileReopens(s)'
  <2>1. ASSUME FileReopens(s)' PROVE \A t \in Session : FileReopens(t)'
    BY <1>3, <2>1, UnchangedReopens
  <2> QED
    BY <2>1, RestartReopens DEF PowerLoss
<1>5. CASE \E n \in synced .. Len(records), torn \in BOOLEAN : file = Cut(files[s], n, torn)
  <2>1. PICK n \in synced .. Len(records), torn \in BOOLEAN : file = Cut(files[s], n, torn)
    BY <1>5
  <2>2. /\ file.records = SubSeq(records, 1, n)
        /\ file = [exists |-> file.exists, records |-> file.records,
                   torn |-> file.torn, synced |-> file.synced]
    BY <1>1, <2>1 DEF Cut, FileInv
  <2>3. files'[s].records = SubSeq(records, 1, n) /\ files'[s].synced = Len(file.records)
    BY <1>3, <2>2
  <2> HIDE DEF records, synced
  <2>4. n \in 1 .. Len(records) /\ n >= 1 /\ ForksWithin(records, n)
    BY <1>4, <2>1 DEF ForksWithin
  <2>5. Opens(SubSeq(records, 1, n)) /\ ForksWithin(SubSeq(records, 1, n), n)
    BY <1>4, <2>4, ReplayCut
  <2>6. Len(SubSeq(records, 1, n)) = n
    BY <1>4, <2>4 DEF Opens
  <2>7. Opens(files[s].records)'
    BY <2>3, <2>5 DEF Opens
  <2>8. files'[s].synced >= 1 /\ ForksWithin(files'[s].records, files'[s].synced)
    BY <2>2, <2>3, <2>4, <2>5, <2>6 DEF ForksWithin
  <2> QED
    BY <2>7, <2>8 DEF FileReopens
<1>6. CASE file = NoFile
  BY <1>3, <1>6 DEF NoFile, FileReopens
<1>7. CASE file = files[s]
  <2>1. files'[s].records = records /\ files'[s].synced = Len(records)
        /\ files'[s].exists = files[s].exists
    BY <1>1, <1>3, <1>7 DEF FileInv
  <2>2. synced \in Nat /\ Len(records) \in Nat /\ synced <= Len(records)
    BY <1>4
  <2> QED
    BY <1>1, <2>1, <2>2, SameRecordsReopen
<1> QED
  <2>1. \/ file = files[s] \/ file = NoFile
        \/ \E n \in synced .. (Len(records) - 1), torn \in BOOLEAN : file = Cut(files[s], n, torn)
    BY DEF Survivors
  <2>2. synced .. (Len(records) - 1) \subseteq synced .. Len(records)
    BY <1>4
  <2> HIDE DEF synced, records
  <2> QED
    BY <1>5, <1>6, <1>7, <2>1, <2>2

LEMMA NextReopens == ASSUME StoreInv, ReopenInv, [Next]_vars PROVE ReopenInv'
<1>1. CASE \E s \in Session : LoadWriteState(s)
  BY <1>1, LoadWriteStateReopens
<1>2. CASE \E s \in Session, item \in Appendable : AppendItem(s, item)
  BY <1>2, AppendItemReopens
<1>3. CASE \E s \in Session, key \in Key, slot \in Slot, status \in Saved :
             SaveOperation(s, key, slot, status)
  BY <1>3, SaveOperationReopens
<1>4. CASE Truncate \/ Write \/ Sync
  BY <1>4, TruncateReopens, WriteReopens, SyncReopens
<1>5. CASE WriteFails \/ SyncFails
  BY <1>5, WriteFailsReopens, SyncFailsReopens
<1>6. CASE TruncateFails \/ RenameFails \/ SyncDirectoryFails
  BY <1>6, OtherFailureReopens
<1>7. CASE \E s \in Session : Create(s)
  BY <1>7, CreateReopens
<1>8. CASE \E s \in Session, parent \in Session, turn \in Turn : Fork(s, parent, turn)
  BY <1>8, ForkReopens
<1>9. CASE Rename \/ SyncDirectory
  BY <1>9, RenameReopens, SyncDirectoryReopens
<1>10. CASE Crash
  BY <1>10, CrashReopens
<1>11. CASE \E s \in Session : PowerLoss(s)
  BY <1>11, PowerLossReopens
<1>12. CASE UNCHANGED vars
  BY <1>12 DEF vars, ReopenInv, FileReopens, HeadIsCurrent, CallReopens
<1> QED
  BY <1>1, <1>2, <1>3, <1>4, <1>5, <1>6, <1>7, <1>8, <1>9, <1>10, <1>11, <1>12 DEF Next

\* Whatever failed, crashed or was torn in between: decodeLog accepts every file that the
\* appends and forks leave, and between calls a cached head, which they change in place
\* before they write, is the one that the file's records add up to.
THEOREM Reopening == Spec => []SessionsReopen
<1>1. Init => StoreInv /\ ReopenInv
  BY InitStore, InitReopens
<1>2. StoreInv /\ ReopenInv /\ [Next]_vars => StoreInv' /\ ReopenInv'
  BY NextStep, NextReopens
<1>3. StoreInv /\ ReopenInv => SessionsReopen
  BY DEF StoreInv, CallInv, IsCurrent, ReopenInv, FileReopens, HeadIsCurrent, Opens,
         SessionsReopen, CacheIsCoherent
<1> QED
  BY <1>1, <1>2, <1>3, PTL DEF Spec

-----------------------------------------------------------------------------
(* A session without a fork answers as the coordinator's store does.       *)

HasTurn(items, turn) ==
    \E i \in DOMAIN items : items[i].kind = "turn" /\ items[i].turn = turn

HasResponse(items, turn) ==
    \E i \in DOMAIN items : items[i].kind = "response" /\ items[i].turn = turn

IsLatest(items, latest) ==
    \/ latest = 0 /\ \A i \in DOMAIN items : items[i].kind # "turn"
    \/ \E i \in DOMAIN items :
          /\ items[i].kind = "turn" /\ items[i].turn = latest
          /\ \A j \in DOMAIN items : items[j].kind = "turn" => j <= i

\* The head tells what is in the items of a file without a fork.
HeadTells(head, items) ==
    /\ \A i \in DOMAIN items : items[i].kind # "fork"
    /\ IsLatest(items, head.latest)
    /\ head.turns = head.owned
    /\ \A turn \in head.owned : turn <= head.latest
    /\ \A turn : turn \in head.owned <=> HasTurn(items, turn)
    /\ \A turn : turn \in head.responded <=> HasResponse(items, turn)
    /\ \A key \in Key : key \notin head.statuses => head.ops[key] = NoSnapshot

LEMMA NothingTold == HeadTells(NewHead, <<>>)
BY DEF HeadTells, IsLatest, HasTurn, HasResponse, NewHead

\* One more item.
LEMMA MoreItems ==
    ASSUME NEW S, NEW items \in Seq(S), NEW item
    PROVE  LET more == Append(items, item)
           IN  /\ DOMAIN items = 1 .. Len(items) /\ DOMAIN more = 1 .. (Len(items) + 1)
               /\ Len(items) \in Nat /\ Len(more) = Len(items) + 1
               /\ more[Len(items) + 1] = item /\ \A i \in 1 .. Len(items) : more[i] = items[i]
<1>1. items \in Seq(S \cup {item}) /\ item \in S \cup {item}
  OBVIOUS
<1> QED
  BY <1>1

LEMMA MoreTurns ==
    ASSUME NEW S, NEW items \in Seq(S), NEW item, NEW turn
    PROVE  LET more == Append(items, item)
           IN  /\ HasTurn(more, turn)
                     <=> HasTurn(items, turn) \/ (item.kind = "turn" /\ item.turn = turn)
               /\ HasResponse(more, turn)
                     <=> HasResponse(items, turn) \/ (item.kind = "response" /\ item.turn = turn)
<1> DEFINE more == Append(items, item)
           len  == Len(items)
<1>1. /\ DOMAIN items = 1 .. len /\ DOMAIN more = 1 .. (len + 1)
      /\ len \in Nat /\ more[len + 1] = item /\ \A i \in 1 .. len : more[i] = items[i]
  BY MoreItems
<1> HIDE DEF more, len
<1>2. \A i \in 1 .. (len + 1) : i \in 1 .. len \/ i = len + 1
  BY <1>1
<1>3. len + 1 \in 1 .. (len + 1) /\ \A i \in 1 .. len : i \in 1 .. (len + 1)
  BY <1>1
<1>4. HasTurn(more, turn) <=> HasTurn(items, turn) \/ (item.kind = "turn" /\ item.turn = turn)
  BY <1>1, <1>2, <1>3 DEF HasTurn
<1>5. HasResponse(more, turn)
         <=> HasResponse(items, turn) \/ (item.kind = "response" /\ item.turn = turn)
  BY <1>1, <1>2, <1>3 DEF HasResponse
<1> QED
  BY <1>4, <1>5 DEF more

LEMMA MoreLatest ==
    ASSUME NEW S, NEW items \in Seq(S), NEW item, NEW latest, IsLatest(items, latest)
    PROVE  IsLatest(Append(items, item), IF item.kind = "turn" THEN item.turn ELSE latest)
<1> DEFINE more == Append(items, item)
           len  == Len(items)
<1>1. /\ DOMAIN items = 1 .. len /\ DOMAIN more = 1 .. (len + 1)
      /\ len \in Nat /\ more[len + 1] = item /\ \A i \in 1 .. len : more[i] = items[i]
  BY MoreItems
<1> HIDE DEF more, len
<1>2. \A i \in 1 .. (len + 1) : i <= len + 1 /\ (i \in 1 .. len \/ i = len + 1)
  BY <1>1
<1>3. len + 1 \in 1 .. (len + 1) /\ \A i \in 1 .. len : i \in 1 .. (len + 1)
  BY <1>1
<1>4. CASE item.kind = "turn"
  BY <1>1, <1>2, <1>3, <1>4 DEF IsLatest, more
<1>5. CASE item.kind # "turn"
  BY <1>1, <1>2, <1>3, <1>5 DEF IsLatest, more
<1> QED
  BY <1>4, <1>5

LEMMA ApplyFields ==
    ASSUME NEW head \in HeadType, NEW item \in StoredItem
    PROVE  LET new   == Apply(head, item)
               turns == IF item.kind = "turn" THEN {item.turn} ELSE {}
           IN  /\ new.latest = IF item.kind = "turn" THEN item.turn ELSE head.latest
               /\ new.turns = head.turns \cup turns /\ new.owned = head.owned \cup turns
               /\ new.responded = head.responded
                     \cup (IF item.kind = "response" THEN {item.turn} ELSE {})
               /\ \/ new.statuses = head.statuses /\ new.ops = head.ops
                  \/ /\ item.kind = "status" /\ new.statuses = head.statuses \cup {item.key}
                     /\ new.ops = [head.ops EXCEPT ![item.key] = item.ops]
<1> DEFINE next   == ApplyInPlace(head, item)
           latest == IF item.kind = "turn" THEN item.turn ELSE next.latest
           turns  == head.turns \cup {item.turn}
           owned  == head.owned \cup {item.turn}
           told   == head.responded \cup {item.turn}
           keys   == head.statuses \cup {item.key}
           ops    == [head.ops EXCEPT ![item.key] = item.ops]
<1>1. Apply(head, item) = [next EXCEPT !.seq = next.seq + 1, !.latest = latest]
  BY DEF Apply
<1>2. \/ item.kind = "turn" /\ next = [head EXCEPT !.turns = turns, !.owned = owned]
      \/ item.kind = "response" /\ next = [head EXCEPT !.responded = told]
      \/ item.kind = "status" /\ next = [head EXCEPT !.statuses = keys, !.ops = ops]
      \/ item.kind \notin {"turn", "response"} /\ next = head
  BY ItemCases DEF ApplyInPlace
<1>3. next \in HeadType
  BY ApplyInPlaceType
<1> HIDE DEF next, latest, turns, owned, told, keys, ops
<1>4. /\ Apply(head, item).latest = latest
      /\ Apply(head, item).turns = next.turns /\ Apply(head, item).owned = next.owned
      /\ Apply(head, item).responded = next.responded
      /\ Apply(head, item).statuses = next.statuses /\ Apply(head, item).ops = next.ops
  BY <1>1, <1>3 DEF HeadType
<1>5. \/ /\ item.kind = "turn" /\ next.turns = turns /\ next.owned = owned
         /\ next.responded = head.responded /\ next.statuses = head.statuses /\ next.ops = head.ops
      \/ /\ item.kind = "response" /\ next.turns = head.turns /\ next.owned = head.owned
         /\ next.responded = told /\ next.statuses = head.statuses /\ next.ops = head.ops
         /\ next.latest = head.latest
      \/ /\ item.kind = "status" /\ next.turns = head.turns /\ next.owned = head.owned
         /\ next.responded = head.responded /\ next.statuses = keys /\ next.ops = ops
         /\ next.latest = head.latest
      \/ item.kind \notin {"turn", "response"} /\ next = head
  BY <1>2 DEF HeadType
<1> DEFINE new == Apply(head, item)
<1> HIDE DEF new
<1>6. item.kind = "turn" => new.latest = item.turn
  BY <1>4 DEF latest, new
<1>7. item.kind # "turn" => new.latest = head.latest
  BY <1>4, <1>5 DEF latest, new
<1> QED
  BY <1>4, <1>5, <1>6, <1>7 DEF turns, owned, told, keys, ops, new

\* What the head accepts, it can tell of the items with it.
LEMMA ApplyTells ==
    ASSUME NEW head \in HeadType, NEW items \in Seq(StoredItem), NEW item \in StoredItem,
           HeadTells(head, items), Accepts(head, item), item.kind # "fork"
    PROVE  HeadTells(Apply(head, item), Append(items, item))
<1> DEFINE new  == Apply(head, item)
           more == Append(items, item)
           turns == IF item.kind = "turn" THEN {item.turn} ELSE {}
           told  == IF item.kind = "response" THEN {item.turn} ELSE {}
<1>1. /\ new.latest = IF item.kind = "turn" THEN item.turn ELSE head.latest
      /\ new.turns = head.turns \cup turns /\ new.owned = head.owned \cup turns
      /\ new.responded = head.responded \cup told
      /\ \/ new.statuses = head.statuses /\ new.ops = head.ops
         \/ /\ item.kind = "status" /\ new.statuses = head.statuses \cup {item.key}
            /\ new.ops = [head.ops EXCEPT ![item.key] = item.ops]
  BY ApplyFields
<1>2. /\ IsLatest(items, head.latest) /\ head.turns = head.owned
      /\ \A turn \in head.owned : turn <= head.latest
      /\ \A turn : turn \in head.owned <=> HasTurn(items, turn)
      /\ \A turn : turn \in head.responded <=> HasResponse(items, turn)
      /\ \A key \in Key : key \notin head.statuses => head.ops[key] = NoSnapshot
  BY DEF HeadTells
<1>3. \A turn : /\ HasTurn(more, turn) <=> HasTurn(items, turn) \/ turn \in turns
                /\ HasResponse(more, turn) <=> HasResponse(items, turn) \/ turn \in told
  BY MoreTurns
<1>4. IsLatest(more, new.latest)
  BY <1>1, <1>2, MoreLatest
<1>5. \A turn \in new.owned : turn <= new.latest
  <2>1. head.latest \in Int /\ head.owned \subseteq Int
    BY MaxTurnAssumption DEF HeadType, Turn
  <2>2. CASE item.kind = "turn"
    <3>1. item.turn = head.latest + 1 /\ new.latest = item.turn
          /\ new.owned = head.owned \cup {item.turn}
      BY <1>1, <2>2 DEF Accepts
    <3> HIDE DEF new
    <3> QED
      BY <1>2, <2>1, <3>1
  <2>3. CASE item.kind # "turn"
    <3>1. new.latest = head.latest /\ new.owned = head.owned
      BY <1>1, <2>3
    <3> QED
      BY <1>2, <3>1
  <2> QED
    BY <2>2, <2>3
<1> HIDE DEF new, more, turns, told
<1>6. \A key \in Key : key \notin new.statuses => new.ops[key] = NoSnapshot
  <2>1. CASE new.statuses = head.statuses /\ new.ops = head.ops
    BY <1>2, <2>1
  <2>2. CASE /\ item.kind = "status" /\ new.statuses = head.statuses \cup {item.key}
             /\ new.ops = [head.ops EXCEPT ![item.key] = item.ops]
    BY <1>2, <2>2 DEF HeadType
  <2> QED
    BY <1>1, <2>1, <2>2
<1>7. \A turn : turn \in new.owned <=> HasTurn(more, turn)
  BY <1>1, <1>2, <1>3
<1>8. \A turn : turn \in new.responded <=> HasResponse(more, turn)
  BY <1>1, <1>2, <1>3
<1>9. \A i \in DOMAIN more : more[i].kind # "fork"
  BY MoreItems DEF HeadTells, more
<1> QED
  BY <1>1, <1>2, <1>4, <1>5, <1>6, <1>7, <1>8, <1>9 DEF HeadTells, new, more

\* A stored status of an operation does not change what the head tells of the items.
LEMMA SaveTells ==
    ASSUME NEW head \in HeadType, NEW items, HeadTells(head, items), NEW key \in Key, NEW slot \in Slot,
           NEW status, AcceptsSave(head, key, slot)
    PROVE  HeadTells(Save(head, key, slot, status), items)
<1> DEFINE ops == [head.ops EXCEPT ![key] = [head.ops[key] EXCEPT ![slot] = status]]
           new == Save(head, key, slot, status)
<1>1. new = [head EXCEPT !.ops = ops]
  BY DEF Save
<1>2. \A other \in Key : other # key => ops[other] = head.ops[other]
  BY DEF HeadType
<1>3. key \in head.statuses
  <2>1. NoSnapshot[slot] = "none"
    BY DEF NoSnapshot
  <2> QED
    BY <2>1 DEF AcceptsSave, HeadTells
<1> HIDE DEF ops
<1>4. /\ new.latest = head.latest /\ new.turns = head.turns /\ new.owned = head.owned
      /\ new.responded = head.responded /\ new.statuses = head.statuses /\ new.ops = ops
  BY <1>1 DEF HeadType
<1> HIDE DEF new
<1>5. \A other \in Key : other \notin new.statuses => new.ops[other] = NoSnapshot
  BY <1>2, <1>3, <1>4 DEF HeadTells
<1> QED
  BY <1>4, <1>5 DEF HeadTells, new

NoForks(records) == \A i \in DOMAIN records : ~IsFork(records[i])

\* Record by record: the head of a file without a fork tells what is in its items.
LEMMA ReplayTells ==
    ASSUME NEW records, Opens(records), NoForks(records)
    PROVE  HeadTells(Replay(records), ItemsIn(records))
<1> DEFINE len   == Len(records)
           heads == Heads(records)
           items == Items(records)
           told  == {i \in 0 .. len : HeadTells(heads[i], items[i])}
<1>1. /\ records \in Seq(Record) /\ len \in Nat \ {0} /\ Replay(records) = heads[len]
      /\ heads[len] # Corrupt /\ DOMAIN records = 1 .. len
  BY ReplayFacts DEF Opens
<1>2. /\ heads[0] = NewHead
      /\ \A i \in 1 .. len : heads[i] = DecodeRecord(records, heads[i - 1], i)
      /\ \A i \in 0 .. len : heads[i] \in HeadType
  BY <1>1, HeadsDef
<1>3. /\ items[0] = <<>>
      /\ \A i \in 1 .. len : items[i] = IF IsItem(records[i])
                                        THEN Append(items[i - 1], records[i].item)
                                        ELSE items[i - 1]
      /\ \A i \in 0 .. len : items[i] \in Seq(StoredItem)
  BY <1>1, ItemsDef
<1>4. \A i \in 0 .. len : heads[i] # Corrupt
  BY <1>1, HeadsBefore
<1>5. ItemsIn(records) = items[len]
  BY DEF ItemsIn
<1>6. \A i \in 1 .. len : records[i] \in Record /\ ~IsInherited(records, i)
  BY <1>1 DEF NoForks, IsInherited
<1> HIDE DEF heads, items, len
<1>7. 0 \in told
  BY <1>1, <1>2, <1>3, NothingTold
<1>8. ASSUME NEW i \in 1 .. len, i - 1 \in told PROVE i \in told
  <2> DEFINE head   == heads[i - 1]
             record == records[i]
             new    == DecodeRecord(records, head, i)
  <2>1. /\ i \in Nat /\ i \in 0 .. len /\ i - 1 \in 0 .. len /\ record \in Record
        /\ ~IsInherited(records, i)
    BY <1>1, <1>6
  <2>2. /\ head \in HeadType /\ head # Corrupt /\ HeadTells(head, items[i - 1])
        /\ items[i - 1] \in Seq(StoredItem) /\ heads[i] = new /\ new # Corrupt
        /\ items[i] = IF IsItem(record) THEN Append(items[i - 1], record.item) ELSE items[i - 1]
    BY <1>2, <1>3, <1>4, <1>8, <2>1
  <2>3. \/ i = 1 /\ record = Header /\ new = NewHead
        \/ IsItem(record) /\ Accepts(head, record.item) /\ new = Apply(head, record.item)
        \/ /\ record.type = "operation" /\ AcceptsSave(head, record.key, record.slot)
           /\ new = Save(head, record.key, record.slot, record.status)
    BY <2>1, <2>2, DecodeCases
  <2> HIDE DEF head, record, new
  <2>4. CASE i = 1 /\ record = Header /\ new = NewHead
    <3>1. items[i - 1] = <<>> /\ ~IsItem(record)
      BY <1>3, <2>4 DEF Header, IsItem
    <3> QED
      BY <2>1, <2>2, <2>4, <3>1, NothingTold
  <2>5. CASE IsItem(record) /\ Accepts(head, record.item) /\ new = Apply(head, record.item)
    <3>1. record.item \in StoredItem /\ record.item.kind # "fork"
      BY <2>1, <2>5, RecordCases DEF Accepts
    <3>2. HeadTells(new, Append(items[i - 1], record.item))
      BY <2>2, <2>5, <3>1, ApplyTells
    <3> QED
      BY <2>1, <2>2, <2>5, <3>2
  <2>6. CASE /\ record.type = "operation" /\ AcceptsSave(head, record.key, record.slot)
             /\ new = Save(head, record.key, record.slot, record.status)
    <3>1. record.key \in Key /\ record.slot \in Slot /\ ~IsItem(record)
      BY <2>1, <2>6, RecordCases DEF Header
    <3>2. HeadTells(new, items[i - 1])
      BY <2>2, <2>6, <3>1, SaveTells
    <3> QED
      BY <2>1, <2>2, <3>1, <3>2
  <2> QED
    BY <2>3, <2>4, <2>5, <2>6
<1> HIDE DEF told
<1>9. \A i \in 0 .. len : i \in told
  BY <1>1, <1>7, <1>8, UpTo
<1> QED
  BY <1>1, <1>5, <1>9 DEF told

\* What the coordinator's store accepts after the items, a head that tells of them accepts.
LEMMA LatestIs ==
    ASSUME NEW s \in Session, NEW items \in Seq(StoredItem), NEW latest, IsLatest(items, latest)
    PROVE  Promised(s)!LatestTurn(items) = latest
<1> DEFINE turns == {i \in DOMAIN items : items[i].kind = "turn"}
           last  == CHOOSE i \in turns : \A j \in turns : j <= i
<1>1. Promised(s)!LatestTurn(items) = IF turns = {} THEN 0 ELSE items[last].turn
  BY DEF Promised!LatestTurn
<1>2. turns \subseteq Int
  OBVIOUS
<1>3. CASE turns = {}
  BY <1>1, <1>3 DEF IsLatest
<1>4. CASE turns # {}
  <2>1. PICK i \in turns : items[i].turn = latest /\ \A j \in turns : j <= i
    BY <1>4 DEF IsLatest
  <2>2. last \in turns /\ \A j \in turns : j <= last
    BY <2>1
  <2> HIDE DEF turns, last
  <2>3. last = i
    BY <1>2, <2>1, <2>2
  <2> QED
    BY <1>1, <1>4, <2>1, <2>3
<1> QED
  BY <1>3, <1>4

LEMMA AcceptsAlike ==
    ASSUME NEW s \in Session, NEW head \in HeadType, NEW items \in Seq(StoredItem),
           HeadTells(head, items), NEW item \in StoredItem, item.kind # "fork"
    PROVE  Accepts(head, item) <=> Promised(s)!AcceptsItem(items, item)
<1> DEFINE accepted == Promised(s)!AcceptsItem(items, item)
<1>1. accepted <=> \/ item.kind = "input"
                   \/ item.kind = "turn" /\ item.turn = Promised(s)!LatestTurn(items) + 1
                   \/ /\ item.kind = "response"
                      /\ HasTurn(items, item.turn) /\ ~HasResponse(items, item.turn)
                   \/ item.kind = "status" /\ HasTurn(items, item.key[1])
  <2>1. \A turn : Promised(s)!OwnsTurn(items, turn) <=> HasTurn(items, turn)
    BY DEF Promised!OwnsTurn, Promised!IsOwn, HasTurn, HeadTells
  <2> QED
    BY <2>1 DEF Promised!AcceptsItem, HasResponse
<1>2. Promised(s)!LatestTurn(items) = head.latest
  BY LatestIs DEF HeadTells
<1> HIDE DEF accepted
<1>3. /\ head.turns = head.owned /\ \A turn \in head.owned : turn <= head.latest
      /\ \A turn : turn \in head.owned <=> HasTurn(items, turn)
      /\ \A turn : turn \in head.responded <=> HasResponse(items, turn)
      /\ \A key \in Key : key \notin head.statuses => head.ops[key] = NoSnapshot
  BY DEF HeadTells
<1>4. CASE item.kind = "input"
  <2>1. Accepts(head, item)
    BY <1>4 DEF Accepts
  <2>2. accepted
    BY <1>1, <1>4
  <2> QED
    BY <2>1, <2>2 DEF accepted
<1>5. CASE item.kind = "turn"
  <2>1. Accepts(head, item) <=> item.turn = head.latest + 1 /\ item.turn \notin head.turns
    BY <1>5 DEF Accepts
  <2>2. accepted <=> item.turn = head.latest + 1
    BY <1>1, <1>2, <1>5
  <2>3. head.latest + 1 \notin head.turns
    <3>1. head.latest \in Int /\ ~(head.latest + 1 <= head.latest)
      BY MaxTurnAssumption DEF HeadType
    <3> QED
      BY <1>3, <3>1
  <2> QED
    BY <2>1, <2>2, <2>3 DEF accepted
<1>6. CASE item.kind = "response"
  <2>1. Accepts(head, item) <=> item.turn \in head.owned \ head.responded
    BY <1>6 DEF Accepts
  <2>2. accepted <=> HasTurn(items, item.turn) /\ ~HasResponse(items, item.turn)
    BY <1>1, <1>6
  <2> QED
    BY <1>3, <2>1, <2>2 DEF accepted
<1>7. CASE item.kind = "status"
  <2>1. item.key \in Key
    BY <1>7, ItemCases
  <2>2. Accepts(head, item) <=> /\ item.key[1] \in head.owned
                                /\ item.key \in head.statuses \/ head.ops[item.key] = NoSnapshot
    BY <1>7 DEF Accepts
  <2>3. accepted <=> HasTurn(items, item.key[1])
    BY <1>1, <1>7
  <2> QED
    BY <1>3, <2>1, <2>2, <2>3 DEF accepted
<1> QED
  BY <1>4, <1>5, <1>6, <1>7, ItemCases

\* The fold of decodeLog's "pending" set says what Unrecorded says of all the statuses.
ShownUnfinished(items, key, slot, n) ==
    \E i \in 1 .. n :
        /\ items[i].kind = "status" /\ items[i].key = key /\ items[i].ops[slot] \in Unfinished
        /\ \A j \in 1 .. n : j > i /\ items[j].kind = "status" /\ items[j].key = key =>
              items[j].ops[slot] \notin Finished

LEMMA StatusSlot ==
    ASSUME NEW item \in StoredItem, item.kind = "status", NEW slot \in Slot
    PROVE  item.ops[slot] \notin OpStatus \/ item.ops[slot] \in Unfinished \/ item.ops[slot] \in Finished
<1>1. item.ops \in Snapshot
  BY ItemCases
<1> QED
  BY <1>1 DEF Snapshot, OpStatus

LEMMA PendingIs ==
    ASSUME NEW items \in Seq(StoredItem), NEW key, NEW slot \in Slot
    PROVE  Pending(items, key, slot) <=> ShownUnfinished(items, key, slot, Len(items))
<1> DEFINE len == Len(items)
           first == FALSE
           Mentions(i) == items[i].kind = "status" /\ items[i].key = key /\ items[i].ops[slot] \in OpStatus
           Next1(last, i) == IF Mentions(i) THEN items[i].ops[slot] \in Unfinished ELSE last
           Is(f) == f = [i \in 0 .. len |-> IF i = 0 THEN first ELSE Next1(f[i - 1], i)]
           step == [i \in 1 .. len |-> [last \in BOOLEAN |-> Next1(last, i)]]
           Shown(n) == ShownUnfinished(items, key, slot, n)
<1>1. len \in Nat /\ \A i \in 1 .. len : i \in Nat /\ i # 0 /\ items[i] \in StoredItem
  OBVIOUS
<1>2. ASSUME NEW i, NEW last \in BOOLEAN PROVE Next1(last, i) \in BOOLEAN
  <2>1. CASE Mentions(i)
    <3>1. CASE items[i].ops[slot] \in Unfinished
      <4>1. Next1(last, i) = TRUE
        BY <2>1, <3>1
      <4> QED
        BY <4>1
    <3>2. CASE items[i].ops[slot] \notin Unfinished
      <4>1. Next1(last, i) = FALSE
        BY <2>1, <3>2
      <4> QED
        BY <4>1
    <3> QED
      BY <3>1, <3>2
  <2>2. CASE ~Mentions(i)
    BY <2>2
  <2> QED
    BY <2>1, <2>2
<1> HIDE DEF len
<1>3. Pending(items, key, slot) = (CHOOSE g : Is(g))[len]
  BY DEF Pending, len
<1>4. first \in BOOLEAN
  OBVIOUS
<1> HIDE DEF first
<1>5. PICK f : Is(f) /\ f \in [0 .. len -> BOOLEAN]
  <2> HIDE DEF Next1
  <2>1. step \in [1 .. len -> [BOOLEAN -> BOOLEAN]]
    BY <1>2
  <2>2. \A last \in BOOLEAN, i \in 1 .. len : step[i][last] = Next1(last, i)
    OBVIOUS
  <2> HIDE DEF step
  <2>3. PICK f : Steps(f, len, BOOLEAN, first, step)
    BY <1>1, <1>4, <2>1, Recursion
  <2>4. ASSUME NEW n \in 1 .. len PROVE f[n] = Next1(f[n - 1], n)
    <3>1. n - 1 \in 0 .. len
      BY <1>1
    <3>2. f[n - 1] \in BOOLEAN
      BY <2>3, <3>1 DEF Steps
    <3> QED
      BY <2>2, <2>3, <3>2 DEF Steps
  <2>5. \A n \in 0 .. len : f[n] = IF n = 0 THEN first ELSE Next1(f[n - 1], n)
    BY <1>1, <2>3, <2>4 DEF Steps
  <2> QED
    BY <2>3, <2>5 DEF Steps
<1> DEFINE pending == CHOOSE g : Is(g)
<1> HIDE DEF Is
<1>6. Is(pending)
  BY <1>5
<1>7. pending[0] = first /\ \A n \in 1 .. len : pending[n] = Next1(pending[n - 1], n)
  <2> HIDE DEF Next1
  <2>1. pending = [i \in 0 .. len |-> IF i = 0 THEN first ELSE Next1(pending[i - 1], i)]
    BY <1>6 DEF Is
  <2>2. \A i \in 0 .. len : pending[i] = IF i = 0 THEN first ELSE Next1(pending[i - 1], i)
    BY <2>1, Zenon
  <2>3. 0 \in 0 .. len /\ \A n \in 1 .. len : n \in 0 .. len /\ n # 0
    BY <1>1
  <2> QED
    BY <2>2, <2>3, Zenon
<1> HIDE DEF pending
<1> DEFINE shown == {n \in 0 .. len : pending[n] <=> Shown(n)}
<1>8. 0 \in shown
  BY <1>1, <1>7 DEF ShownUnfinished, first
<1>9. ASSUME NEW n \in 1 .. len, n - 1 \in shown PROVE n \in shown
  <2> DEFINE status == items[n].ops[slot]
             m == n - 1
  <2>1. /\ n \in Int /\ n \in 0 .. len /\ m \in Int /\ n \in 1 .. n
        /\ \A i \in 1 .. n : i \in 1 .. m \/ i = n
        /\ \A i \in 1 .. m : i \in 1 .. n /\ n > i /\ i # n
    BY <1>1
  <2>2. pending[n] = Next1(pending[m], n) /\ (pending[m] <=> Shown(m))
    BY <1>7, <1>9
  <2>3. items[n].kind = "status" => status \notin OpStatus \/ status \in Unfinished \/ status \in Finished
    BY <1>1, StatusSlot
  <2>4. OpStatus = Finished \cup Unfinished /\ \A x \in Unfinished : x \notin Finished
    BY DEF OpStatus, Finished, Unfinished
  <2> HIDE DEF m
  <2>5. CASE ~Mentions(n)
    <3>1. pending[n] <=> Shown(m)
      BY <2>2, <2>5
    <3>2. Shown(n) <=> Shown(m)
      BY <2>1, <2>3, <2>4, <2>5 DEF ShownUnfinished
    <3> QED
      BY <2>1, <3>1, <3>2
  <2>6. CASE Mentions(n) /\ status \in Unfinished
    <3>1. pending[n]
      BY <2>2, <2>6
    <3>2. Shown(n)
      BY <2>1, <2>6 DEF ShownUnfinished
    <3> QED
      BY <2>1, <3>1, <3>2
  <2>7. CASE Mentions(n) /\ status \in Finished
    <3>1. status \notin Unfinished
      BY <2>4, <2>7
    <3>2. ~pending[n]
      BY <2>2, <2>7, <3>1
    <3>3. ~Shown(n)
      BY <2>1, <2>7, <3>1 DEF ShownUnfinished
    <3> QED
      BY <2>1, <3>2, <3>3
  <2> QED
    BY <2>3, <2>5, <2>6, <2>7
<1> HIDE DEF shown
<1>10. \A n \in 0 .. len : n \in shown
  BY <1>1, <1>8, <1>9, UpTo
<1> QED
  BY <1>1, <1>3, <1>10 DEF shown, pending, len

\* What a resume returns, of the files and of the coordinator's store.
LEMMA ResumesAlike ==
    ASSUME NEW s \in Session, NEW key \in Key, NEW slot \in Slot,
           ItemsIn(files[s].records) \in Seq(StoredItem)
    PROVE  Resumes(files[s].records, key, slot) <=> Promised(s)!IsResumed(key, slot)
<1> DEFINE records == files[s].records
           items   == ItemsIn(records)
           status  == Replay(records).ops[key][slot]
<1>1. DOMAIN items = 1 .. Len(items)
  OBVIOUS
<1>2. Promised(s)!Unfinished = Unfinished /\ Promised(s)!Finished = Finished
  BY DEF Promised!Unfinished, Promised!Finished, Unfinished, Finished
<1>3. Promised(s)!Unrecorded(key, slot) <=> ShownUnfinished(items, key, slot, Len(items))
  <2>1. Promised(s)!StatusesOf(key)
           = {i \in 1 .. Len(items) : items[i].kind = "status" /\ items[i].key = key}
    BY <1>1 DEF Promised!StatusesOf, Promised!ItemsOf
  <2>2. Promised(s)!Unrecorded(key, slot)
           <=> \E i \in Promised(s)!StatusesOf(key) :
                  /\ items[i].ops[slot] \in Unfinished
                  /\ \A j \in Promised(s)!StatusesOf(key) : j > i => items[j].ops[slot] \notin Finished
    BY <1>2 DEF Promised!Unrecorded
  <2> HIDE DEF items
  <2> QED
    BY <2>1, <2>2 DEF ShownUnfinished
<1>4. Pending(items, key, slot) <=> ShownUnfinished(items, key, slot, Len(items))
  BY PendingIs
<1>5. Resumes(records, key, slot)
         <=> status \in Unfinished \/ (status \in Finished /\ Pending(items, key, slot))
  BY DEF Resumes
<1>6. Promised(s)!IsResumed(key, slot)
         <=> status \in Unfinished \/ (status \in Finished /\ Promised(s)!Unrecorded(key, slot))
  BY <1>2 DEF Promised!IsResumed
<1> HIDE DEF records, items, status
<1> QED
  BY <1>3, <1>4, <1>5, <1>6 DEF records

\* The inputs in a session's history are messages.
LEMMA RestoredAlike ==
    ASSUME NEW s \in Session, ItemsIn(files[s].records) \in Seq(StoredItem)
    PROVE  ExternalIDs(ItemsIn(files[s].records)) = Promised(s)!RestoredIDs
<1> DEFINE items == ItemsIn(files[s].records)
           inputs == {i \in DOMAIN items : items[i].kind = "input"}
           external == {i \in inputs : items[i].input.kind = "external"}
<1>1. ASSUME NEW i \in inputs PROVE items[i].input.kind = "external"
  <2>1. items[i] \in StoredItem /\ items[i].kind = "input"
    OBVIOUS
  <2> HIDE DEF items
  <2> QED
    BY <2>1 DEF StoredItem, Message, TurnItem, ResponseItem, StatusItem, ForkItem
<1>2. inputs = external
  BY <1>1
<1>3. Promised(s)!RestoredIDs = {items[i].input.id : i \in external}
  BY DEF Promised!RestoredIDs, Promised!ItemsOf
<1>4. ExternalIDs(items) = {items[i].input.id : i \in inputs}
  BY DEF ExternalIDs
<1> HIDE DEF items, inputs, external
<1> QED
  BY <1>2, <1>3, <1>4 DEF items

\* The coordinator's store is what a session without a fork implements: its file accepts
\* the items and statuses that the contract accepts, and a resume returns the operations
\* and the input IDs that the contract's does, after every failure and crash.
THEOREM Keeping == Spec => []KeepsPromise
<1>1. Init => StoreInv /\ ReopenInv
  BY InitStore, InitReopens
<1>2. StoreInv /\ ReopenInv /\ [Next]_vars => StoreInv' /\ ReopenInv'
  BY NextStep, NextReopens
<1>3. StoreInv /\ ReopenInv => KeepsPromise
  <2> SUFFICES ASSUME ReopenInv, NEW s \in Session, files[s].exists, NoForks(files[s].records)
               PROVE  /\ \A item \in Appendable :
                            Accepts(Replay(files[s].records), item)
                               <=> Promised(s)!AcceptsItem(ItemsIn(files[s].records), item)
                      /\ \A key \in Key, slot \in Slot :
                            /\ Resumes(files[s].records, key, slot)
                                  <=> Promised(s)!IsResumed(key, slot)
                            /\ AcceptsSave(Replay(files[s].records), key, slot)
                                  <=> Promised(s)!AcceptsOperation(key, slot)
                      /\ ExternalIDs(ItemsIn(files[s].records)) = Promised(s)!RestoredIDs
    BY DEF KeepsPromise, NoForks
  <2>1. Opens(files[s].records)
    BY DEF ReopenInv, FileReopens
  <2>2. Replay(files[s].records) \in HeadType /\ ItemsIn(files[s].records) \in Seq(StoredItem)
    BY <2>1, ReplayFacts, ItemsInType DEF Opens
  <2>3. HeadTells(Replay(files[s].records), ItemsIn(files[s].records))
    BY <2>1, ReplayTells
  <2>4. ASSUME NEW item \in Appendable
        PROVE  Accepts(Replay(files[s].records), item)
                  <=> Promised(s)!AcceptsItem(ItemsIn(files[s].records), item)
    <3>1. item \in StoredItem /\ item.kind # "fork"
      BY AppendableItem
    <3> QED
      BY <2>2, <2>3, <3>1, AcceptsAlike
  <2>5. ASSUME NEW key \in Key, NEW slot \in Slot
        PROVE  /\ Resumes(files[s].records, key, slot) <=> Promised(s)!IsResumed(key, slot)
               /\ AcceptsSave(Replay(files[s].records), key, slot)
                     <=> Promised(s)!AcceptsOperation(key, slot)
    <3>1. Resumes(files[s].records, key, slot) <=> Promised(s)!IsResumed(key, slot)
      BY <2>2, ResumesAlike
    <3>2. AcceptsSave(Replay(files[s].records), key, slot)
             <=> Promised(s)!AcceptsOperation(key, slot)
      BY DEF AcceptsSave, Promised!AcceptsOperation
    <3> QED
      BY <3>1, <3>2
  <2>6. ExternalIDs(ItemsIn(files[s].records)) = Promised(s)!RestoredIDs
    BY <2>2, RestoredAlike
  <2> QED
    BY <2>4, <2>5, <2>6
<1> QED
  BY <1>1, <1>2, <1>3, PTL DEF Spec
=============================================================================
