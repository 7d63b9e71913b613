------------------------------- MODULE Journal -------------------------------
(***************************************************************************)
(* The journal of fxfs (object_store/journal.rs, with its reader, writer   *)
(* and checksum list).  Transactions are written to the journal's buffer;  *)
(* a task writes the blocks of it that are full to the device; sync pads   *)
(* the last block, waits for the task and flushes the device; after a      *)
(* crash, mounting replays what the device holds.                          *)
(*                                                                         *)
(* There is one file.  A transaction moves it to another range of the      *)
(* device: its data is written there, then the transaction is journaled as *)
(* two records, of which one stands for the mutations (the new range is    *)
(* allocated, the old one deallocated) and the checksum of the data, the   *)
(* other is Commit.  Journal offsets count records, BlockSize to a block.  *)
(*                                                                         *)
(* Checksums never collide.  That of data is the data.  That of a block is *)
(* a checksum of its records seeded with the checksum of the block before: *)
(* it stands for all the records of the journal up to the end of the       *)
(* block, and for which of its blocks were the first after a mount, where  *)
(* the seed is changed (RESET_XOR).  A block is stored as what its checksum *)
(* stands for.                                                             *)
(*                                                                         *)
(* The device keeps what is written to it in a cache.  A flush empties it, *)
(* a crash loses any part of it.                                           *)
(***************************************************************************)
EXTENDS Integers, Sequences, SequencesExt, FiniteSets, FiniteSetsExt

CONSTANTS
  BlockSize,                    \* the records in a block of the journal
  Ranges,                       \* of the device, for the data: positive numbers
  MaxTxs, MaxSyncs, MaxCrashes  \* bounds

ASSUME JournalAssumption ==
  /\ BlockSize \in Nat \ {0, 1}
  /\ Ranges \subseteq Nat \ {0} /\ Ranges # {} /\ IsFiniteSet(Ranges)
  /\ MaxTxs \in Nat /\ MaxSyncs \in Nat /\ MaxCrashes \in Nat

VARIABLES
  disk, cached,        \* the blocks of the journal: on the device, in its cache
  data, dcached,       \* the data in the ranges, likewise
  journal,             \* JournalWriter: what has been written, checksum included
  taken, flushed,      \* the blocks taken from it; those written (flushed_offset)
  device_flushed,      \* Inner: device_flushed_offset
  needs_did_flush,     \* Inner: needs_did_flush_device
  reset_version,       \* Inner: output_reset_version
  discard,             \* Inner: discard_offset, 0 for None
  terminate,           \* Inner
  deallocs,            \* Allocator: committed_deallocated
  commit,              \* the transaction being committed (commit_mutex)
  sync,                \* the call of sync in progress (sync_mutex)
  flusher,             \* flush_task
  log, durable, past,  \* the transactions applied; see DurableLog
  txs, syncs, crashes  \* counters against the bounds

device == <<disk, cached, data, dcached>>
writer == <<journal, taken, flushed>>
inner == <<device_flushed, needs_did_flush, reset_version, discard, terminate>>
promise == <<log, durable, past>>
counters == <<txs, syncs, crashes>>
vars == <<device, writer, inner, deallocs, commit, sync, flusher, promise, counters>>
-----------------------------------------------------------------------------
(***************************************************************************)
(* Records and blocks.                                                     *)
(***************************************************************************)
\* num is the offset a record names, or the number of its transaction, which
\* is also the data that the transaction writes.
Record(kind, num, new, old) == [kind |-> kind, num |-> num, new |-> new, old |-> old]
EndBlock == Record("EndBlock", 0, 0, 0)
Padding == Record("Padding", 0, 0, 0)
Version == Record("Version", 0, 0, 0)
Discard(offset) == Record("Discard", offset, 0, 0)
DidFlushDevice(offset) == Record("DidFlushDevice", offset, 0, 0)
Mutation(tx) == Record("Mutation", tx.num, tx.new, tx.old)
Commit == Record("Commit", 0, 0, 0)

\* pad_to_block
Pad(n) == [i \in 1..n |-> IF i = 1 THEN EndBlock ELSE Padding]

\* The offset at which a block begins.
Start(block) == block * BlockSize

\* The whole blocks in so many records.
Whole(records) == Max({b \in 0..records : Start(b) <= records})

\* What the checksum of the last of so many blocks stands for.
Cut(history, blocks) ==
  [recs |-> SubSeq(history.recs, 1, Start(blocks)),
   resets |-> {b \in history.resets : b < blocks}]

\* The filesystem is formatted: the file is in the first range.
Home == Min(Ranges)
Format == [offset |-> 0, num |-> 0, new |-> Home, old |-> 0]
FormatBlock == [recs |-> <<Mutation(Format), Commit>> \o Pad(BlockSize - 2), resets |-> {}]

NotWritten == -1
NoCommit == [stage |-> "idle", tx |-> [num |-> 0, new |-> Home, old |-> 0]]
NoSync == [stage |-> "idle", offset |-> 0, covers |-> 0]

\* It has just been mounted.
Init ==
  /\ disk = [b \in {0} |-> FormatBlock] /\ cached = <<>>
  /\ data = [r \in Ranges |-> IF r = Home THEN Format.num ELSE NotWritten] /\ dcached = <<>>
  /\ journal = [FormatBlock EXCEPT !.resets = {1}] /\ taken = 1 /\ flushed = 1
  /\ device_flushed = Start(1) /\ needs_did_flush = FALSE /\ reset_version = TRUE
  /\ discard = 0 /\ terminate = FALSE /\ deallocs = {}
  /\ commit = NoCommit /\ sync = NoSync /\ flusher = "ready"
  /\ log = <<Format>> /\ durable = 1 /\ past = {}
  /\ txs = 0 /\ syncs = 0 /\ crashes = 0
-----------------------------------------------------------------------------
(***************************************************************************)
(* JournalWriter.                                                          *)
(***************************************************************************)
Offset == Len(journal.recs)

Write(recs) ==
  /\ journal' = [journal EXCEPT !.recs = @ \o recs]
  /\ UNCHANGED <<taken, flushed>>

\* flush_waker, sync_waker
WakeFlusher == flusher' = IF flusher = "parked" THEN "ready" ELSE flusher
WakeSync == sync' = IF sync.stage = "parked" THEN [sync EXCEPT !.stage = "wait"] ELSE sync
-----------------------------------------------------------------------------
(***************************************************************************)
(* A transaction.                                                          *)
(***************************************************************************)
Current == Last(log).new

\* What the allocator can give out.
Free == Ranges \ ({Current} \cup {d.range : d \in deallocs})

\* A transaction begins, unless check_journal_space finds the journal
\* terminated: multi_write allocates a range and writes the data to it.  The
\* lock on the file keeps others away until it is committed.
WriteData ==
  /\ ~terminate  \* check_journal_space
  /\ commit.stage = "idle" /\ txs < MaxTxs
  /\ txs' = txs + 1
  /\ \E r \in Free :
       /\ dcached' = [s \in DOMAIN dcached \cup {r} |-> IF s = r THEN txs' ELSE dcached[s]]
       /\ commit' = [stage |-> "written", tx |-> [num |-> txs', new |-> r, old |-> Current]]
  /\ UNCHANGED <<disk, cached, data, writer, inner, deallocs, sync, flusher, promise, syncs, crashes>>

\* Fault: the record of the flush is taken to be advice, and left out.
PreCommit_NoDidFlush ==
  /\ commit.stage = "written"
  /\ Write((IF reset_version THEN <<Version>> ELSE <<>>)
           \o (IF discard # 0 THEN <<Discard(discard)>> ELSE <<>>))
  /\ reset_version' = FALSE /\ discard' = 0 /\ needs_did_flush' = FALSE
  /\ commit' = [commit EXCEPT !.stage = "prepared"]
  /\ UNCHANGED <<device, device_flushed, terminate, deallocs, sync, flusher, promise, counters>>

\* The records that are due come first.
PreCommit ==
  /\ commit.stage = "written"
  /\ Write((IF reset_version THEN <<Version>> ELSE <<>>)
           \o (IF discard # 0 THEN <<Discard(discard)>> ELSE <<>>)
           \o (IF needs_did_flush THEN <<DidFlushDevice(device_flushed)>> ELSE <<>>))
  /\ reset_version' = FALSE /\ discard' = 0 /\ needs_did_flush' = FALSE
  /\ commit' = [commit EXCEPT !.stage = "prepared"]
  /\ UNCHANGED <<device, device_flushed, terminate, deallocs, sync, flusher, promise, counters>>

\* A transaction with its place in the journal.
Placed(tx, offset) == [offset |-> offset, num |-> tx.num, new |-> tx.new, old |-> tx.old]

\* Under the writer_mutex: no padding comes between the two records.
WriteAndApplyMutations ==
  /\ commit.stage = "prepared"
  /\ Write(<<Mutation(commit.tx), Commit>>)
  /\ log' = Append(log, Placed(commit.tx, Offset))
  /\ deallocs' = deallocs \cup {[offset |-> Offset, range |-> commit.tx.old]}
  /\ commit' = [commit EXCEPT !.stage = "applied"]
  /\ UNCHANGED <<device, inner, sync, flusher, durable, past, counters>>

EndCommit ==
  /\ commit.stage = "applied"
  /\ WakeFlusher
  /\ commit' = NoCommit
  /\ UNCHANGED <<device, writer, inner, deallocs, sync, promise, counters>>
-----------------------------------------------------------------------------
(***************************************************************************)
(* flush_task and flush.                                                   *)
(***************************************************************************)
\* The task finds nothing to write, or takes blocks and begins to write them.
FlushTask ==
  /\ flusher = "ready"
  /\ LET whole == Whole(Offset)
     IN  \/ whole = taken /\ flusher' = "parked" /\ UNCHANGED <<cached, taken>>
         \/ /\ whole > taken
            /\ flusher' = "writing"
            /\ cached' = [b \in DOMAIN cached \cup (taken..(whole - 1)) |->
                            IF b >= taken THEN Cut(journal, b + 1) ELSE cached[b]]
            /\ taken' = whole
  /\ UNCHANGED <<disk, data, dcached, journal, flushed, inner, deallocs, commit, sync, promise, counters>>

\* Fault: a sync that waits is not told.
Flushed_NoWake ==
  /\ flusher = "writing"
  /\ flushed' = taken
  /\ flusher' = "ready"
  /\ UNCHANGED <<device, journal, taken, inner, deallocs, commit, sync, promise, counters>>

\* Fault: what has been added since the blocks were taken counts as written.
Flushed_Late ==
  /\ flusher = "writing"
  /\ flushed' = Whole(Offset)
  /\ flusher' = "ready"
  /\ WakeSync
  /\ UNCHANGED <<device, journal, taken, inner, deallocs, commit, promise, counters>>

Flushed ==
  /\ flusher = "writing"
  /\ flushed' = taken
  /\ flusher' = "ready"
  /\ WakeSync
  /\ UNCHANGED <<device, journal, taken, inner, deallocs, commit, promise, counters>>

\* The write fails: the journal is terminated and the task ends.
FlushFails ==
  /\ flusher = "writing"
  /\ terminate' = TRUE
  /\ flusher' = "ended"
  /\ WakeSync
  /\ UNCHANGED <<device, writer, device_flushed, needs_did_flush, reset_version, discard, deallocs,
                 commit, promise, counters>>
-----------------------------------------------------------------------------
(***************************************************************************)
(* sync and flush_device.                                                  *)
(***************************************************************************)
\* pad_to_block: the offset is that before the padding.
Sync ==
  /\ sync.stage = "idle" /\ syncs < MaxSyncs
  /\ syncs' = syncs + 1
  /\ LET filled == Offset - Start(Whole(Offset))
     IN  \/ filled = 0 /\ UNCHANGED <<writer, flusher>>
         \/ /\ filled # 0
            /\ Write(Pad(BlockSize - filled))
            /\ WakeFlusher
  /\ sync' = [stage |-> "wait", offset |-> Offset, covers |-> Len(log)]
  /\ UNCHANGED <<device, inner, deallocs, commit, promise, txs, crashes>>

\* The task has written everything before the offset, or never will.
AwaitFlush ==
  /\ sync.stage = "wait"
  /\ \/ Start(flushed) >= sync.offset /\ sync' = [sync EXCEPT !.stage = "flush"]
     \/ Start(flushed) < sync.offset /\ terminate /\ sync' = NoSync
     \/ Start(flushed) < sync.offset /\ ~terminate /\ sync' = [sync EXCEPT !.stage = "parked"]
  /\ UNCHANGED <<device, writer, inner, deallocs, commit, flusher, promise, counters>>

NeedsFlush == device_flushed < sync.offset

SyncReturns ==
  /\ sync' = NoSync
  /\ durable' = IF durable < sync.covers THEN sync.covers ELSE durable

NoFlush ==
  /\ sync.stage = "flush" /\ ~NeedsFlush
  /\ SyncReturns
  /\ UNCHANGED <<device, writer, inner, deallocs, commit, flusher, log, past, counters>>

\* What is on the device when this part of its cache has been written out.
Over(stored, cache, part) ==
  [x \in DOMAIN stored \cup part |-> IF x \in part THEN cache[x] ELSE stored[x]]

\* The device writes out what it has been given, or fails to.
FlushDevice ==
  /\ sync.stage = "flush" /\ NeedsFlush
  /\ LET written == {b \in DOMAIN cached : b < flushed}
     IN  \/ /\ disk' = Over(disk, cached, written)
            /\ cached' = [b \in DOMAIN cached \ written |-> cached[b]]
            /\ data' = Over(data, dcached, DOMAIN dcached)
            /\ dcached' = <<>>
            /\ sync' = [sync EXCEPT !.stage = "flushed"]
         \/ sync' = NoSync /\ UNCHANGED device
  /\ UNCHANGED <<writer, inner, deallocs, commit, flusher, promise, counters>>

DidFlush ==
  /\ sync.stage = "flushed"
  /\ device_flushed' = sync.offset
  /\ needs_did_flush' = TRUE
  /\ sync' = [sync EXCEPT !.stage = "free"]
  /\ UNCHANGED <<device, writer, reset_version, discard, terminate, deallocs, commit, flusher,
                 promise, counters>>

\* Allocator::did_flush_device: ranges deallocated before the offset can be
\* used again.  Then the sync returns.
FreeRanges ==
  /\ sync.stage = "free"
  /\ deallocs' = {d \in deallocs : d.offset >= sync.offset}
  /\ SyncReturns
  /\ UNCHANGED <<device, writer, inner, commit, flusher, log, past, counters>>
-----------------------------------------------------------------------------
(***************************************************************************)
(* JournalReader and read_transactions.                                    *)
(***************************************************************************)
\* Block b follows the one before it, or is the first after a reset.
Valid(blocks, b) == b = 0 \/ (b - 1 \in DOMAIN blocks /\ Cut(blocks[b], b) = blocks[b - 1])

\* How many blocks are read before one has a bad checksum.
Readable(blocks) ==
  Min({b \in 0..Cardinality(DOMAIN blocks) : b \notin DOMAIN blocks \/ ~Valid(blocks, b)})

\* Without the last transactions, those at the offset or after it.
Truncate(transactions, offset) ==
  SubSeq(transactions, 1,
         Max({0} \cup {i \in DOMAIN transactions : transactions[i].offset < offset}))

\* Fault: the transaction being read when a reset is found is kept.
ReadRecord_KeepOpen(acc, r, offset) ==
  IF r.kind = "Version" THEN
    [acc EXCEPT !.flushed = Max({@, offset + 1})]
  ELSE IF r.kind = "Mutation" THEN
    [acc EXCEPT !.current = IF @ = <<>> THEN <<Placed(r, offset)>> ELSE @]
  ELSE IF r.kind = "Commit" THEN
    [transactions |-> acc.transactions \o acc.current, current |-> <<>>, flushed |-> acc.flushed]
  ELSE IF r.kind = "Discard" /\ (acc.current = <<>> \/ acc.current[1].offset >= r.num) THEN
    [transactions |-> Truncate(acc.transactions, r.num), current |-> <<>>, flushed |-> acc.flushed]
  ELSE IF r.kind = "DidFlushDevice" THEN
    [acc EXCEPT !.flushed = Max({@, r.num})]
  ELSE acc

\* Reads a record.  acc is what has been read: the transactions, the one that
\* lacks its Commit, if any, and the offset before which the device is known
\* to have been flushed.  A version is what comes first after a reset.
ReadRecord(acc, r, offset) ==
  IF r.kind = "Version" THEN
    [transactions |-> acc.transactions, current |-> <<>>, flushed |-> Max({acc.flushed, offset + 1})]
  ELSE IF r.kind = "Mutation" THEN
    [acc EXCEPT !.current = IF @ = <<>> THEN <<Placed(r, offset)>> ELSE @]
  ELSE IF r.kind = "Commit" THEN
    [transactions |-> acc.transactions \o acc.current, current |-> <<>>, flushed |-> acc.flushed]
  ELSE IF r.kind = "Discard" /\ (acc.current = <<>> \/ acc.current[1].offset >= r.num) THEN
    [transactions |-> Truncate(acc.transactions, r.num), current |-> <<>>, flushed |-> acc.flushed]
  ELSE IF r.kind = "DidFlushDevice" THEN
    [acc EXCEPT !.flushed = Max({@, r.num})]
  ELSE acc

\* What has been read after each number of records.
ReadTransactions(recs) ==
  LET acc[n \in 0..Len(recs)] ==
        IF n = 0 THEN [transactions |-> <<>>, current |-> <<>>, flushed |-> 0]
                 ELSE ReadRecord(acc[n - 1], recs[n], n - 1)
  IN  acc
-----------------------------------------------------------------------------
(***************************************************************************)
(* ChecksumList.  There is an entry for each range to which a transaction  *)
(* moved the file after the device is known to have been flushed.          *)
(***************************************************************************)
Unflushed(read) == {t \in Range(read.transactions) : t.offset >= read.flushed}

\* The data that the range may hold, and where it was first written.
Pushed(read, range) == {t \in Unflushed(read) : t.new = range}
EntryOffset(read, range) == Min({t.offset : t \in Pushed(read, range)})

\* Transactions that deallocate a range that has an entry; the last one counts.
Deallocations(read, range) ==
  {t.offset : t \in {t \in Unflushed(read) : t.old = range /\ t.offset >= EntryOffset(read, range)}}

\* It is to be replayed up to an offset: the range is in use there, and has lost
\* its data.
Bad(read, contents, range, to) ==
  /\ EntryOffset(read, range) < to
  /\ Deallocations(read, range) # {} => Max(Deallocations(read, range)) >= to
  /\ contents[range] \notin {t.num : t \in Pushed(read, range)}

\* The offset up to which transactions can be replayed.  The loop of the code
\* goes down from the end to the greatest offset that leaves no bad entry.
Verify(read, contents, end) ==
  LET entries == {t.new : t \in Unflushed(read)}
  IN  Max({to \in {end} \cup {EntryOffset(read, range) : range \in entries} :
             \A range \in entries : ~Bad(read, contents, range, to)})
-----------------------------------------------------------------------------
(***************************************************************************)
(* A crash, and the mount after it.                                        *)
(***************************************************************************)
\* The transactions before the offset that can be replayed are applied; the
\* writer goes on at the next block.
Replay(blocks, contents) ==
  LET k == Readable(blocks)
      end == Start(k)
      read == ReadTransactions(blocks[k - 1].recs)[end]
      to == Verify(read, contents, end)
  IN  /\ log' = Truncate(read.transactions, to)
      /\ durable' = Len(log')
      /\ past' = past \cup {log}
      /\ journal' = [recs |-> blocks[k - 1].recs, resets |-> blocks[k - 1].resets \cup {k}]
      /\ taken' = k /\ flushed' = k
      /\ device_flushed' = end /\ needs_did_flush' = FALSE /\ reset_version' = TRUE
      /\ discard' = IF to < end THEN to ELSE 0
      /\ terminate' = FALSE /\ deallocs' = {}
      /\ commit' = NoCommit /\ sync' = NoSync /\ flusher' = "ready"

\* Any part of what the device has in its cache is lost, and all in memory.
Crash ==
  /\ crashes < MaxCrashes
  /\ crashes' = crashes + 1
  /\ \E B \in SUBSET DOMAIN cached, R \in SUBSET DOMAIN dcached :
       /\ disk' = Over(disk, cached, B)
       /\ data' = Over(data, dcached, R)
       /\ Replay(Over(disk, cached, B), Over(data, dcached, R))
  /\ cached' = <<>> /\ dcached' = <<>>
  /\ UNCHANGED <<txs, syncs>>
-----------------------------------------------------------------------------
CommitStep == PreCommit \/ WriteAndApplyMutations \/ EndCommit
FlushStep == FlushTask \/ Flushed \/ FlushFails
SyncStep == AwaitFlush \/ NoFlush \/ FlushDevice \/ DidFlush \/ FreeRanges

Next == WriteData \/ CommitStep \/ FlushStep \/ Sync \/ SyncStep \/ Crash

Spec == Init /\ [][Next]_vars

\* The commit that holds the mutex, the flush task and the sync that holds its
\* mutex are polled until they end; a write to the device ends.
FairSpec ==
  /\ Spec
  /\ WF_vars(CommitStep) /\ WF_vars(FlushStep) /\ WF_vars(SyncStep)
-----------------------------------------------------------------------------
(***************************************************************************)
(* Properties.                                                             *)
(***************************************************************************)
Txs == [offset : Nat, num : 0..MaxTxs, new : Ranges, old : Ranges \cup {0}]

\* Only whole blocks are written to the device, each with all that comes before
\* it, and no block counts as written before it is taken from the buffer, or is
\* taken before it is full; a flush covers nothing that was not written.
TypeOK ==
  /\ \A b \in DOMAIN disk : b \in Nat /\ Len(disk[b].recs) = Start(b + 1)
  /\ \A b \in DOMAIN cached : b \in 0..(taken - 1) /\ Len(cached[b].recs) = Start(b + 1)
  /\ data \in [Ranges -> NotWritten..MaxTxs]
  /\ DOMAIN dcached \subseteq Ranges /\ \A r \in DOMAIN dcached : dcached[r] \in 1..MaxTxs
  /\ taken \in Nat /\ Start(taken) <= Offset /\ flushed \in 0..taken
  /\ device_flushed \in 0..Start(flushed) /\ discard \in 0..device_flushed
  /\ {needs_did_flush, reset_version, terminate} \subseteq BOOLEAN
  /\ deallocs \subseteq [offset : Nat, range : Ranges]
  /\ commit.stage \in {"idle", "written", "prepared", "applied"}
  /\ sync.stage \in {"idle", "wait", "parked", "flush", "flushed", "free"}
  /\ flusher \in {"ready", "parked", "writing", "ended"}
  /\ log \in Seq(Txs) /\ durable \in 1..Len(log)
  /\ txs \in 0..MaxTxs /\ syncs \in 0..MaxSyncs /\ crashes \in 0..MaxCrashes

\* The file's range holds what its last transaction wrote there: after a crash,
\* no transaction is replayed whose data was lost, and none of those replayed
\* lost its data to a range used again.
Intact ==
  /\ log # <<>>
  /\ (IF Current \in DOMAIN dcached THEN dcached[Current] ELSE data[Current]) = Last(log).num

\* The journal keeps the promise of DurableLog: what was committed before a
\* sync that returned is there after any crash, and what is found after one is
\* the beginning of a log that once was: no transaction comes without those
\* that it builds on, or in part.
Abstract == INSTANCE DurableLog
Implements == Abstract!Spec

\* Every sync ends: the task writes what the sync waits for, or has failed and
\* says so.
SyncEnds == sync.stage # "idle" ~> sync.stage = "idle"

=============================================================================
