-------------------------- MODULE DurableExchange --------------------------
(***************************************************************************)
(* The durable exchange: ExchangeSimulator's command queue over its store  *)
(* (src/cpp/src/sim/exchange_simulator.cpp, durable_store.cpp).            *)
(*                                                                         *)
(* A command is journalled as Prepared, executed, journalled as Committed  *)
(* with its event batch, and only then published.  A failed write poisons  *)
(* the exchange; a crash loses its memory.  Recovery reads the journal and *)
(* the newest snapshot, replays, compares every regenerated batch with the *)
(* journal and finishes an interrupted command.                            *)
(*                                                                         *)
(* The markets are a deterministic machine whose state is the sequence of  *)
(* commands it has executed; of a batch of events the model keeps where it *)
(* starts in the event sequence and the command it answers.                *)
(***************************************************************************)
EXTENDS Integers, Sequences, SequencesExt, FiniteSetsExt

CONSTANTS
  Times,          \* timestamps, positive numbers
  BatchSizes,     \* how many events a command can emit
  TornKinds,      \* the fragments an interrupted write can leave, see Torn
  EventCapacity,  \* event sequence numbers run out after this one
  MaxIngress,     \* bound of the model on commands
  MaxFrames,      \* bound of the model on the journal
  None

VARIABLES
  genesis,      \* the journal's genesis frame: "absent", "torn" or "written"
  journal,      \* the frames after it
  snapshot,     \* exchange.snapshot, or None
  mode,         \* "down", "running" or "poisoned" (poisoned_)
  queue,        \* pending_commands_
  executed,     \* the commands the markets have executed since genesis
  now,          \* current_time_, 0 before the first command
  nextIngress,  \* next_ingress_sequence_
  published     \* the size of command_journal_: commands this process published

disk == <<genesis, journal, snapshot>>
memory == <<queue, executed, now, nextIngress, published>>
vars == <<disk, mode, memory>>

Command == [at : Times, ingress : 1..MaxIngress, size : BatchSizes]

ASSUME DurableAssumption ==
  /\ Times \subseteq Nat \ {0}
  /\ BatchSizes \subseteq Nat \ {0}
  /\ TornKinds \subseteq {"short", "long"}
  /\ {EventCapacity, MaxIngress, MaxFrames} \subseteq Nat
  /\ None \notin Command

\* command_less
Less(c, d) == c.at < d.at \/ (c.at = d.at /\ c.ingress < d.ingress)
\* std::is_sorted
Sorted(commands) ==
  \A k \in 1..(Len(commands) - 1) : ~Less(commands[k + 1], commands[k])

-----------------------------------------------------------------------------
(***************************************************************************)
(* The markets.                                                            *)
(***************************************************************************)
\* The i-th event of the k-th command.
EventsOf(commands) == UNION {{k} \X (1..commands[k].size) : k \in DOMAIN commands}
EventCount(commands) == Cardinality(EventsOf(commands))

\* ensure_event_capacity: the one way process can fail.
CanProcess(commands, c) == EventCount(commands) + c.size <= EventCapacity

Batch(commands, c) == [first |-> EventCount(commands) + 1, command |-> c]

-----------------------------------------------------------------------------
(***************************************************************************)
(* The journal.  A write that fails, or that a crash interrupts, leaves    *)
(* nothing, the whole frame, or a fragment of it.  Whatever is appended    *)
(* after a "short" fragment completes the length its header announces, and *)
(* the checksum fails; a "long" fragment announces more bytes than will    *)
(* ever follow, since the cut fell inside the length itself.               *)
(***************************************************************************)
Prepared(c) == [type |-> "prepared", command |-> c]
Committed(c, batch) == [type |-> "committed", command |-> c, batch |-> batch]
Torn(kind) == [type |-> "torn", kind |-> kind]

Residues(frame) == {<<>>, <<frame>>} \union {<<Torn(kind)>> : kind \in TornKinds}

Tears(frames) == {k \in DOMAIN frames : frames[k].type = "torn"}
FirstTorn(frames) == IF Tears(frames) = {} THEN 0 ELSE Min(Tears(frames))

\* The frames open() reads before it stops at a fragment it takes for the tail.
Readable(frames) ==
  IF FirstTorn(frames) = 0 THEN frames ELSE SubSeq(frames, 1, FirstTorn(frames) - 1)

\* open() accepts: no fragment was completed by a later frame, prepared and
\* committed frames alternate and agree.
ReadsClean(frames) ==
  /\ LET t == FirstTorn(frames)
     IN t # 0 => t = Len(frames) \/ frames[t].kind = "long"
  /\ \A k \in DOMAIN Readable(frames) :
       IF k % 2 = 1 THEN frames[k].type = "prepared"
       ELSE frames[k].type = "committed" /\ frames[k].command = frames[k - 1].command

\* The committed frames, every second one.
Commits(frames) == [k \in 1..(Len(Readable(frames)) \div 2) |-> Readable(frames)[2 * k]]
CommandsOf(frames) == [k \in DOMAIN frames |-> frames[k].command]
\* The command that is prepared and not committed, as a sequence.
Interrupted(frames) ==
  LET r == Readable(frames)
  IN IF r # <<>> /\ Last(r).type = "prepared" THEN <<Last(r).command>> ELSE <<>>

-----------------------------------------------------------------------------
(***************************************************************************)
(* Running.                                                                *)
(***************************************************************************)
\* create_durable: refuses an existing journal file.
CreateDurable ==
  /\ genesis = "absent"
  /\ \/ genesis' = "written" /\ mode' = "running"
     \/ genesis' \in {"torn", "written"} /\ mode' = "down"   \* the write failed
  /\ UNCHANGED <<journal, snapshot, memory>>

\* Where std::lower_bound inserts a command into an ordered queue.
Inserted(q, c) == InsertAt(q, 1 + Cardinality({k \in DOMAIN q : Less(q[k], c)}), c)

Enqueue(at, size) ==
  LET c == [at |-> at, ingress |-> nextIngress, size |-> size]
  IN /\ mode = "running"
     /\ at >= now
     /\ nextIngress <= MaxIngress
     /\ nextIngress' = nextIngress + 1
     /\ queue' = Inserted(queue, c)
     /\ UNCHANGED <<disk, mode, executed, now, published>>

\* run_next, with the front of the queue: every way it can end.
PrepareFails(c) ==
  /\ mode' = "poisoned"
  /\ \E residue \in Residues(Prepared(c)) : journal' = journal \o residue
  /\ UNCHANGED <<genesis, snapshot, memory>>

ProcessFails(c) ==
  /\ ~CanProcess(executed, c)
  /\ mode' = "poisoned"
  /\ journal' = Append(journal, Prepared(c))
  /\ queue' = Tail(queue)
  /\ now' = c.at
  /\ UNCHANGED <<genesis, snapshot, executed, nextIngress, published>>

Processed(c) ==
  /\ CanProcess(executed, c)
  /\ queue' = Tail(queue)
  /\ now' = c.at
  /\ executed' = Append(executed, c)
  /\ UNCHANGED <<genesis, snapshot, nextIngress>>

CommitFails(c) ==
  /\ Processed(c)
  /\ mode' = "poisoned"
  /\ \E residue \in Residues(Committed(c, Batch(executed, c))) :
       journal' = Append(journal, Prepared(c)) \o residue
  /\ UNCHANGED published

CommitIgnoresFailure(c) ==   \* mutant: a failed commit publishes and runs on
  /\ Processed(c)
  /\ \E residue \in Residues(Committed(c, Batch(executed, c))) :
       journal' = Append(journal, Prepared(c)) \o residue
  /\ published' = published + 1
  /\ UNCHANGED mode

Commit(c) ==
  /\ Processed(c)
  /\ journal' = journal \o <<Prepared(c), Committed(c, Batch(executed, c))>>
  /\ published' = published + 1
  /\ UNCHANGED mode

RunNext ==
  /\ mode = "running"
  /\ queue # <<>>
  /\ Len(journal) + 2 <= MaxFrames
  /\ LET c == Head(queue)
     IN PrepareFails(c) \/ ProcessFails(c) \/ CommitFails(c) \/ Commit(c)

\* checkpoint(), with the count save_checkpoint records beside it: the length
\* of command_journal_, which starts empty in every process.
Capture ==
  [count |-> published, executed |-> executed, now |-> now, nextIngress |-> nextIngress,
   pending |-> queue]

PersistWithQueue ==   \* mutant: a checkpoint may be taken while commands are queued
  /\ mode = "running"
  /\ \/ snapshot' = Capture /\ UNCHANGED mode
     \/ snapshot' \in {snapshot, Capture} /\ mode' = "poisoned"
  /\ UNCHANGED <<genesis, journal, memory>>

\* persist_checkpoint: write a temporary file, rename it, sync the directory.
PersistCheckpoint ==
  /\ mode = "running"
  /\ queue = <<>>
  /\ \/ snapshot' = Capture /\ UNCHANGED mode
     \/ snapshot' \in {snapshot, Capture} /\ mode' = "poisoned"
  /\ UNCHANGED <<genesis, journal, memory>>

\* The process ends and its memory is gone.
Crash ==
  /\ mode # "down"
  /\ mode' = "down"
  /\ queue' = <<>> /\ executed' = <<>> /\ now' = 0 /\ nextIngress' = 1 /\ published' = 0
  /\ UNCHANGED disk

-----------------------------------------------------------------------------
(***************************************************************************)
(* recover_durable.                                                        *)
(***************************************************************************)
ReplayStart == IF snapshot = None THEN 0 ELSE snapshot.count
Base == IF snapshot = None THEN <<>> ELSE snapshot.executed

\* The commands to replay: those committed after the snapshot, then the
\* interrupted one.
ReplayList ==
  SubSeq(CommandsOf(Commits(journal)), ReplayStart + 1, Len(Commits(journal))) \o Interrupted(journal)

\* What the markets have executed before the k-th replayed command.
ReplayedBefore(k) == Base \o SubSeq(ReplayList, 1, k - 1)

RecoveryUnverified ==   \* mutant: regenerated batches are not compared with the journal
  /\ genesis = "written"
  /\ ReadsClean(journal)
  /\ ReplayStart <= Len(Commits(journal))
  /\ snapshot # None => snapshot.pending = <<>>
  /\ Sorted(ReplayList)
  /\ \A k \in DOMAIN ReplayList : CanProcess(ReplayedBefore(k), ReplayList[k])

RecoveryAccepts ==
  /\ genesis = "written"
  /\ ReadsClean(journal)
  /\ ReplayStart <= Len(Commits(journal))
  /\ snapshot # None => snapshot.pending = <<>>
  /\ Sorted(ReplayList)
  /\ \A k \in DOMAIN ReplayList :
       /\ CanProcess(ReplayedBefore(k), ReplayList[k])
       /\ ReplayStart + k <= Len(Commits(journal)) =>
            Batch(ReplayedBefore(k), ReplayList[k]) = Commits(journal)[ReplayStart + k].batch

\* The commit frame recovery writes for the interrupted command.
Finishing ==
  [k \in DOMAIN Interrupted(journal) |->
     Committed(Interrupted(journal)[k], Batch(ReplayedBefore(Len(ReplayList)), Interrupted(journal)[k]))]

RecoverForgetsIngress ==   \* mutant: ingress numbers restart after recovery
  /\ mode = "down"
  /\ RecoveryAccepts
  /\ Len(journal \o Finishing) <= MaxFrames
  /\ mode' = "running"
  /\ journal' = journal \o Finishing
  /\ queue' = <<>>
  /\ executed' = Base \o ReplayList
  /\ now' = IF ReplayList # <<>> THEN Last(ReplayList).at ELSE IF snapshot = None THEN 0 ELSE snapshot.now
  /\ nextIngress' = IF snapshot = None THEN 1 ELSE snapshot.nextIngress
  /\ published' = Len(ReplayList)
  /\ UNCHANGED <<genesis, snapshot>>

Recover ==
  /\ mode = "down"
  /\ RecoveryAccepts
  /\ Len(journal \o Finishing) <= MaxFrames
  /\ mode' = "running"
  /\ journal' = journal \o Finishing
  /\ queue' = <<>>
  /\ executed' = Base \o ReplayList
  /\ now' = IF ReplayList # <<>> THEN Last(ReplayList).at ELSE IF snapshot = None THEN 0 ELSE snapshot.now
  /\ nextIngress' = Max({IF snapshot = None THEN 1 ELSE snapshot.nextIngress}
                        \union {ReplayList[k].ingress + 1 : k \in DOMAIN ReplayList})
  /\ published' = Len(ReplayList)
  /\ UNCHANGED <<genesis, snapshot>>

\* Recovery fails, or crashes, while it writes that frame.
RecoverCommitFails ==
  /\ mode = "down"
  /\ RecoveryAccepts
  /\ Finishing # <<>>
  /\ Len(journal) < MaxFrames
  /\ \E residue \in Residues(Finishing[1]) : journal' = journal \o residue
  /\ UNCHANGED <<genesis, snapshot, mode, memory>>

-----------------------------------------------------------------------------
Init ==
  /\ genesis = "absent" /\ journal = <<>> /\ snapshot = None
  /\ mode = "down"
  /\ queue = <<>> /\ executed = <<>> /\ now = 0 /\ nextIngress = 1 /\ published = 0

Next ==
  \/ CreateDurable
  \/ \E at \in Times, size \in BatchSizes : Enqueue(at, size)
  \/ RunNext
  \/ PersistCheckpoint
  \/ Crash
  \/ Recover
  \/ RecoverCommitFails

Spec == Init /\ [][Next]_vars

-----------------------------------------------------------------------------
(***************************************************************************)
(* Properties.                                                             *)
(***************************************************************************)
\* A fragment, if there is one, is the tail of the journal.
Intact == FirstTorn(journal) \in {0, Len(journal)}
\* The snapshot counts the commits it contains.
HonestSnapshot == snapshot # None => snapshot.count = Len(snapshot.executed)

Ledger == CommandsOf(Commits(journal))

Frame(f) ==
  \/ f.type = "prepared" /\ f.command \in Command
  \/ f.type = "committed" /\ f.command \in Command /\ f.batch.command = f.command
  \/ f.type = "torn" /\ f.kind \in TornKinds

\* Memory and disk hold well-formed values, and only a running exchange can
\* have queued commands ahead of its clock.
TypeOK ==
  /\ genesis \in {"absent", "torn", "written"}
  /\ \A k \in DOMAIN journal : Frame(journal[k])
  /\ snapshot # None => snapshot.count \in Nat /\ \A k \in DOMAIN snapshot.executed : snapshot.executed[k] \in Command
  /\ mode \in {"down", "running", "poisoned"}
  /\ \A k \in DOMAIN queue : queue[k] \in Command /\ queue[k].at >= now
  /\ Sorted(queue)
  /\ now \in Times \union {0} /\ nextIngress \in 1..(MaxIngress + 1) /\ published \in Nat

\* A running exchange has executed exactly the commands its journal commits:
\* nothing is published that a crash could undo, and no command is in doubt
\* while new ones run.
PublishedIsDurable ==
  mode = "running" /\ Intact =>
    /\ executed = Ledger
    /\ Interrupted(journal) = <<>>
    /\ published <= Len(Ledger)

\* The journal lists commands in scheduling order and under distinct ingress
\* numbers, across every restart: run_next takes them from a sorted queue, but
\* recovery starts a new clock and a new counter, and refuses a journal that
\* is not sorted.
JournalOrdered ==
  LET all == Ledger \o Interrupted(journal)
  IN \A i, j \in DOMAIN all : i < j => Less(all[i], all[j]) /\ all[i].ingress # all[j].ingress

\* The snapshot never knows more than the journal: recovery can restore it and
\* find every later commit.
SnapshotBehindJournal ==
  snapshot # None /\ Intact =>
    /\ IsPrefix(snapshot.executed, Ledger)
    /\ snapshot.count <= Len(snapshot.executed)
    /\ snapshot.pending = <<>>

\* The files as one invariant: well-formed, ordered over every restart, and the
\* snapshot behind the journal.
JournalIsSound == TypeOK /\ JournalOrdered /\ SnapshotBehindJournal

\* Whatever recovery accepts, it rebuilds exactly: every committed command
\* once, then the interrupted one, even from a snapshot that miscounts.
RecoveryIsExact ==
  RecoveryAccepts /\ Intact => Base \o ReplayList = Ledger \o Interrupted(journal)

\* Of all the checks of recovery, three alone can refuse what a crash left: a
\* fragment in the middle of the journal, a snapshot that miscounts, and an
\* interrupted command that exhausts the event numbers.
RecoveryRefusals ==
  genesis = "written" /\ ~RecoveryAccepts =>
    \/ ~Intact
    \/ ~HonestSnapshot
    \/ Interrupted(journal) # <<>> /\ ~CanProcess(Ledger, Interrupted(journal)[1])

\* A journal whose genesis is durable can always be recovered ("A poisoned
\* exchange must be recovered, not continued", "Recovery restores the newest
\* valid checkpoint, replays later committed commands ... then finishes an
\* interrupted prepared command if one exists", ADR-007).
RecoverableAfterCrash == mode = "down" /\ genesis = "written" => RecoveryAccepts

\* The abstract ledger this module implements while no write leaves a fragment.
Promise == INSTANCE CommandLedger WITH
  Commands <- Command,
  service <- IF genesis = "absent" THEN "absent" ELSE IF mode = "running" THEN "running" ELSE "stopped",
  ledger <- Ledger,
  inDoubt <- IF Interrupted(journal) = <<>> THEN None ELSE Interrupted(journal)[1],
  state <- IF mode = "running" THEN executed ELSE <<>>

\* Executed commands are never lost, reordered or executed twice, and at most
\* one is in doubt, which recovery finishes before the exchange runs again.
ImplementsLedger == Promise!Spec

=============================================================================
