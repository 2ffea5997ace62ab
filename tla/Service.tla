------------------------------ MODULE Service ------------------------------
(***************************************************************************)
(* gossip.Service: connecting an event under engineMu, the blocks that the *)
(* consensus engine decides while it processes the event, the block        *)
(* function that runs on the parallel worker, epoch sealing, the flush of  *)
(* the caches to disk and the loss of everything unflushed in a crash.     *)
(*                                                                         *)
(* Two threads share the store.  The CONNECTOR is whichever goroutine      *)
(* holds engineMu (the DAG processor's inserter or the emitter); pc is its *)
(* place in processEvent.  The WORKER is the single goroutine of           *)
(* blockProcTasks; task is the block function queued on it, and            *)
(* task # NoTask is a non-zero blockProcWg.                                *)
(***************************************************************************)
EXTENDS Naturals, FiniteSets

CONSTANTS
    Event,          \* ids of the events the network may deliver; ids sort as
                    \* their hashes do, by epoch, Lamport time and tail
    Ev,             \* Ev[e]: the fields of event e that the code reads
    GasPowerUsed(_),\* total GasPowerUsed of a set of events
    Validator,      \* validator ids
    Sender,         \* transaction senders
    NoSender,       \* sender of an event without transactions
    Me,             \* config.Validator.ID of the local emitter
    GenesisValidators,
    ValidatorSets,  \* the validator sets that driver logs may lead to
    MaxEpochGas, MaxEpochDuration, MaxEmptyBlockSkipPeriod, MaxBlockGas,
    MaxAdvanceEpochs,
    MaxFrames       \* bound: frames the engine decides for one event

EventFields == [epoch: Nat, creator: Validator, lamport: Nat, parents: SUBSET Event,
                sender: Sender \cup {NoSender}, time: Nat]

\* Event ids are positive, 0 being the id of the genesis block; parents
\* precede their children and belong to the same epoch.
ASSUME EventAssumption ==
    /\ Event \subseteq Nat \ {0} /\ IsFiniteSet(Event)
    /\ Ev \in [Event -> EventFields]
    /\ \A e \in Event : \A p \in Ev[e].parents : p < e /\ Ev[p].epoch = Ev[e].epoch
    /\ NoSender \notin Sender
    /\ \A e \in Event : Ev[e].lamport > 0

ASSUME GasAssumption ==
    /\ \A S \in SUBSET Event : GasPowerUsed(S) \in Nat
    /\ \A S, T \in SUBSET Event : S \cap T = {} =>
          GasPowerUsed(S \cup T) = GasPowerUsed(S) + GasPowerUsed(T)

ASSUME RulesAssumption ==
    /\ MaxEpochGas \in Nat /\ MaxEpochDuration \in Nat
    /\ MaxEmptyBlockSkipPeriod \in Nat /\ MaxBlockGas \in Nat
    /\ MaxAdvanceEpochs \in Nat /\ MaxFrames \in Nat
    /\ ValidatorSets \subseteq SUBSET Validator
    /\ GenesisValidators \subseteq Validator

VARIABLES
    \* the connector
    pc,         \* "idle", "saved", "block", "decided", "sealed", "commit", "stopping", "down"
    cur,        \* the event being connected, 0 when none
    added,      \* the DAG index entries of dagIndexer that are not flushed
    oldEpoch,   \* the epoch at the start of processEvent
    frames,     \* frames decided for the current event
    blk,        \* what BeginBlock captured for the block callbacks
    \* the worker
    task,       \* the block function, NoTask when blockProcWg is zero
    \* the store and the engine
    bs, es,     \* BlockState and EpochState (cached by the store)
    events,     \* the Events table
    blocks,     \* the Blocks table: index -> block
    blockIndex, \* the BlockHashes table: Atropos -> index
    epochStore, \* the tables of the current epoch's database
    lamport,    \* HighestLamport
    confirmed,  \* the engine's confirmed events
    reports,    \* history: <<epoch, cheater>> pairs the engine reported
    spilled,    \* history: events dropped by spillBlockEvents
    \* consumers of the epoch change
    em,         \* the emitter's bookkeeping
    readers,    \* epochs for which the event checkers hold validation data
    warm,       \* history: the emitter has seen the whole current epoch
    disk        \* what survives a crash: the last Commit

connVars  == <<pc, cur, added, oldEpoch, frames, blk>>
storeVars == <<bs, es, events, blocks, blockIndex, epochStore, lamport, confirmed, reports, spilled>>
epochVars == <<em, readers, warm>>
vars == <<connVars, task, storeVars, epochVars, disk>>

NoTask == [st |-> "none"]
NoBlk  == [atropos |-> 0]

-----------------------------------------------------------------------------
(* Events and their ancestry *)

HasTxs(e) == Ev[e].sender # NoSender

Ancestors[e \in Event] == {e} \cup UNION {Ancestors[p] : p \in Ev[e].parents}

EventsOf(epoch) == {e \in events : Ev[e].epoch = epoch}

\* Connected events of the current epoch that no block has confirmed.
Unconfirmed == {e \in EventsOf(es.Epoch) : e \notin confirmed}

\* Every transaction the driver contract runs may emit logs; the listener
\* turns them into new weights of the next validators and epochs to advance.
DriverLog == [advance: {0, 1}, next: ValidatorSets]

OnNewLog(b, l) ==
    [b EXCEPT !.AdvanceEpochs = IF @ + l.advance > MaxAdvanceEpochs
                                THEN MaxAdvanceEpochs ELSE @ + l.advance,
              !.NextValidators = l.next]

-----------------------------------------------------------------------------
(* The emitter's hooks *)

EmIsValidator(m) == Me \in m.validators

OnEventConnected(m, e) ==
    IF ~EmIsValidator(m) THEN m
    ELSE [m EXCEPT !.pendingGas = @ + GasPowerUsed({e}),
                   !.originated = [s \in Sender |-> @[s] + IF s = Ev[e].sender THEN 1 ELSE 0]]

\* Mutant of SubSat: the counter wraps below zero.
SubSatUnderflow(a, b) == a - b

SubSat(a, b) == IF a > b THEN a - b ELSE 0

\* Mutant of OnEventConfirmed: only events with transactions are subtracted.
OnEventConfirmedTxsOnly(m, S) ==
    LET T == {e \in S : HasTxs(e)}
    IN  IF ~EmIsValidator(m) THEN m
        ELSE [m EXCEPT !.pendingGas = SubSat(@, GasPowerUsed(T)),
                       !.originated = [s \in Sender |->
                            SubSat(@[s], Cardinality({e \in T : Ev[e].sender = s}))]]

\* OnEventConfirmed for each event of S: saturating subtraction does not
\* depend on the order of the events.
OnEventConfirmed(m, S) ==
    IF ~EmIsValidator(m) THEN m
    ELSE [m EXCEPT !.pendingGas = SubSat(@, GasPowerUsed(S)),
                   !.originated = [s \in Sender |->
                        SubSat(@[s], Cardinality({e \in S : Ev[e].sender = s}))]]

NewEmitter(validators, epoch) ==
    [validators |-> validators, epoch |-> epoch,
     pendingGas |-> 0, originated |-> [s \in Sender |-> 0]]

\* Mutant of OnNewEpoch: the early return comes before the assignment.
OnNewEpochReturnsEarly(m, validators, epoch) ==
    IF Me \in validators THEN NewEmitter(validators, epoch) ELSE m

\* The counters are cleared only when the new epoch has the node as validator.
OnNewEpoch(m, validators, epoch) ==
    IF Me \in validators THEN NewEmitter(validators, epoch)
    ELSE [m EXCEPT !.validators = validators, !.epoch = epoch]

-----------------------------------------------------------------------------
(* Block processing *)

\* Mutant of mergeCheaters: only the cheaters of the current block count.
mergeCheatersForgets(a, b) == b

mergeCheaters(a, b) == a \cup b

\* The events of Atropos a's past that no earlier block confirmed: the ones
\* for which the engine calls ApplyEvent.
Applied(a) == {e \in events \ confirmed : e \in Ancestors[a]}

\* Mutant of BlockTime: no correction when the Atropos time is not later.
BlockTimeUncorrected(last, a, conf) == IF a \in conf THEN Ev[a].time ELSE last + 1

BlockTime(last, a, conf) ==
    LET atroposTime == IF a \in conf THEN Ev[a].time ELSE last + 1
    IN  IF atroposTime <= last THEN last + 1 ELSE atroposTime

SkipBlock(last, a, conf, cheaters) ==
    LET emptyBlock == cheaters = {} /\ ~\E e \in conf : HasTxs(e)
    IN  \/ a \notin conf
        \/ emptyBlock /\ BlockTime(last, a, conf) < last + MaxEmptyBlockSkipPeriod

ProcessConfirmedEvents(b, conf) == [b EXCEPT !.EpochGas = @ + GasPowerUsed(conf)]

EpochSealing(b, s, time) ==
    \/ b.EpochGas >= MaxEpochGas
    \/ time - s.EpochStart >= MaxEpochDuration
    \/ b.AdvanceEpochs > 0
    \/ b.EpochCheaters # {}

\* The cheaters for which a DeactivateValidator transaction is built.
ToDeactivate(b) == b.EpochCheaters \ b.Cheater

\* Pre-internal transactions: flag and deactivate the cheaters, then run.
PreInternalTxs(b, sealing, l) ==
    LET flagged == [b EXCEPT !.Cheater = @ \cup b.EpochCheaters]
    IN  IF sealing \/ ToDeactivate(b) # {} THEN OnNewLog(flagged, l) ELSE flagged

SealBlockState(b) ==
    [LastBlock |-> b.LastBlock, EpochGas |-> 0, EpochCheaters |-> {},
     AdvanceEpochs |-> SubSat(b.AdvanceEpochs, 1),
     Cheater |-> b.Cheater \cap b.NextValidators, NextValidators |-> b.NextValidators]

SealEpochState(s, b, time) ==
    [Epoch |-> s.Epoch + 1, EpochStart |-> time, Validators |-> b.NextValidators]

\* Keep the latest events whose gas power fits in MaxBlockGas.
spillBlockEvents(S) == {e \in S : GasPowerUsed({f \in S : f >= e}) <= MaxBlockGas}

\* The block function, as EndBlock leaves it: its block context, the states
\* it continues from and what will be stored.
BlockFn(a, time, b, s, txEvents, deact, sealing) ==
    [st |-> "run", idx |-> b.LastBlock.Idx + 1, time |-> time, atropos |-> a,
     bs |-> b, es |-> s, events |-> txEvents, deactivated |-> deact, sealing |-> sealing]

BlockOf(t) == [Time |-> t.time, Atropos |-> t.atropos,
               Events |-> spillBlockEvents(t.events), Deactivated |-> t.deactivated]

\* Mutant of SetBlock: the block shares its list of internal transactions with
\* the block before it.
SetBlockAliased(t) ==
    /\ blocks' = [i \in DOMAIN blocks \cup {t.idx} |->
                    IF i = t.idx THEN BlockOf(t)
                    ELSE IF i + 1 = t.idx
                         THEN [blocks[i] EXCEPT !.Deactivated = @ \cup t.deactivated]
                         ELSE blocks[i]]
    /\ blockIndex' = [a \in DOMAIN blockIndex \cup {t.atropos} |->
                        IF a = t.atropos THEN t.idx ELSE blockIndex[a]]
    /\ spilled' = spilled \cup (t.events \ spillBlockEvents(t.events))

SetBlock(t) ==
    /\ blocks' = [i \in DOMAIN blocks \cup {t.idx} |-> IF i = t.idx THEN BlockOf(t) ELSE blocks[i]]
    /\ blockIndex' = [a \in DOMAIN blockIndex \cup {t.atropos} |->
                        IF a = t.atropos THEN t.idx ELSE blockIndex[a]]
    /\ spilled' = spilled \cup (t.events \ spillBlockEvents(t.events))

\* The block state that the block function saves at its end: the listener's
\* state after the transactions ran, with the block as the last one.
FinalBlockState(t, l) ==
    LET ran == t.sealing \/ spillBlockEvents(t.events) # {}
    IN  [(IF ran THEN OnNewLog(t.bs, l) ELSE t.bs) EXCEPT
            !.LastBlock = [Idx |-> t.idx, Time |-> t.time]]

-----------------------------------------------------------------------------
(* Disk *)

\* Commit flushes the caches and then every table in one step: the databases
\* share one flush id (external: flushable.SyncedPool).
Snapshot ==
    [bs |-> bs, es |-> es, events |-> events, blocks |-> blocks, blockIndex |-> blockIndex,
     epochStore |-> epochStore, lamport |-> lamport, confirmed |-> confirmed,
     reports |-> reports, spilled |-> spilled]

NewEpochStore(epoch) == [epoch |-> epoch, heads |-> {}, lasts |-> [v \in Validator |-> 0], index |-> {}]

Init ==
    /\ pc = "idle" /\ cur = 0 /\ added = {} /\ oldEpoch = 1 /\ frames = 0 /\ blk = NoBlk
    /\ task = NoTask
    /\ bs = [LastBlock |-> [Idx |-> 0, Time |-> 0], EpochGas |-> 0, EpochCheaters |-> {},
             Cheater |-> {}, AdvanceEpochs |-> 0, NextValidators |-> GenesisValidators]
    /\ es = [Epoch |-> 1, EpochStart |-> 0, Validators |-> GenesisValidators]
    /\ events = {} /\ confirmed = {} /\ lamport = 0 /\ reports = {} /\ spilled = {}
    /\ blocks = [i \in {0} |-> [Time |-> 0, Atropos |-> 0, Events |-> {}, Deactivated |-> {}]]
    /\ blockIndex = [a \in {0} |-> 0]
    /\ epochStore = NewEpochStore(1)
    /\ em = NewEmitter(GenesisValidators, 1)
    /\ readers = 1 /\ warm = TRUE
    /\ disk = Snapshot

-----------------------------------------------------------------------------
(* The connector *)

\* processEvent up to engine.Process: the checks under the mutex, SetEvent and
\* dagIndexer.Add.  An event that fails the checks changes nothing.
ProcessEvent(e) ==
    /\ pc = "idle"
    /\ e \notin events
    /\ Ev[e].epoch = es.Epoch /\ Ev[e].creator \in es.Validators
    /\ Ev[e].parents \subseteq events
    /\ events' = events \cup {e}
    /\ added' = added \cup {e}
    /\ cur' = e /\ oldEpoch' = es.Epoch /\ frames' = 0
    /\ pc' = "saved"
    /\ UNCHANGED <<blk, task, bs, es, blocks, blockIndex, epochStore, lamport, confirmed,
                   reports, spilled, epochVars, disk>>

\* Mutant of ProcessEventFails: the unflushed index entries stay.
ProcessEventFailsKeepsIndex ==
    /\ pc = "saved"
    /\ events' = events \ {cur}
    /\ cur' = 0 /\ pc' = "idle"
    /\ UNCHANGED <<added, oldEpoch, frames, blk, task, bs, es, blocks, blockIndex, epochStore,
                   lamport, confirmed, reports, spilled, epochVars, disk>>

\* Adding to the index, the median time or the engine's frame check failed:
\* the event is deleted and the unflushed index entries are dropped.
ProcessEventFails ==
    /\ pc = "saved"
    /\ events' = events \ {cur}
    /\ added' = {}
    /\ cur' = 0 /\ pc' = "idle"
    /\ UNCHANGED <<oldEpoch, frames, blk, task, bs, es, blocks, blockIndex, epochStore, lamport,
                   confirmed, reports, spilled, epochVars, disk>>

\* The engine decided a frame: it elected Atropos a, whose past reveals
\* cheaters.  BeginBlock waits for the worker and copies the states.
BeginBlock(a, cheaters) ==
    /\ pc \in {"saved", "decided"} /\ frames < MaxFrames
    /\ task = NoTask
    /\ a \in EventsOf(es.Epoch) \ {cur} /\ cheaters \subseteq es.Validators
    /\ blk' = [atropos |-> a, cheaters |-> cheaters, es |-> es,
               bs |-> [bs EXCEPT !.EpochCheaters = mergeCheaters(@, cheaters)]]
    /\ reports' = reports \cup ({es.Epoch} \X cheaters)
    /\ frames' = frames + 1
    /\ pc' = "block"
    /\ UNCHANGED <<cur, added, oldEpoch, task, bs, es, events, blocks, blockIndex, epochStore,
                   lamport, confirmed, spilled, epochVars, disk>>

\* ApplyEvent for every confirmed event, then EndBlock of a skipped block.
EndBlockSkipped ==
    LET conf == Applied(blk.atropos)
        last == blk.bs.LastBlock.Time
    IN  /\ pc = "block"
        /\ SkipBlock(last, blk.atropos, conf, blk.cheaters)
        /\ bs' = ProcessConfirmedEvents(blk.bs, conf)
        /\ es' = blk.es
        /\ confirmed' = confirmed \cup conf
        /\ em' = OnEventConfirmed(em, conf)
        /\ pc' = "decided" /\ blk' = NoBlk
        /\ UNCHANGED <<cur, added, oldEpoch, frames, task, events, blocks, blockIndex, epochStore,
                       lamport, reports, spilled, readers, warm, disk>>

\* ApplyEvent for every confirmed event, then EndBlock of a block that is kept.
\* A block with transactions goes to the worker; another one is stored at once.
EndBlock(pre, post) ==
    LET conf     == Applied(blk.atropos)
        last     == blk.bs.LastBlock.Time
        time     == BlockTime(last, blk.atropos, conf)
        b0       == ProcessConfirmedEvents(blk.bs, conf)
        sealing  == EpochSealing(b0, blk.es, time)
        b1       == PreInternalTxs(b0, sealing, pre)
        b2       == IF sealing THEN SealBlockState(b1) ELSE b1
        s2       == IF sealing THEN SealEpochState(blk.es, b1, time) ELSE blk.es
        txEvents == {e \in conf : HasTxs(e)}
        t        == BlockFn(blk.atropos, time, b2, s2, txEvents, ToDeactivate(b0), sealing)
    IN  /\ pc = "block"
        /\ ~SkipBlock(last, blk.atropos, conf, blk.cheaters)
        /\ confirmed' = confirmed \cup conf
        /\ em' = OnEventConfirmed(em, conf)
        /\ pc' = IF sealing THEN "sealed" ELSE "decided"
        /\ blk' = NoBlk
        /\ \/ /\ txEvents # {}
              /\ task' = t
              /\ IF sealing THEN bs' = b2 /\ es' = s2 ELSE UNCHANGED <<bs, es>>
              /\ UNCHANGED <<blocks, blockIndex, spilled>>
           \/ /\ txEvents = {}
              /\ SetBlock(t)
              /\ bs' = FinalBlockState(t, post) /\ es' = s2
              /\ UNCHANGED task
        /\ UNCHANGED <<cur, added, oldEpoch, frames, events, epochStore, lamport, reports,
                       readers, warm, disk>>

\* The engine has no more frames to decide: the rest of processEvent.  When the
\* epoch changed, every holder of per-epoch data moves to the new epoch.  The
\* subscribers of feed.newEpoch are taken to receive, so that Send returns.
FinishEvent ==
    LET e   == cur
        es1 == [epochStore EXCEPT !.index = @ \cup added,
                                  !.heads = (@ \ Ev[e].parents) \cup {e},
                                  !.lasts = [@ EXCEPT ![Ev[e].creator] = e]]
        em1 == OnEventConnected(em, e)
    IN  /\ pc \in {"saved", "decided", "sealed"}
        /\ added' = {} /\ cur' = 0
        /\ IF es.Epoch # oldEpoch
           THEN /\ epochStore' = NewEpochStore(es.Epoch)
                /\ lamport' = 0
                /\ readers' = es.Epoch
                /\ em' = OnNewEpoch(em1, es.Validators, es.Epoch)
                /\ warm' = TRUE
           ELSE /\ epochStore' = es1
                /\ lamport' = IF Ev[e].lamport > lamport THEN Ev[e].lamport ELSE lamport
                /\ em' = em1
                /\ UNCHANGED <<readers, warm>>
        /\ pc' \in {"idle", "commit"}      \* IsCommitNeeded: by size and period
        /\ UNCHANGED <<oldEpoch, frames, blk, task, bs, es, events, blocks, blockIndex, confirmed,
                       reports, spilled, disk>>

\* Mutant of Commit: the flush does not wait for the worker.
CommitWithoutWait ==
    /\ pc = "commit"
    /\ disk' = Snapshot
    /\ pc' = "idle"
    /\ UNCHANGED <<cur, added, oldEpoch, frames, blk, task, storeVars, epochVars>>

\* blockProcWg.Wait, then Commit.
Commit ==
    /\ pc = "commit" /\ task = NoTask
    /\ disk' = Snapshot
    /\ pc' = "idle"
    /\ UNCHANGED <<cur, added, oldEpoch, frames, blk, task, storeVars, epochVars>>

\* Service.Stop: under engineMu, stopped is set and the worker is waited for.
Stop ==
    /\ pc = "idle"
    /\ pc' = "stopping"
    /\ UNCHANGED <<cur, added, oldEpoch, frames, blk, task, storeVars, epochVars, disk>>

StopCommit ==
    /\ pc = "stopping" /\ task = NoTask
    /\ disk' = Snapshot
    /\ pc' = "down"
    /\ UNCHANGED <<cur, added, oldEpoch, frames, blk, task, storeVars, epochVars>>

\* dbs.Flush returned an error before it wrote anything: processEvent or Stop ends
\* with it and the unflushed state stays in memory.  (A flush that stops half-way
\* marks the databases dirty, and a dirty database refuses to open: external.)
CommitFails ==
    /\ pc \in {"commit", "stopping"} /\ task = NoTask
    /\ pc' = IF pc = "commit" THEN "idle" ELSE "down"
    /\ UNCHANGED <<cur, added, oldEpoch, frames, blk, task, storeVars, epochVars, disk>>

-----------------------------------------------------------------------------
(* The worker *)

\* The block function up to SetBlock and SetBlockIndex.
StoreBlock ==
    /\ task.st = "run"
    /\ SetBlock(task)
    /\ task' = [task EXCEPT !.st = "stored"]
    /\ UNCHANGED <<connVars, bs, es, events, epochStore, lamport, confirmed, reports, epochVars, disk>>

\* Mutant of FinishBlock: the block function takes engineMu at its end.
FinishBlockLocked(l) ==
    /\ task.st = "stored" /\ pc \in {"idle", "down"}
    /\ bs' = FinalBlockState(task, l) /\ es' = task.es
    /\ task' = NoTask
    /\ UNCHANGED <<connVars, events, blocks, blockIndex, epochStore, lamport, confirmed, reports,
                   spilled, epochVars, disk>>

\* The rest of it: SetBlockEpochState, then blockProcWg.Done.  The subscribers of
\* the block and log feeds are taken to receive, so that Send returns.
FinishBlock(l) ==
    /\ task.st = "stored"
    /\ bs' = FinalBlockState(task, l) /\ es' = task.es
    /\ task' = NoTask
    /\ UNCHANGED <<connVars, events, blocks, blockIndex, epochStore, lamport, confirmed, reports,
                   spilled, epochVars, disk>>

\* The process is gone, at any point; it starts again from the disk.  The
\* emitter and the checkers are built afresh from the stored epoch.
Restart ==
    /\ bs' = disk.bs /\ es' = disk.es /\ events' = disk.events
    /\ blocks' = disk.blocks /\ blockIndex' = disk.blockIndex
    /\ epochStore' = disk.epochStore /\ lamport' = disk.lamport
    /\ confirmed' = disk.confirmed /\ reports' = disk.reports /\ spilled' = disk.spilled
    /\ pc' = "idle" /\ cur' = 0 /\ added' = {} /\ frames' = 0 /\ blk' = NoBlk
    /\ oldEpoch' = disk.es.Epoch
    /\ task' = NoTask
    /\ em' = NewEmitter(disk.es.Validators, disk.es.Epoch)
    /\ readers' = disk.es.Epoch
    /\ warm' = FALSE
    /\ UNCHANGED disk

Connector ==
    \/ ProcessEventFails
    \/ \E a \in Event, cheaters \in SUBSET Validator : BeginBlock(a, cheaters)
    \/ EndBlockSkipped
    \/ \E pre, post \in DriverLog : EndBlock(pre, post)
    \/ FinishEvent
    \/ Commit
    \/ StopCommit
    \/ CommitFails

Worker ==
    \/ StoreBlock
    \/ \E l \in DriverLog : FinishBlock(l)

Next ==
    \/ \E e \in Event : ProcessEvent(e)
    \/ Connector
    \/ Worker
    \/ Stop
    \/ Restart

Spec == Init /\ [][Next]_vars

\* A goroutine that can go on does go on: the connector between the checks and
\* the return of processEvent, and the worker while it has a task.
FairSpec == Spec /\ WF_vars(Connector) /\ WF_vars(Worker)

-----------------------------------------------------------------------------
(* Properties *)

BlockStates == [LastBlock: [Idx: Nat, Time: Nat], EpochGas: Nat, EpochCheaters: SUBSET Validator,
                Cheater: SUBSET Validator, AdvanceEpochs: Nat, NextValidators: SUBSET Validator]
EpochStates == [Epoch: Nat, EpochStart: Nat, Validators: SUBSET Validator]
Blocks      == [Time: Nat, Atropos: Nat, Events: SUBSET Event, Deactivated: SUBSET Validator]
EpochStores == [epoch: Nat, heads: SUBSET Event, lasts: [Validator -> Nat], index: SUBSET Event]
Tasks       == [st: {"run", "stored"}, idx: Nat, time: Nat, atropos: Event, bs: BlockStates,
                es: EpochStates, events: SUBSET Event, deactivated: SUBSET Validator,
                sealing: BOOLEAN]
Blks        == [atropos: Event, cheaters: SUBSET Validator, es: EpochStates, bs: BlockStates]
Emitters    == [validators: SUBSET Validator, epoch: Nat, pendingGas: Nat,
                originated: [Sender -> Nat]]

SnapshotOK(d) ==
    /\ d.bs \in BlockStates /\ d.es \in EpochStates
    /\ d.events \subseteq Event /\ d.confirmed \subseteq Event
    /\ DOMAIN d.blocks \subseteq Nat /\ \A i \in DOMAIN d.blocks : d.blocks[i] \in Blocks
    /\ DOMAIN d.blockIndex \subseteq Nat /\ \A a \in DOMAIN d.blockIndex : d.blockIndex[a] \in Nat
    /\ d.epochStore \in EpochStores /\ d.lamport \in Nat
    /\ d.reports \subseteq Nat \X Validator /\ d.spilled \subseteq Event

\* Type correctness of the state of processEvent, of the block function and
\* of the store, in memory and on disk.
TypeOK ==
    /\ pc \in {"idle", "saved", "block", "decided", "sealed", "commit", "stopping", "down"}
    /\ cur \in Event \cup {0} /\ added \subseteq Event
    /\ (pc \in {"saved", "block", "decided", "sealed"}) => cur \in Event
    /\ oldEpoch \in Nat /\ frames \in Nat
    /\ blk = NoBlk \/ blk \in Blks
    /\ pc = "block" => blk \in Blks
    /\ task = NoTask \/ task \in Tasks
    /\ SnapshotOK(Snapshot) /\ SnapshotOK(disk)
    /\ em \in Emitters /\ readers \in Nat /\ warm \in BOOLEAN

\* The chain in a store: indices without a gap up to LastBlock, block times
\* that increase, and an Atropos index that finds every block, which it does
\* only while no two blocks have the same Atropos.
ChainComplete(d) ==
    /\ DOMAIN d.blocks = 0..d.bs.LastBlock.Idx
    /\ \A i \in 1..d.bs.LastBlock.Idx : d.blocks[i - 1].Time < d.blocks[i].Time
    /\ d.blocks[d.bs.LastBlock.Idx].Time = d.bs.LastBlock.Time
    /\ DOMAIN d.blockIndex = {d.blocks[i].Atropos : i \in 0..d.bs.LastBlock.Idx}
    /\ \A i \in 0..d.bs.LastBlock.Idx : d.blockIndex[d.blocks[i].Atropos] = i

\* Between blocks, and in what a crash leaves on disk, the chain is complete:
\* EndBlock numbers, dates and skips blocks so that ids are unique, and Commit
\* waits for the worker so that no half-stored block is ever flushed.
ChainIsComplete ==
    /\ ChainComplete(disk)
    /\ task = NoTask => ChainComplete(Snapshot)

\* Every confirmed event with transactions is in exactly one block, or was
\* excluded by spillBlockEvents; skipping a block never drops one.
TxEventsInBlocks(d) ==
    \A e \in d.confirmed :
        HasTxs(e) => \/ e \in d.spilled /\ \A i \in DOMAIN d.blocks : e \notin d.blocks[i].Events
                    \/ /\ e \notin d.spilled
                       /\ \E i \in DOMAIN d.blocks :
                            \A j \in DOMAIN d.blocks : e \in d.blocks[j].Events <=> j = i

\* No transaction-carrying event the engine confirmed is lost or executed
\* twice, also after a crash: the confirmations and the blocks of the disk
\* belong together.
TxEventsOnce ==
    /\ TxEventsInBlocks(disk)
    /\ task = NoTask => TxEventsInBlocks(Snapshot)

\* Every cheater reported in an epoch that is over was deactivated by a
\* transaction of some block, although the block at which the engine reported
\* the cheater may have been skipped (mergeCheaters).
CheatersDeactivated(d) ==
    \A r \in d.reports : r[1] < d.es.Epoch =>
        \E i \in DOMAIN d.blocks : r[2] \in d.blocks[i].Deactivated

CheatersArePunished ==
    /\ CheatersDeactivated(disk)
    /\ task = NoTask => CheatersDeactivated(Snapshot)

Tips(S) == {e \in S : \A f \in S : e \notin Ev[f].parents}

\* The epoch database agrees with the events table: it is the one of the
\* current epoch, the DAG index holds exactly the epoch's events, the heads
\* are those without children and HighestLamport is the highest.
EpochStoreExact(d) ==
    LET S == {e \in d.events : Ev[e].epoch = d.es.Epoch}
    IN  /\ d.epochStore.epoch = d.es.Epoch
        /\ d.epochStore.index = S
        /\ d.epochStore.heads = Tips(S)
        /\ d.lamport = IF S = {} THEN 0 ELSE CHOOSE n \in {Ev[e].lamport : e \in S} :
                                                \A e \in S : Ev[e].lamport <= n

\* After every processEvent, whether the event was connected or failed
\* validation, and after every restart, the indexes match the events.
IndexMatchesEvents ==
    /\ EpochStoreExact(disk)
    /\ pc \in {"idle", "commit"} => EpochStoreExact(Snapshot) /\ added = {}

\* When processEvent returns, the emitter and the event checkers hold the data
\* of the epoch of the store, whose validators the emitter knows.
EpochsAgree ==
    pc \in {"idle", "commit"} =>
        readers = es.Epoch /\ em.epoch = es.Epoch /\ em.validators = es.Validators

\* While the node has been running since the start of the epoch, pendingGas and
\* originatedTxs count exactly the connected events that are not confirmed.
PendingExact ==
    pc \in {"idle", "commit"} /\ warm /\ EmIsValidator(em) =>
        /\ em.pendingGas = GasPowerUsed(Unconfirmed)
        /\ \A s \in Sender : em.originated[s] = Cardinality({e \in Unconfirmed : Ev[e].sender = s})

\* "check not conflicted with already originated txs (in any connected event)"
\* (emitter/txs.go): the sender of a connected event that is not confirmed has
\* a non-zero TotalOf.
OriginatedKnown ==
    pc = "idle" /\ EmIsValidator(em) =>
        \A e \in Unconfirmed : HasTxs(e) => em.originated[Ev[e].sender] > 0

\* processEvent and Stop end: waiting for blockProcWg under engineMu cannot
\* block for ever, since the block function never needs engineMu.
EventCompletes == (pc \notin {"idle", "down"}) ~> (pc \in {"idle", "down"})

\* The readers of the store see an append-only ledger with a durable prefix.
ledger == INSTANCE Ledger WITH
    height <- bs.LastBlock.Idx,
    chain  <- [i \in 0..bs.LastBlock.Idx |-> blocks[i]],
    saved  <- [height |-> disk.bs.LastBlock.Idx,
               chain  |-> [i \in 0..disk.bs.LastBlock.Idx |-> disk.blocks[i]]]
LedgerSpec == ledger!Spec
=============================================================================
