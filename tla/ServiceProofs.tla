---------------------------- MODULE ServiceProofs ----------------------------
(***************************************************************************)
(* Proofs about Service, for every set of events, every DAG over them and  *)
(* every value of the rules: type correctness, the completeness of the     *)
(* chain in memory and on disk, and that the service implements Ledger.    *)
(***************************************************************************)
EXTENDS Service, FiniteSetTheorems, TLAPS

-----------------------------------------------------------------------------
(* What the operators of block processing return *)

\* A log changes neither the type of a block state nor its last block.
LEMMA OnNewLogType ==
    ASSUME NEW b \in BlockStates, NEW l \in DriverLog
    PROVE  OnNewLog(b, l) \in BlockStates /\ OnNewLog(b, l).LastBlock = b.LastBlock
<1>1. l.advance \in Nat /\ l.next \in SUBSET Validator
  BY RulesAssumption DEF DriverLog
<1> DEFINE n == IF b.AdvanceEpochs + l.advance > MaxAdvanceEpochs
                THEN MaxAdvanceEpochs ELSE b.AdvanceEpochs + l.advance
<1>2. n \in Nat
  BY <1>1, RulesAssumption DEF BlockStates
<1>3. OnNewLog(b, l) = [b EXCEPT !.AdvanceEpochs = n, !.NextValidators = l.next]
  BY DEF OnNewLog
<1> HIDE DEF n
<1> QED BY Zenon, <1>1, <1>2, <1>3 DEF BlockStates

\* Counting the gas of confirmed events (ProcessConfirmedEvent) keeps the type.
LEMMA ProcessConfirmedType ==
    ASSUME NEW b \in BlockStates, NEW conf \in SUBSET Event
    PROVE  /\ ProcessConfirmedEvents(b, conf) \in BlockStates
           /\ ProcessConfirmedEvents(b, conf).LastBlock = b.LastBlock
<1>1. GasPowerUsed(conf) \in Nat BY GasAssumption
<1> QED BY <1>1 DEF ProcessConfirmedEvents, BlockStates

\* Flagging the cheaters and running the pre-internal transactions keeps it.
LEMMA PreInternalType ==
    ASSUME NEW b \in BlockStates, NEW sealing, NEW l \in DriverLog
    PROVE  /\ PreInternalTxs(b, sealing, l) \in BlockStates
           /\ PreInternalTxs(b, sealing, l).LastBlock = b.LastBlock
<1> DEFINE flagged == [b EXCEPT !.Cheater = @ \cup b.EpochCheaters]
<1>1. flagged \in BlockStates /\ flagged.LastBlock = b.LastBlock
  BY DEF BlockStates
<1>2. OnNewLog(flagged, l) \in BlockStates /\ OnNewLog(flagged, l).LastBlock = b.LastBlock
  BY Zenon, <1>1, OnNewLogType
<1> QED BY <1>1, <1>2 DEF PreInternalTxs

\* Subtraction that stops at zero, as in OnEventConfirmed and SealEpoch.
LEMMA SubSatType ==
    ASSUME NEW a \in Nat, NEW b \in Nat
    PROVE  SubSat(a, b) \in Nat
BY DEF SubSat

\* Sealing (SealEpoch) does not touch the last block.
LEMMA SealType ==
    ASSUME NEW b \in BlockStates, NEW s \in EpochStates, NEW time \in Nat
    PROVE  /\ SealBlockState(b) \in BlockStates /\ SealBlockState(b).LastBlock = b.LastBlock
           /\ SealEpochState(s, b, time) \in EpochStates
<1>1. SubSat(b.AdvanceEpochs, 1) \in Nat BY Zenon, SubSatType DEF BlockStates
<1>2. SealEpochState(s, b, time) \in EpochStates
  BY DEF SealEpochState, BlockStates, EpochStates
<1>3. SealBlockState(b) \in BlockStates /\ SealBlockState(b).LastBlock = b.LastBlock
  BY <1>1 DEF SealBlockState, BlockStates
<1> QED BY <1>2, <1>3

\* A block's time is later than that of the last block.
LEMMA BlockTimeIncreases ==
    ASSUME NEW last \in Nat, NEW a \in Event, NEW conf \in SUBSET Event
    PROVE  BlockTime(last, a, conf) \in Nat /\ BlockTime(last, a, conf) > last
<1>1. Ev[a].time \in Nat BY EventAssumption DEF EventFields
<1> QED BY <1>1 DEF BlockTime

\* The state that the block function saves has the block as the last one.
LEMMA FinalBlockStateType ==
    ASSUME NEW t \in Tasks, NEW l \in DriverLog
    PROVE  /\ FinalBlockState(t, l) \in BlockStates
           /\ FinalBlockState(t, l).LastBlock = [Idx |-> t.idx, Time |-> t.time]
<1>1. t.bs \in BlockStates /\ t.idx \in Nat /\ t.time \in Nat BY DEF Tasks
<1>2. OnNewLog(t.bs, l) \in BlockStates BY <1>1, OnNewLogType
<1>3. \A b \in BlockStates :
        /\ [b EXCEPT !.LastBlock = [Idx |-> t.idx, Time |-> t.time]] \in BlockStates
        /\ [b EXCEPT !.LastBlock = [Idx |-> t.idx, Time |-> t.time]].LastBlock
             = [Idx |-> t.idx, Time |-> t.time]
  BY <1>1 DEF BlockStates
<1> QED BY <1>1, <1>2, <1>3 DEF FinalBlockState

\* The emitter's hooks keep the type of its bookkeeping.
LEMMA EmitterHooksType ==
    ASSUME NEW m \in Emitters, NEW e \in Event, NEW S \in SUBSET Event,
           NEW vs \in SUBSET Validator, NEW ep \in Nat
    PROVE  /\ OnEventConnected(m, e) \in Emitters
           /\ OnEventConfirmed(m, S) \in Emitters
           /\ NewEmitter(vs, ep) \in Emitters
           /\ OnNewEpoch(m, vs, ep) \in Emitters
<1>1. GasPowerUsed(S) \in Nat /\ GasPowerUsed({e}) \in Nat BY GasAssumption
<1>2. \A s \in Sender : Cardinality({f \in S : Ev[f].sender = s}) \in Nat
  <2> TAKE s \in Sender
  <2>1. IsFiniteSet({f \in S : Ev[f].sender = s})
    BY EventAssumption, FS_Subset, {f \in S : Ev[f].sender = s} \subseteq Event
  <2> QED BY <2>1, FS_CardinalityType
<1>3. OnEventConnected(m, e) \in Emitters
  <2> DEFINE o == [s \in Sender |-> m.originated[s] + IF s = Ev[e].sender THEN 1 ELSE 0]
             g == m.pendingGas + GasPowerUsed({e})
  <2>1. o \in [Sender -> Nat] /\ g \in Nat
    BY <1>1 DEF Emitters
  <2> HIDE DEF o, g
  <2>2. [m EXCEPT !.pendingGas = g, !.originated = o] \in Emitters
    BY Zenon, <2>1 DEF Emitters
  <2> QED BY <2>2 DEF OnEventConnected, o, g
<1>4. OnEventConfirmed(m, S) \in Emitters
  <2> DEFINE o == [s \in Sender |-> SubSat(m.originated[s], Cardinality({f \in S : Ev[f].sender = s}))]
  <2>1. o \in [Sender -> Nat]
    <3>1. \A s \in Sender : m.originated[s] \in Nat BY DEF Emitters
    <3> QED BY Zenon, <3>1, <1>2, SubSatType
  <2>2. SubSat(m.pendingGas, GasPowerUsed(S)) \in Nat
    BY <1>1, SubSatType DEF Emitters
  <2>3. [m EXCEPT !.pendingGas = SubSat(@, GasPowerUsed(S)), !.originated = o] \in Emitters
    BY Zenon, <2>1, <2>2 DEF Emitters
  <2> QED BY <2>3 DEF OnEventConfirmed
<1>5. NewEmitter(vs, ep) \in Emitters
  BY DEF NewEmitter, Emitters
<1>6. OnNewEpoch(m, vs, ep) \in Emitters
  BY Zenon, <1>5 DEF OnNewEpoch, Emitters
<1> QED BY <1>3, <1>4, <1>5, <1>6

-----------------------------------------------------------------------------
(* Type correctness *)

\* The part of TypeOK about the store, with the snapshot unfolded.
MemoryOK ==
    /\ bs \in BlockStates /\ es \in EpochStates
    /\ events \subseteq Event /\ confirmed \subseteq Event
    /\ DOMAIN blocks \subseteq Nat /\ \A i \in DOMAIN blocks : blocks[i] \in Blocks
    /\ DOMAIN blockIndex \subseteq Nat /\ \A a \in DOMAIN blockIndex : blockIndex[a] \in Nat
    /\ epochStore \in EpochStores /\ lamport \in Nat
    /\ reports \subseteq Nat \X Validator /\ spilled \subseteq Event

\* The store in memory has the type that Commit writes to disk.
LEMMA MemoryIsSnapshot == SnapshotOK(Snapshot) <=> MemoryOK
BY DEF SnapshotOK, Snapshot, MemoryOK

\* A block function built by EndBlock, its block and the tables it writes.
LEMMA BlockFnType ==
    ASSUME NEW a \in Event, NEW time \in Nat, NEW b \in BlockStates, NEW s \in EpochStates,
           NEW txEvents \in SUBSET Event, NEW deact \in SUBSET Validator, NEW sealing \in BOOLEAN
    PROVE  BlockFn(a, time, b, s, txEvents, deact, sealing) \in Tasks
<1>1. b.LastBlock.Idx + 1 \in Nat BY DEF BlockStates
<1> QED BY <1>1 DEF BlockFn, Tasks

\* The block that the block function stores; spillBlockEvents only drops events.
LEMMA BlockOfType ==
    ASSUME NEW t \in Tasks
    PROVE  BlockOf(t) \in Blocks /\ spillBlockEvents(t.events) \subseteq t.events
<1>1. spillBlockEvents(t.events) \subseteq t.events BY DEF spillBlockEvents
<1>2. t.atropos \in Nat /\ t.events \subseteq Event /\ t.time \in Nat /\ t.deactivated \in SUBSET Validator
  BY Zenon, EventAssumption DEF Tasks
<1> QED BY <1>1, <1>2 DEF BlockOf, Blocks

\* SetBlock and SetBlockIndex keep the types of the tables.
LEMMA SetBlockType ==
    ASSUME MemoryOK, NEW t \in Tasks, SetBlock(t)
    PROVE  /\ DOMAIN blocks' \subseteq Nat /\ \A i \in DOMAIN blocks' : blocks'[i] \in Blocks
           /\ DOMAIN blockIndex' \subseteq Nat
           /\ \A a \in DOMAIN blockIndex' : blockIndex'[a] \in Nat
           /\ spilled' \subseteq Event
<1>1. t.idx \in Nat /\ t.atropos \in Nat /\ t.events \subseteq Event
  BY Zenon, EventAssumption DEF Tasks
<1>2. BlockOf(t) \in Blocks BY BlockOfType
<1> QED BY <1>1, <1>2 DEF SetBlock, MemoryOK

\* What EndBlock of a kept block computes: a well-typed block function, whose
\* block comes after the last block, in index and in time.
LEMMA EndBlockTask ==
    ASSUME NEW k \in Blks, NEW conf \in SUBSET Event, NEW pre \in DriverLog
    PROVE  LET last    == k.bs.LastBlock.Time
               time    == BlockTime(last, k.atropos, conf)
               b0      == ProcessConfirmedEvents(k.bs, conf)
               sealing == EpochSealing(b0, k.es, time)
               b1      == PreInternalTxs(b0, sealing, pre)
               b2      == IF sealing THEN SealBlockState(b1) ELSE b1
               s2      == IF sealing THEN SealEpochState(k.es, b1, time) ELSE k.es
               txs     == {e \in conf : HasTxs(e)}
               t       == BlockFn(k.atropos, time, b2, s2, txs, ToDeactivate(b0), sealing)
           IN  /\ t \in Tasks /\ t.bs = b2 /\ t.es = s2 /\ t.st = "run" /\ t.atropos = k.atropos
               /\ t.events = txs
               /\ b2 \in BlockStates /\ s2 \in EpochStates
               /\ b2.LastBlock = k.bs.LastBlock
               /\ t.idx = k.bs.LastBlock.Idx + 1 /\ t.time > last
<1> DEFINE last    == k.bs.LastBlock.Time
           time    == BlockTime(last, k.atropos, conf)
           b0      == ProcessConfirmedEvents(k.bs, conf)
           sealing == EpochSealing(b0, k.es, time)
           b1      == PreInternalTxs(b0, sealing, pre)
           b2      == IF sealing THEN SealBlockState(b1) ELSE b1
           s2      == IF sealing THEN SealEpochState(k.es, b1, time) ELSE k.es
           txs     == {e \in conf : HasTxs(e)}
           t       == BlockFn(k.atropos, time, b2, s2, txs, ToDeactivate(b0), sealing)
<1>1. k.bs \in BlockStates /\ k.es \in EpochStates /\ k.atropos \in Event BY DEF Blks
<1>2. last \in Nat BY <1>1 DEF BlockStates
<1>3. time \in Nat /\ time > last BY <1>1, <1>2, BlockTimeIncreases
<1>4. b0 \in BlockStates /\ b0.LastBlock = k.bs.LastBlock BY <1>1, ProcessConfirmedType
<1>5. sealing \in BOOLEAN BY DEF EpochSealing
<1>6. b1 \in BlockStates /\ b1.LastBlock = k.bs.LastBlock BY <1>4, PreInternalType
<1>7. b2 \in BlockStates /\ b2.LastBlock = k.bs.LastBlock /\ s2 \in EpochStates
  BY <1>1, <1>3, <1>6, SealType
<1>8. ToDeactivate(b0) \in SUBSET Validator BY <1>4 DEF ToDeactivate, BlockStates
<1> HIDE DEF time, b0, sealing, b1, b2, s2
<1>9. t \in Tasks BY <1>1, <1>3, <1>5, <1>7, <1>8, BlockFnType
<1>10. /\ t.bs = b2 /\ t.es = s2 /\ t.st = "run" /\ t.atropos = k.atropos /\ t.events = txs
       /\ t.idx = b2.LastBlock.Idx + 1 /\ t.time = time
  BY DEF BlockFn
<1> QED BY Zenon, <1>3, <1>7, <1>9, <1>10 DEF time, b0, sealing, b1, b2, s2

\* The states of Init have the right types.
LEMMA InitType == Init => TypeOK
<1> SUFFICES ASSUME Init PROVE TypeOK OBVIOUS
<1>1. MemoryOK
  <2>1. bs \in BlockStates /\ es \in EpochStates
    BY RulesAssumption DEF Init, BlockStates, EpochStates
  <2>2. epochStore \in EpochStores BY DEF Init, EpochStores, NewEpochStore
  <2>3. \A i \in DOMAIN blocks : blocks[i] \in Blocks BY DEF Init, Blocks
  <2> QED BY <2>1, <2>2, <2>3 DEF Init, MemoryOK
<1>2. SnapshotOK(Snapshot) BY <1>1, MemoryIsSnapshot
<1>3. em \in Emitters BY RulesAssumption DEF Init, NewEmitter, Emitters
<1> QED BY <1>2, <1>3 DEF Init, TypeOK

\* The part of TypeOK about the two threads and the consumers of the epoch.
ThreadsOK ==
    /\ pc \in {"idle", "saved", "block", "decided", "sealed", "commit", "stopping", "down"}
    /\ cur \in Event \cup {0} /\ added \subseteq Event
    /\ (pc \in {"saved", "block", "decided", "sealed"}) => cur \in Event
    /\ oldEpoch \in Nat /\ frames \in Nat
    /\ blk = NoBlk \/ blk \in Blks
    /\ pc = "block" => blk \in Blks
    /\ task = NoTask \/ task \in Tasks
    /\ em \in Emitters /\ readers \in Nat /\ warm \in BOOLEAN

\* TypeOK, divided into the parts that the actions change.
LEMMA TypeParts == TypeOK <=> ThreadsOK /\ MemoryOK /\ SnapshotOK(disk)
BY MemoryIsSnapshot DEF TypeOK, ThreadsOK

\* BeginBlock keeps the types: the captured states are well typed.
LEMMA BeginBlockType ==
    ASSUME ThreadsOK, MemoryOK, NEW a \in Event, NEW cheaters \in SUBSET Validator,
           BeginBlock(a, cheaters)
    PROVE  ThreadsOK' /\ MemoryOK'
<1> DEFINE b == [bs EXCEPT !.EpochCheaters = mergeCheaters(@, cheaters)]
<1>1. b \in BlockStates BY DEF MemoryOK, BlockStates, mergeCheaters
<1>2. blk' = [atropos |-> a, cheaters |-> cheaters, es |-> es, bs |-> b] BY DEF BeginBlock
<1> HIDE DEF b
<1>3. blk' \in Blks BY <1>1, <1>2 DEF Blks, MemoryOK
<1>4. ThreadsOK' BY <1>3 DEF BeginBlock, ThreadsOK, epochVars
<1>5. {es.Epoch} \X cheaters \subseteq Nat \X Validator BY DEF MemoryOK, EpochStates
<1>6. MemoryOK' BY <1>5 DEF BeginBlock, MemoryOK
<1> QED BY <1>4, <1>6

\* ApplyEvent and EndBlock of a skipped block keep the types.
LEMMA EndBlockSkippedType ==
    ASSUME ThreadsOK, MemoryOK, EndBlockSkipped
    PROVE  ThreadsOK' /\ MemoryOK'
<1> DEFINE conf == Applied(blk.atropos)
<1>1. conf \in SUBSET Event BY DEF Applied, MemoryOK
<1>2. blk \in Blks BY DEF ThreadsOK, EndBlockSkipped
<1>3. blk.bs \in BlockStates /\ blk.es \in EpochStates BY <1>2 DEF Blks
<1>4. OnEventConfirmed(em, conf) \in Emitters
  <2>1. em \in Emitters /\ cur \in Event BY DEF ThreadsOK, EndBlockSkipped
  <2> QED BY <1>1, <2>1, EmitterHooksType, RulesAssumption
<1>5. ProcessConfirmedEvents(blk.bs, conf) \in BlockStates BY <1>1, <1>3, ProcessConfirmedType
<1>6. /\ bs' = ProcessConfirmedEvents(blk.bs, conf) /\ es' = blk.es
      /\ confirmed' = confirmed \cup conf /\ em' = OnEventConfirmed(em, conf)
      /\ pc' = "decided" /\ blk' = NoBlk
      /\ UNCHANGED <<cur, added, oldEpoch, frames, task, events, blocks, blockIndex, epochStore,
                     lamport, reports, spilled, readers, warm, disk>>
  BY DEF EndBlockSkipped
<1> HIDE DEF conf
<1>7. ThreadsOK' BY <1>4, <1>6 DEF ThreadsOK, EndBlockSkipped
<1>8. MemoryOK' BY <1>1, <1>3, <1>5, <1>6 DEF MemoryOK
<1> QED BY <1>7, <1>8

\* ApplyEvent and EndBlock of a kept block keep the types, on the worker's path
\* and on the path that stores the block at once.
LEMMA EndBlockType ==
    ASSUME ThreadsOK, MemoryOK, NEW pre \in DriverLog, NEW post \in DriverLog,
           EndBlock(pre, post)
    PROVE  ThreadsOK' /\ MemoryOK'
<1> DEFINE conf    == Applied(blk.atropos)
           last    == blk.bs.LastBlock.Time
           time    == BlockTime(last, blk.atropos, conf)
           b0      == ProcessConfirmedEvents(blk.bs, conf)
           sealing == EpochSealing(b0, blk.es, time)
           b1      == PreInternalTxs(b0, sealing, pre)
           b2      == IF sealing THEN SealBlockState(b1) ELSE b1
           s2      == IF sealing THEN SealEpochState(blk.es, b1, time) ELSE blk.es
           txs     == {e \in conf : HasTxs(e)}
           t       == BlockFn(blk.atropos, time, b2, s2, txs, ToDeactivate(b0), sealing)
<1>1. conf \in SUBSET Event BY DEF Applied, MemoryOK
<1>2. blk \in Blks BY Zenon DEF ThreadsOK, EndBlock
<1>3. t \in Tasks /\ b2 \in BlockStates /\ s2 \in EpochStates
  BY Zenon, <1>1, <1>2, EndBlockTask
<1>4. OnEventConfirmed(em, conf) \in Emitters
  <2>1. em \in Emitters /\ cur \in Event BY Zenon DEF ThreadsOK, EndBlock
  <2> QED BY <1>1, <2>1, EmitterHooksType, RulesAssumption
<1>5. /\ pc = "block" /\ confirmed' = confirmed \cup conf /\ em' = OnEventConfirmed(em, conf)
      /\ pc' \in {"sealed", "decided"} /\ blk' = NoBlk
      /\ \/ /\ task' = t
            /\ (bs' = b2 /\ es' = s2) \/ UNCHANGED <<bs, es>>
            /\ UNCHANGED <<blocks, blockIndex, spilled>>
         \/ /\ SetBlock(t)
            /\ bs' = FinalBlockState(t, post) /\ es' = s2
            /\ UNCHANGED task
      /\ UNCHANGED <<cur, added, oldEpoch, frames, events, epochStore, lamport, reports,
                     readers, warm, disk>>
  BY Zenon DEF EndBlock
<1> HIDE DEF conf, b2, s2, t
<1>6. FinalBlockState(t, post) \in BlockStates BY Zenon, <1>3, FinalBlockStateType
<1>7. ThreadsOK' BY <1>3, <1>4, <1>5 DEF ThreadsOK
<1>8. MemoryOK'
  <2>1. CASE /\ task' = t
             /\ (bs' = b2 /\ es' = s2) \/ UNCHANGED <<bs, es>>
             /\ UNCHANGED <<blocks, blockIndex, spilled>>
    BY <1>1, <1>3, <1>5, <2>1 DEF MemoryOK
  <2>2. CASE SetBlock(t) /\ bs' = FinalBlockState(t, post) /\ es' = s2
    BY <1>1, <1>3, <1>5, <1>6, <2>2, SetBlockType DEF MemoryOK
  <2> QED BY <1>5, <2>1, <2>2
<1> QED BY <1>7, <1>8

\* The end of processEvent keeps the types, whether or not the epoch changed.
LEMMA FinishEventType ==
    ASSUME ThreadsOK, MemoryOK, FinishEvent
    PROVE  ThreadsOK' /\ MemoryOK'
<1> DEFINE h   == (epochStore.heads \ Ev[cur].parents) \cup {cur}
           ls  == [epochStore.lasts EXCEPT ![Ev[cur].creator] = cur]
           ix  == epochStore.index \cup added
           es1 == [epochStore EXCEPT !.index = ix, !.heads = h, !.lasts = ls]
           em1 == OnEventConnected(em, cur)
<1>1. cur \in Event /\ cur \in Nat /\ em \in Emitters /\ added \subseteq Event
  BY EventAssumption DEF FinishEvent, ThreadsOK
<1>2. Ev[cur].lamport \in Nat BY <1>1, EventAssumption DEF EventFields
<1>3. em1 \in Emitters BY Zenon, <1>1, EmitterHooksType, RulesAssumption
<1>4. es.Epoch \in Nat /\ es.Validators \subseteq Validator BY DEF MemoryOK, EpochStates
<1>5. OnNewEpoch(em1, es.Validators, es.Epoch) \in Emitters
  BY <1>1, <1>3, <1>4, EmitterHooksType
<1>6. NewEpochStore(es.Epoch) \in EpochStores BY <1>4 DEF NewEpochStore, EpochStores
<1>7. es1 \in EpochStores
  <2>1. h \in SUBSET Event /\ ls \in [Validator -> Nat] /\ ix \in SUBSET Event
    BY Zenon, <1>1 DEF MemoryOK, EpochStores
  <2> HIDE DEF h, ls, ix
  <2> QED BY Zenon, <2>1 DEF MemoryOK, EpochStores
<1>8. /\ epochStore' \in {es1, NewEpochStore(es.Epoch)}
      /\ lamport' \in {0, lamport, Ev[cur].lamport}
      /\ em' \in {em1, OnNewEpoch(em1, es.Validators, es.Epoch)}
      /\ readers' \in {readers, es.Epoch} /\ warm' \in {warm, TRUE}
  BY Zenon DEF FinishEvent
<1>9. /\ added' = {} /\ cur' = 0 /\ pc' \in {"idle", "commit"} /\ pc # "block"
      /\ UNCHANGED <<oldEpoch, frames, blk, task, bs, es, events, blocks, blockIndex, confirmed,
                     reports, spilled, disk>>
  BY DEF FinishEvent
<1> HIDE DEF es1, em1
<1>10. ThreadsOK' BY Zenon, <1>3, <1>4, <1>5, <1>8, <1>9 DEF ThreadsOK
<1>11. MemoryOK' BY <1>2, <1>6, <1>7, <1>8, <1>9 DEF MemoryOK
<1> QED BY <1>10, <1>11

\* Every step of the connector, of the worker and every restart keeps the types.
LEMMA NextType == TypeOK /\ [Next]_vars => TypeOK'
<1> SUFFICES ASSUME ThreadsOK, MemoryOK, SnapshotOK(disk), [Next]_vars
             PROVE  ThreadsOK' /\ MemoryOK' /\ SnapshotOK(disk)'
  <2>1. TypeOK' <=> ThreadsOK' /\ MemoryOK' /\ SnapshotOK(disk)' BY TypeParts, PTL
  <2> QED BY <2>1, TypeParts
<1>0. SnapshotOK(Snapshot) BY MemoryIsSnapshot
<1>1. ASSUME NEW e \in Event, ProcessEvent(e) PROVE ThreadsOK' /\ MemoryOK' /\ SnapshotOK(disk)'
  <2>1. es.Epoch \in Nat BY DEF MemoryOK, EpochStates
  <2>2. ThreadsOK' BY <1>1, <2>1 DEF ThreadsOK, ProcessEvent, epochVars
  <2> QED BY <1>1, <2>2 DEF MemoryOK, ProcessEvent
<1>2. CASE ProcessEventFails
  BY <1>2 DEF ThreadsOK, MemoryOK, ProcessEventFails, epochVars
<1>3. ASSUME NEW a \in Event, NEW cheaters \in SUBSET Validator, BeginBlock(a, cheaters)
      PROVE  ThreadsOK' /\ MemoryOK' /\ SnapshotOK(disk)'
  <2>1. disk' = disk BY <1>3 DEF BeginBlock
  <2> QED BY <1>3, <2>1, BeginBlockType
<1>4. CASE EndBlockSkipped
  <2>1. disk' = disk BY <1>4 DEF EndBlockSkipped
  <2> QED BY <1>4, <2>1, EndBlockSkippedType
<1>5. ASSUME NEW pre \in DriverLog, NEW post \in DriverLog, EndBlock(pre, post)
      PROVE  ThreadsOK' /\ MemoryOK' /\ SnapshotOK(disk)'
  <2>1. disk' = disk BY <1>5, Zenon DEF EndBlock
  <2> QED BY <1>5, <2>1, EndBlockType
<1>6. CASE FinishEvent
  <2>1. disk' = disk BY <1>6 DEF FinishEvent
  <2> QED BY <1>6, <2>1, FinishEventType
<1>7. CASE Commit
  BY <1>0, <1>7 DEF ThreadsOK, MemoryOK, Commit, storeVars, epochVars
<1>8. CASE Stop
  BY <1>8 DEF ThreadsOK, MemoryOK, Stop, storeVars, epochVars
<1>9. CASE StopCommit
  BY <1>0, <1>9 DEF ThreadsOK, MemoryOK, StopCommit, storeVars, epochVars
<1>10. CASE CommitFails
  BY <1>10 DEF ThreadsOK, MemoryOK, CommitFails, storeVars, epochVars
<1>11. CASE StoreBlock
  <2>1. task \in Tasks BY <1>11 DEF ThreadsOK, StoreBlock, NoTask
  <2>2. task' \in Tasks BY <1>11, <2>1 DEF StoreBlock, Tasks
  <2>3. ThreadsOK' BY <1>11, <2>2 DEF ThreadsOK, StoreBlock, connVars, epochVars
  <2>4. SetBlock(task) BY <1>11 DEF StoreBlock
  <2>5. MemoryOK' BY <1>11, <2>1, <2>4, SetBlockType DEF MemoryOK, StoreBlock
  <2> QED BY <1>11, <2>3, <2>5 DEF StoreBlock
<1>12. ASSUME NEW l \in DriverLog, FinishBlock(l) PROVE ThreadsOK' /\ MemoryOK' /\ SnapshotOK(disk)'
  <2>1. task \in Tasks BY <1>12 DEF ThreadsOK, FinishBlock, NoTask
  <2>2. FinalBlockState(task, l) \in BlockStates /\ task.es \in EpochStates
    BY Zenon, <2>1, FinalBlockStateType DEF Tasks
  <2>3. ThreadsOK' BY <1>12 DEF ThreadsOK, FinishBlock, connVars, epochVars
  <2> QED BY <1>12, <2>2, <2>3 DEF MemoryOK, FinishBlock
<1>13. CASE Restart
  <2>1. disk.es.Epoch \in Nat /\ disk.es.Validators \subseteq Validator
    BY DEF SnapshotOK, EpochStates
  <2>2. NewEmitter(disk.es.Validators, disk.es.Epoch) \in Emitters
    BY <2>1 DEF NewEmitter, Emitters
  <2>3. ThreadsOK' BY Zenon, <1>13, <2>1, <2>2 DEF ThreadsOK, Restart
  <2> QED BY <1>13, <2>3 DEF MemoryOK, SnapshotOK, Restart
<1>14. CASE UNCHANGED vars
  BY <1>14 DEF ThreadsOK, MemoryOK, vars, connVars, storeVars, epochVars
<1> QED BY <1>1, <1>2, <1>3, <1>4, <1>5, <1>6, <1>7, <1>8, <1>9, <1>10, <1>11, <1>12, <1>13, <1>14
        DEF Next, Connector, Worker

\* The state of the service stays well typed: no counter of the emitter or of
\* the block state leaves the naturals, and no thread sees half-built records.
THEOREM TypeCorrect == Spec => []TypeOK
BY InitType, NextType, PTL DEF Spec

-----------------------------------------------------------------------------
(* The chain *)

\* A chain of blocks 0..m in table b, found by their Atropoi in table ix.
ChainUpTo(b, ix, m) ==
    /\ DOMAIN b = 0..m
    /\ \A i \in 1..m : b[i - 1].Time < b[i].Time
    /\ DOMAIN ix = {b[i].Atropos : i \in 0..m}
    /\ \A i \in 0..m : ix[b[i].Atropos] = i

\* Every Atropos of a block, except that of genesis, is a confirmed event.
AtroposConfirmed(b, conf) == \A i \in DOMAIN b : b[i].Atropos \in conf \cup {0}

\* The highest block in the table: one above LastBlock while the block function
\* has stored its block and not yet saved the block state.
Top == IF task.st = "stored" THEN bs.LastBlock.Idx + 1 ELSE bs.LastBlock.Idx

\* The invariant behind ChainIsComplete.  It also says what is true while the
\* block function runs: which block it will store, that this block comes next,
\* and that its Atropos, already confirmed, is that of no stored block; and
\* that between BeginBlock and EndBlock no block function runs.
ChainInv ==
    /\ ChainUpTo(blocks, blockIndex, Top)
    /\ blocks[bs.LastBlock.Idx].Time = bs.LastBlock.Time
    /\ AtroposConfirmed(blocks, confirmed)
    /\ task # NoTask => /\ task.idx = bs.LastBlock.Idx + 1
                        /\ task.time > bs.LastBlock.Time
                        /\ task.atropos \in confirmed
                        /\ pc # "block"
    /\ task.st = "run" => \A i \in DOMAIN blocks : blocks[i].Atropos # task.atropos
    /\ task.st = "stored" => blocks[bs.LastBlock.Idx + 1].Time = task.time
    /\ pc = "block" => blk.bs.LastBlock = bs.LastBlock
    /\ ChainComplete(disk) /\ AtroposConfirmed(disk.blocks, disk.confirmed)

\* SetBlock of the next block, with a new Atropos and a later time, extends the
\* chain by one block.
LEMMA SetBlockExtends ==
    ASSUME NEW t \in Tasks, SetBlock(t), NEW n \in Nat, ChainUpTo(blocks, blockIndex, n),
           t.idx = n + 1, blocks[n].Time < t.time,
           \A i \in DOMAIN blocks : blocks[i].Atropos # t.atropos
    PROVE  /\ ChainUpTo(blocks', blockIndex', n + 1)
           /\ \A i \in 0..n : blocks'[i] = blocks[i]
           /\ blocks'[n + 1].Time = t.time /\ blocks'[n + 1].Atropos = t.atropos
<1>1. BlockOf(t).Time = t.time /\ BlockOf(t).Atropos = t.atropos BY Zenon DEF BlockOf
<1>2. DOMAIN blocks = 0..n BY DEF ChainUpTo
<1>3. DOMAIN blocks' = 0..(n + 1)
  <2>1. DOMAIN blocks' = DOMAIN blocks \cup {t.idx} BY Zenon DEF SetBlock
  <2>2. (0..n) \cup {n + 1} = 0..(n + 1) OBVIOUS
  <2> QED BY Zenon, <1>2, <2>1, <2>2
<1>4. \A i \in 0..n : blocks'[i] = blocks[i] BY <1>2 DEF SetBlock
<1>5. blocks'[n + 1] = BlockOf(t) BY <1>2 DEF SetBlock
<1>6. \A i \in 1..(n + 1) : blocks'[i - 1].Time < blocks'[i].Time
  <2> TAKE i \in 1..(n + 1)
  <2>1. CASE i = n + 1
    <3>1. n \in 0..n /\ (n + 1) - 1 = n OBVIOUS
    <3> QED BY <1>1, <1>4, <1>5, <2>1, <3>1
  <2>2. CASE i \in 1..n
    <3>1. i \in 0..n /\ i - 1 \in 0..n BY <2>2
    <3> QED BY <1>4, <2>2, <3>1 DEF ChainUpTo
  <2> QED BY <2>1, <2>2
<1>7. DOMAIN blockIndex' = {blocks'[i].Atropos : i \in 0..(n + 1)}
  <2>1. DOMAIN blockIndex' = DOMAIN blockIndex \cup {t.atropos} BY DEF SetBlock
  <2>2. DOMAIN blockIndex = {blocks'[i].Atropos : i \in 0..n} BY <1>4 DEF ChainUpTo
  <2>3. 0..(n + 1) = (0..n) \cup {n + 1} OBVIOUS
  <2> QED BY <1>1, <1>5, <2>1, <2>2, <2>3
<1>8. \A i \in 0..(n + 1) : blockIndex'[blocks'[i].Atropos] = i
  <2> TAKE i \in 0..(n + 1)
  <2>1. CASE i = n + 1
    BY <1>1, <1>5, <2>1 DEF SetBlock
  <2>2. CASE i \in 0..n
    <3>1. blocks[i].Atropos \in DOMAIN blockIndex /\ blocks[i].Atropos # t.atropos
      BY <1>2, <2>2 DEF ChainUpTo
    <3>2. blockIndex'[blocks[i].Atropos] = blockIndex[blocks[i].Atropos]
      BY <3>1 DEF SetBlock
    <3> QED BY <1>4, <2>2, <3>2 DEF ChainUpTo
  <2> QED BY <2>1, <2>2
<1> QED BY Zenon, <1>1, <1>3, <1>4, <1>5, <1>6, <1>7, <1>8 DEF ChainUpTo

\* A complete chain is a chain up to the last block, whose time is LastBlock's.
LEMMA CompleteIsUpTo ==
    ASSUME NEW d
    PROVE  ChainComplete(d) <=> /\ ChainUpTo(d.blocks, d.blockIndex, d.bs.LastBlock.Idx)
                                /\ d.blocks[d.bs.LastBlock.Idx].Time = d.bs.LastBlock.Time
BY DEF ChainComplete, ChainUpTo

\* With no block function at work, the store in memory holds a complete chain.
LEMMA IdleChain ==
    ASSUME TypeOK, ChainInv, task = NoTask
    PROVE  /\ ChainUpTo(blocks, blockIndex, bs.LastBlock.Idx)
           /\ ChainComplete(Snapshot) /\ AtroposConfirmed(Snapshot.blocks, Snapshot.confirmed)
<1>1. Top = bs.LastBlock.Idx BY DEF Top, NoTask
<1>2. /\ Snapshot.blocks = blocks /\ Snapshot.blockIndex = blockIndex /\ Snapshot.bs = bs
      /\ Snapshot.confirmed = confirmed
  BY DEF Snapshot
<1>3. ChainUpTo(blocks, blockIndex, bs.LastBlock.Idx) BY Zenon, <1>1 DEF ChainInv
<1>4. AtroposConfirmed(Snapshot.blocks, Snapshot.confirmed) BY <1>2 DEF ChainInv
<1> QED BY Zenon, <1>2, <1>3, <1>4, CompleteIsUpTo DEF ChainInv

\* The genesis block alone is a complete chain.
LEMMA InitChain == Init => ChainInv
<1> SUFFICES ASSUME Init PROVE ChainInv OBVIOUS
<1>1. task = NoTask /\ pc = "idle" /\ Top = 0 /\ bs.LastBlock = [Idx |-> 0, Time |-> 0]
  BY DEF Init, Top, NoTask
<1>2. DOMAIN blocks = {0} /\ blocks[0].Time = 0 /\ blocks[0].Atropos = 0 BY DEF Init
<1>3. DOMAIN blockIndex = {0} /\ blockIndex[0] = 0 BY DEF Init
<1>4. 0..0 = {0} /\ 1..0 = {} OBVIOUS
<1>5. {blocks[i].Atropos : i \in {0}} = {0} BY <1>2
<1>6. ChainUpTo(blocks, blockIndex, 0) BY <1>2, <1>3, <1>4, <1>5 DEF ChainUpTo
<1>7. AtroposConfirmed(blocks, confirmed) BY <1>2 DEF AtroposConfirmed
<1>8. ChainComplete(disk) /\ AtroposConfirmed(disk.blocks, disk.confirmed)
  <2>1. disk = Snapshot BY DEF Init
  <2>2. /\ disk.blocks = blocks /\ disk.blockIndex = blockIndex /\ disk.bs = bs
        /\ disk.confirmed = confirmed
    BY <2>1 DEF Snapshot
  <2> QED BY <1>1, <1>2, <1>6, <1>7, <2>2 DEF ChainComplete, ChainUpTo
<1> QED BY <1>1, <1>2, <1>6, <1>7, <1>8 DEF ChainInv, NoTask

\* Steps that leave the tables, the last block, the task and the captured states
\* alone, and do not enter a block, keep the chain.
LEMMA QuietStep ==
    ASSUME ChainInv, pc' # "block", confirmed' = confirmed,
           UNCHANGED <<blocks, blockIndex, task, bs>>,
           ChainComplete(disk)', AtroposConfirmed(disk.blocks, disk.confirmed)'
    PROVE  ChainInv'
<1>1. /\ blocks' = blocks /\ blockIndex' = blockIndex /\ task' = task /\ bs' = bs
      /\ confirmed' = confirmed
  BY Zenon
<1>2. Top' = Top BY Zenon, <1>1 DEF Top
<1>3. ChainUpTo(blocks, blockIndex, Top)' BY Zenon, <1>1, <1>2 DEF ChainInv
<1>4. AtroposConfirmed(blocks, confirmed)' BY Zenon, <1>1 DEF ChainInv
<1> QED BY Zenon, <1>1, <1>3, <1>4 DEF ChainInv

\* The disk keeps its chain when it is not written.
LEMMA DiskUnchanged ==
    ASSUME ChainInv, UNCHANGED disk
    PROVE  ChainComplete(disk)' /\ AtroposConfirmed(disk.blocks, disk.confirmed)'
BY DEF ChainInv

\* ApplyEvent and EndBlock of a kept block keep the chain: the block's Atropos
\* is confirmed by this very block, so no earlier block has it.
LEMMA EndBlockChain ==
    ASSUME TypeOK, TypeOK', ChainInv, NEW pre \in DriverLog, NEW post \in DriverLog,
           EndBlock(pre, post)
    PROVE  /\ ChainInv'
           /\ \A i \in 0..bs.LastBlock.Idx : blocks'[i] = blocks[i]
           /\ bs'.LastBlock = bs.LastBlock \/ bs'.LastBlock.Idx = bs.LastBlock.Idx + 1
           /\ bs'.LastBlock.Idx = bs.LastBlock.Idx + 1 =>
                /\ blocks'[bs'.LastBlock.Idx].Time > blocks[bs.LastBlock.Idx].Time
                /\ \A i \in 0..bs.LastBlock.Idx :
                     blocks'[bs'.LastBlock.Idx].Atropos # blocks[i].Atropos
<1> DEFINE conf    == Applied(blk.atropos)
           last    == blk.bs.LastBlock.Time
           time    == BlockTime(last, blk.atropos, conf)
           b0      == ProcessConfirmedEvents(blk.bs, conf)
           sealing == EpochSealing(b0, blk.es, time)
           b1      == PreInternalTxs(b0, sealing, pre)
           b2      == IF sealing THEN SealBlockState(b1) ELSE b1
           s2      == IF sealing THEN SealEpochState(blk.es, b1, time) ELSE blk.es
           txs     == {e \in conf : HasTxs(e)}
           t       == BlockFn(blk.atropos, time, b2, s2, txs, ToDeactivate(b0), sealing)
           n       == bs.LastBlock.Idx
<1>0. ThreadsOK /\ MemoryOK BY TypeParts
<1>1. conf \in SUBSET Event /\ conf \cap confirmed = {} BY <1>0 DEF Applied, MemoryOK
<1>2. blk \in Blks BY Zenon, <1>0 DEF ThreadsOK, EndBlock
<1>3. task = NoTask /\ blk.bs.LastBlock = bs.LastBlock BY Zenon DEF ChainInv, EndBlock
<1>4. /\ t \in Tasks /\ t.st = "run" /\ t.atropos = blk.atropos
      /\ b2.LastBlock = bs.LastBlock /\ t.idx = n + 1 /\ t.time > bs.LastBlock.Time
  <2>1. /\ t \in Tasks /\ t.bs = b2 /\ t.es = s2 /\ t.st = "run" /\ t.atropos = blk.atropos
        /\ t.events = txs
        /\ b2 \in BlockStates /\ s2 \in EpochStates
        /\ b2.LastBlock = blk.bs.LastBlock
        /\ t.idx = blk.bs.LastBlock.Idx + 1 /\ t.time > last
    BY <1>1, <1>2, EndBlockTask, Zenon
  <2> HIDE DEF b2, t
  <2> QED BY Zenon, <1>3, <2>1
<1>5. blk.atropos \in conf BY Zenon DEF EndBlock, SkipBlock
<1>6. /\ confirmed' = confirmed \cup conf /\ pc' # "block" /\ UNCHANGED disk
      /\ \/ /\ task' = t
            /\ bs' = b2 \/ UNCHANGED bs
            /\ UNCHANGED <<blocks, blockIndex>>
         \/ /\ SetBlock(t)
            /\ bs' = FinalBlockState(t, post)
            /\ UNCHANGED task
  BY Zenon DEF EndBlock
<1>7. n \in Nat /\ bs.LastBlock.Time \in Nat BY <1>0 DEF MemoryOK, BlockStates
<1>8. ChainUpTo(blocks, blockIndex, n) /\ blocks[n].Time = bs.LastBlock.Time
  BY Zenon, <1>3, IdleChain DEF ChainInv
<1>9. \A i \in DOMAIN blocks : blocks[i].Atropos # t.atropos
  BY Zenon, <1>1, <1>4, <1>5, EventAssumption DEF ChainInv, AtroposConfirmed
<1>10. DOMAIN blocks = 0..n BY <1>8 DEF ChainUpTo
<1>11. FinalBlockState(t, post).LastBlock = [Idx |-> t.idx, Time |-> t.time]
  BY Zenon, <1>4, FinalBlockStateType
<1>12. t.atropos \in confirmed' BY Zenon, <1>4, <1>5, <1>6
<1>13. ChainComplete(disk)' /\ AtroposConfirmed(disk.blocks, disk.confirmed)'
  BY Zenon, <1>6, DiskUnchanged
<1> HIDE DEF conf, b2, t, n
<1>14. CASE task' = t /\ (bs' = b2 \/ UNCHANGED bs) /\ UNCHANGED <<blocks, blockIndex>>
  <2>1. bs'.LastBlock = bs.LastBlock BY <1>4, <1>14
  <2>2. Top' = n BY <1>4, <1>14, <2>1 DEF Top, n
  <2>3. AtroposConfirmed(blocks, confirmed)' BY <1>6, <1>14 DEF ChainInv, AtroposConfirmed
  <2>4. ChainUpTo(blocks, blockIndex, Top)' BY <1>8, <1>14, <2>2 DEF ChainUpTo
  <2>5. ChainInv'
    BY Zenon, <1>4, <1>6, <1>8, <1>9, <1>12, <1>13, <1>14, <2>1, <2>3, <2>4 DEF ChainInv, n
  <2> QED BY <1>7, <1>14, <2>1, <2>5 DEF n
<1>15. CASE SetBlock(t) /\ bs' = FinalBlockState(t, post) /\ UNCHANGED task
  <2>1. /\ ChainUpTo(blocks', blockIndex', n + 1)
        /\ \A i \in 0..n : blocks'[i] = blocks[i]
        /\ blocks'[n + 1].Time = t.time /\ blocks'[n + 1].Atropos = t.atropos
    BY Zenon, <1>4, <1>7, <1>8, <1>9, <1>15, SetBlockExtends
  <2>2. bs'.LastBlock = [Idx |-> n + 1, Time |-> t.time] BY <1>4, <1>11, <1>15
  <2>3. task' = NoTask /\ Top' = n + 1 BY <1>3, <1>15, <2>2 DEF Top, NoTask
  <2>4. ChainUpTo(blocks, blockIndex, Top)' BY <2>1, <2>3 DEF ChainUpTo
  <2>5. AtroposConfirmed(blocks, confirmed)'
    <3>1. DOMAIN blocks' = (0..n) \cup {n + 1} BY <1>7, <2>1 DEF ChainUpTo
    <3>2. \A i \in 0..n : blocks'[i].Atropos \in confirmed' \cup {0}
      BY Zenon, <1>6, <1>10, <2>1 DEF ChainInv, AtroposConfirmed
    <3> QED BY <1>12, <2>1, <3>1, <3>2 DEF AtroposConfirmed
  <2>6. /\ task'.st # "run" /\ task'.st # "stored"
        /\ bs'.LastBlock.Idx = n + 1 /\ bs'.LastBlock.Time = t.time
    BY <2>2, <2>3 DEF NoTask
  <2>7. ChainInv'
    BY Zenon, <1>6, <1>13, <2>1, <2>3, <2>4, <2>5, <2>6 DEF ChainInv
  <2> QED BY Zenon, <1>4, <1>8, <1>9, <1>10, <2>1, <2>6, <2>7 DEF n
<1> QED BY Zenon, <1>6, <1>14, <1>15

\* The worker's SetBlock extends the table by the block after LastBlock.
LEMMA StoreBlockChain ==
    ASSUME TypeOK, ChainInv, StoreBlock
    PROVE  ChainInv' /\ \A i \in 0..bs.LastBlock.Idx : blocks'[i] = blocks[i]
<1> DEFINE n == bs.LastBlock.Idx
<1>0. ThreadsOK /\ MemoryOK BY TypeParts
<1>1. task \in Tasks /\ task.st = "run" /\ task # NoTask
  BY <1>0 DEF ThreadsOK, StoreBlock, NoTask
<1>2. n \in Nat BY <1>0 DEF MemoryOK, BlockStates
<1>3. Top = n BY <1>1 DEF Top
<1>4. /\ ChainUpTo(blocks, blockIndex, n) /\ blocks[n].Time = bs.LastBlock.Time
      /\ task.idx = n + 1 /\ task.time > bs.LastBlock.Time /\ task.atropos \in confirmed
      /\ pc # "block" /\ AtroposConfirmed(blocks, confirmed)
      /\ \A i \in DOMAIN blocks : blocks[i].Atropos # task.atropos
  BY <1>1, <1>3 DEF ChainInv
<1>5. SetBlock(task) BY DEF StoreBlock
<1>6. /\ ChainUpTo(blocks', blockIndex', n + 1)
      /\ \A i \in 0..n : blocks'[i] = blocks[i]
      /\ blocks'[n + 1].Time = task.time /\ blocks'[n + 1].Atropos = task.atropos
  <2>1. blocks[n].Time < task.time BY <1>0, <1>1, <1>4 DEF MemoryOK, BlockStates, Tasks
  <2> QED BY Zenon, <1>1, <1>2, <1>4, <1>5, <2>1, SetBlockExtends
<1>7. /\ task'.st = "stored" /\ task'.idx = task.idx /\ task'.time = task.time
      /\ task'.atropos = task.atropos
  BY <1>1 DEF StoreBlock, Tasks
<1>8. UNCHANGED <<pc, blk, bs, confirmed, disk>> BY DEF StoreBlock, connVars
<1>9. Top' = n + 1 BY <1>7, <1>8 DEF Top
<1>10. ChainUpTo(blocks, blockIndex, Top)' BY <1>6, <1>9 DEF ChainUpTo
<1>11. AtroposConfirmed(blocks, confirmed)'
  <2>1. DOMAIN blocks = 0..n BY <1>4 DEF ChainUpTo
  <2>2. DOMAIN blocks' = (0..n) \cup {n + 1} BY <1>2, <1>6 DEF ChainUpTo
  <2> QED BY <1>4, <1>6, <1>8, <2>1, <2>2 DEF AtroposConfirmed
<1>12. ChainComplete(disk)' /\ AtroposConfirmed(disk.blocks, disk.confirmed)'
  BY <1>8, DiskUnchanged
<1>13. blocks'[bs'.LastBlock.Idx].Time = bs'.LastBlock.Time
  <2>1. n \in 0..n BY <1>2
  <2> QED BY Zenon, <1>4, <1>6, <1>8, <2>1
<1> HIDE DEF n
<1>14. ChainInv'
  BY Zenon, <1>4, <1>6, <1>7, <1>8, <1>10, <1>11, <1>12, <1>13 DEF ChainInv, n
<1> QED BY <1>6, <1>14 DEF n

\* The worker's SetBlockEpochState makes the stored block the last one.
LEMMA FinishBlockChain ==
    ASSUME TypeOK, ChainInv, NEW l \in DriverLog, FinishBlock(l)
    PROVE  ChainInv' /\ bs'.LastBlock.Idx = bs.LastBlock.Idx + 1
<1> DEFINE n == bs.LastBlock.Idx
<1>0. ThreadsOK /\ MemoryOK BY TypeParts
<1>1. task \in Tasks /\ task.st = "stored" /\ task # NoTask
  BY <1>0 DEF ThreadsOK, FinishBlock, NoTask
<1>2. Top = n + 1 BY <1>1 DEF Top
<1>3. task.idx = n + 1 /\ blocks[n + 1].Time = task.time /\ pc # "block" BY Zenon, <1>1 DEF ChainInv
<1>4. bs'.LastBlock = [Idx |-> n + 1, Time |-> task.time]
  BY <1>1, <1>3, FinalBlockStateType DEF FinishBlock
<1>5. /\ task' = NoTask
      /\ UNCHANGED <<pc, blk, blocks, blockIndex, confirmed, disk>>
  BY DEF FinishBlock, connVars
<1>6. Top' = n + 1 BY <1>4, <1>5 DEF Top, NoTask
<1>7. ChainUpTo(blocks, blockIndex, Top)' BY <1>2, <1>5, <1>6 DEF ChainInv
<1>8. AtroposConfirmed(blocks, confirmed)' BY <1>5 DEF ChainInv, AtroposConfirmed
<1>9. ChainComplete(disk)' /\ AtroposConfirmed(disk.blocks, disk.confirmed)'
  BY <1>5, DiskUnchanged
<1> HIDE DEF n
<1>10. /\ task'.st # "run" /\ task'.st # "stored"
       /\ bs'.LastBlock.Idx = n + 1 /\ bs'.LastBlock.Time = task.time
  BY <1>4, <1>5 DEF NoTask
<1>11. ChainInv' BY Zenon, <1>3, <1>5, <1>7, <1>8, <1>9, <1>10 DEF ChainInv
<1> QED BY Zenon, <1>10, <1>11 DEF n

\* A restart finds the complete chain that the last Commit wrote.
LEMMA RestartChain ==
    ASSUME ChainInv, Restart
    PROVE  ChainInv'
<1>1. /\ bs' = disk.bs /\ blocks' = disk.blocks /\ blockIndex' = disk.blockIndex
      /\ confirmed' = disk.confirmed /\ pc' = "idle" /\ task' = NoTask /\ disk' = disk
  BY DEF Restart
<1>2. ChainComplete(disk)' /\ AtroposConfirmed(disk.blocks, disk.confirmed)'
  BY <1>1, DiskUnchanged
<1>3. /\ ChainUpTo(disk.blocks, disk.blockIndex, disk.bs.LastBlock.Idx)
      /\ disk.blocks[disk.bs.LastBlock.Idx].Time = disk.bs.LastBlock.Time
      /\ AtroposConfirmed(disk.blocks, disk.confirmed)
  BY CompleteIsUpTo DEF ChainInv
<1>4. Top' = disk.bs.LastBlock.Idx BY <1>1 DEF Top, NoTask
<1>5. ChainUpTo(blocks, blockIndex, Top)' BY <1>1, <1>3, <1>4
<1>6. AtroposConfirmed(blocks, confirmed)' BY <1>1, <1>3
<1> QED BY Zenon, <1>1, <1>2, <1>3, <1>5, <1>6 DEF ChainInv, NoTask

\* Commit and StopCommit wait for the worker, so they write a complete chain.
LEMMA CommitChain ==
    ASSUME TypeOK, ChainInv, task = NoTask, disk' = Snapshot, pc' # "block",
           UNCHANGED <<storeVars, task>>
    PROVE  ChainInv'
<1>1. ChainComplete(Snapshot) /\ AtroposConfirmed(Snapshot.blocks, Snapshot.confirmed)
  BY IdleChain
<1>2. ChainComplete(disk)' /\ AtroposConfirmed(disk.blocks, disk.confirmed)' BY <1>1
<1> QED BY <1>2, QuietStep DEF storeVars

\* Every step keeps the chain.
LEMMA NextChain == TypeOK /\ TypeOK' /\ ChainInv /\ [Next]_vars => ChainInv'
<1> SUFFICES ASSUME TypeOK, TypeOK', ChainInv, [Next]_vars PROVE ChainInv' OBVIOUS
<1>1. ASSUME NEW e \in Event, ProcessEvent(e) PROVE ChainInv'
  BY <1>1, DiskUnchanged, QuietStep DEF ProcessEvent
<1>2. CASE ProcessEventFails
  BY <1>2, DiskUnchanged, QuietStep DEF ProcessEventFails
<1>3. ASSUME NEW a \in Event, NEW cheaters \in SUBSET Validator, BeginBlock(a, cheaters)
      PROVE  ChainInv'
  <2>1. /\ task = NoTask
        /\ UNCHANGED <<task, bs, blocks, blockIndex, confirmed, disk>>
        /\ blk'.bs = [bs EXCEPT !.EpochCheaters = mergeCheaters(@, cheaters)]
    BY <1>3 DEF BeginBlock
  <2>2. bs \in BlockStates BY TypeParts DEF MemoryOK
  <2>3. blk'.bs.LastBlock = bs'.LastBlock BY <2>1, <2>2 DEF BlockStates
  <2>4. ChainUpTo(blocks, blockIndex, Top)' BY <2>1 DEF ChainInv, Top
  <2>5. AtroposConfirmed(blocks, confirmed)' BY <2>1 DEF ChainInv
  <2>6. ChainComplete(disk)' /\ AtroposConfirmed(disk.blocks, disk.confirmed)'
    BY <2>1, DiskUnchanged
  <2> QED BY <2>1, <2>3, <2>4, <2>5, <2>6 DEF ChainInv, NoTask
<1>4. CASE EndBlockSkipped
  <2> DEFINE conf == Applied(blk.atropos)
  <2>1. /\ pc = "block" /\ pc' = "decided" /\ confirmed' = confirmed \cup conf
        /\ bs' = ProcessConfirmedEvents(blk.bs, conf)
        /\ UNCHANGED <<task, blocks, blockIndex, disk>>
    BY <1>4 DEF EndBlockSkipped
  <2>2. blk \in Blks /\ conf \in SUBSET Event
    BY Zenon, <2>1, TypeParts DEF ThreadsOK, MemoryOK, Applied
  <2>3. bs'.LastBlock = blk.bs.LastBlock BY <2>1, <2>2, ProcessConfirmedType DEF Blks
  <2>4. bs'.LastBlock = bs.LastBlock /\ task = NoTask BY Zenon, <2>1, <2>3 DEF ChainInv
  <2> HIDE DEF conf
  <2>5. ChainUpTo(blocks, blockIndex, Top)' BY Zenon, <2>1, <2>4 DEF ChainInv, Top
  <2>6. AtroposConfirmed(blocks, confirmed)' BY <2>1 DEF ChainInv, AtroposConfirmed
  <2>7. ChainComplete(disk)' /\ AtroposConfirmed(disk.blocks, disk.confirmed)'
    BY <2>1, DiskUnchanged
  <2> QED BY Zenon, <2>1, <2>4, <2>5, <2>6, <2>7 DEF ChainInv, NoTask
<1>5. ASSUME NEW pre \in DriverLog, NEW post \in DriverLog, EndBlock(pre, post) PROVE ChainInv'
  BY <1>5, EndBlockChain
<1>6. CASE FinishEvent
  <2>1. /\ pc' # "block" /\ UNCHANGED <<task, bs, blocks, blockIndex, confirmed, disk>>
    BY <1>6 DEF FinishEvent
  <2> QED BY <2>1, DiskUnchanged, QuietStep
<1>7. CASE Commit
  BY <1>7, CommitChain DEF Commit
<1>8. CASE Stop
  BY <1>8, DiskUnchanged, QuietStep DEF Stop, storeVars
<1>9. CASE StopCommit
  BY <1>9, CommitChain DEF StopCommit
<1>10. CASE CommitFails
  BY <1>10, DiskUnchanged, QuietStep DEF CommitFails, storeVars
<1>11. CASE StoreBlock
  BY <1>11, StoreBlockChain
<1>12. ASSUME NEW l \in DriverLog, FinishBlock(l) PROVE ChainInv'
  BY <1>12, FinishBlockChain
<1>13. CASE Restart
  BY <1>13, RestartChain
<1>14. CASE UNCHANGED vars
  <2>1. UNCHANGED <<pc, blk, task, bs, blocks, blockIndex, confirmed, disk>>
    BY Zenon, <1>14 DEF vars, connVars, storeVars
  <2>2. ChainUpTo(blocks, blockIndex, Top)' BY Zenon, <2>1 DEF ChainInv, Top
  <2>3. AtroposConfirmed(blocks, confirmed)' BY <2>1 DEF ChainInv
  <2>4. ChainComplete(disk)' /\ AtroposConfirmed(disk.blocks, disk.confirmed)'
    BY <2>1, DiskUnchanged
  <2> QED BY Zenon, <2>1, <2>2, <2>3, <2>4 DEF ChainInv
<1> QED BY <1>1, <1>2, <1>3, <1>4, <1>5, <1>6, <1>7, <1>8, <1>9, <1>10, <1>11, <1>12, <1>13, <1>14
        DEF Next, Connector, Worker

\* The invariant holds in every state of the service.
LEMMA ChainInvariant == Spec => [](TypeOK /\ ChainInv)
<1>1. Init => TypeOK /\ ChainInv BY InitType, InitChain
<1>2. TypeOK /\ ChainInv /\ [Next]_vars => (TypeOK /\ ChainInv)' BY NextType, NextChain
<1> QED BY <1>1, <1>2, PTL DEF Spec

\* Whatever the events, the frames the engine decides and the moments of commits
\* and crashes: the chain on disk is complete, and so is the one in memory
\* whenever no block function runs.
THEOREM ChainCorrect == Spec => []ChainIsComplete
<1>1. TypeOK /\ ChainInv => ChainIsComplete BY Zenon, IdleChain DEF ChainInv, ChainIsComplete
<1> QED BY <1>1, ChainInvariant, PTL

-----------------------------------------------------------------------------
(* The service implements Ledger *)

\* The chain that the readers of the store see.
SeenChain == [i \in 0..bs.LastBlock.Idx |-> blocks[i]]

\* The genesis state is an initial state of the ledger.
LEMMA LedgerInit == Init => ledger!Init
<1> SUFFICES ASSUME Init PROVE ledger!Init OBVIOUS
<1>1. bs.LastBlock.Idx = 0 /\ 0..0 = {0} BY SMTT(20) DEF Init
<1>2. disk.bs = bs /\ disk.blocks = blocks BY DEF Init, Snapshot
<1>3. DOMAIN SeenChain = {0} BY <1>1 DEF SeenChain
<1> QED BY Zenon, <1>1, <1>2, <1>3 DEF ledger!Init, SeenChain

\* A step that keeps the last block, the blocks up to it and the disk is
\* invisible to the readers.
LEMMA LedgerStutter ==
    ASSUME bs'.LastBlock.Idx = bs.LastBlock.Idx, UNCHANGED disk,
           \A i \in 0..bs.LastBlock.Idx : blocks'[i] = blocks[i]
    PROVE  UNCHANGED ledger!vars
<1>1. SeenChain' = SeenChain BY DEF SeenChain
<1> QED BY <1>1 DEF ledger!vars, SeenChain

\* A step that makes one more block the last one extends the ledger.
LEMMA LedgerExtend ==
    ASSUME bs.LastBlock.Idx \in Nat, bs'.LastBlock.Idx = bs.LastBlock.Idx + 1, UNCHANGED disk,
           \A i \in 0..bs.LastBlock.Idx : blocks'[i] = blocks[i],
           blocks'[bs'.LastBlock.Idx].Time > blocks[bs.LastBlock.Idx].Time,
           \A i \in 0..bs.LastBlock.Idx :
             blocks'[bs'.LastBlock.Idx].Atropos # blocks[i].Atropos
    PROVE  ledger!Extend
<1> DEFINE n == bs.LastBlock.Idx
<1>1. bs'.LastBlock.Idx = n + 1 /\ n \in Nat OBVIOUS
<1>2. DOMAIN SeenChain' = 0..(n + 1) BY <1>1 DEF SeenChain
<1>3. \A i \in 0..n : SeenChain'[i] = SeenChain[i]
  <2>1. \A i \in 0..n : SeenChain[i] = blocks[i] BY DEF SeenChain
  <2>2. \A i \in 0..(n + 1) : SeenChain'[i] = blocks'[i] BY <1>1 DEF SeenChain
  <2>3. \A i \in 0..n : i \in 0..(n + 1) BY <1>1
  <2> QED BY <2>1, <2>2, <2>3
<1>4. SeenChain'[n + 1] = blocks'[n + 1] BY <1>1 DEF SeenChain
<1>5. \A i \in 0..n : SeenChain[i] = blocks[i] BY DEF SeenChain
<1>6. SeenChain[n] = blocks[n] BY <1>1, <1>5
<1>7. SeenChain'[n + 1].Time > SeenChain[n].Time BY <1>1, <1>4, <1>6
<1>8. \A i \in 0..n : SeenChain'[n + 1].Atropos # SeenChain[i].Atropos BY <1>1, <1>4, <1>5
<1> QED BY Zenon, <1>1, <1>2, <1>3, <1>7, <1>8 DEF ledger!Extend, SeenChain

\* A commit while no block function runs persists the ledger.
LEMMA LedgerPersist ==
    ASSUME disk' = Snapshot, UNCHANGED <<bs, blocks>>
    PROVE  ledger!Persist
<1>1. disk'.bs = bs /\ disk'.blocks = blocks BY DEF Snapshot
<1> QED BY <1>1 DEF ledger!Persist

\* A restart recovers the persisted ledger.
LEMMA LedgerRecover ==
    ASSUME Restart
    PROVE  ledger!Recover
<1>1. bs' = disk.bs /\ blocks' = disk.blocks /\ disk' = disk BY DEF Restart
<1> QED BY <1>1 DEF ledger!Recover

\* Every step of the service is a step of the ledger or invisible in it.
LEMMA LedgerStep ==
    TypeOK /\ TypeOK' /\ ChainInv /\ [Next]_vars => [ledger!Next]_(ledger!vars)
<1> SUFFICES ASSUME TypeOK, TypeOK', ChainInv, [Next]_vars
             PROVE  ledger!Next \/ UNCHANGED ledger!vars
  OBVIOUS
<1> DEFINE n == bs.LastBlock.Idx
<1>0. n \in Nat /\ bs \in BlockStates BY TypeParts DEF MemoryOK, BlockStates
<1>1. ASSUME NEW e \in Event, ProcessEvent(e) PROVE UNCHANGED ledger!vars
  BY <1>1, LedgerStutter DEF ProcessEvent
<1>2. CASE ProcessEventFails
  BY <1>2, LedgerStutter DEF ProcessEventFails
<1>3. ASSUME NEW a \in Event, NEW cheaters \in SUBSET Validator, BeginBlock(a, cheaters)
      PROVE  UNCHANGED ledger!vars
  BY <1>3, LedgerStutter DEF BeginBlock
<1>4. CASE EndBlockSkipped
  <2> DEFINE conf == Applied(blk.atropos)
  <2>1. /\ pc = "block" /\ bs' = ProcessConfirmedEvents(blk.bs, conf)
        /\ UNCHANGED <<blocks, disk>>
    BY <1>4 DEF EndBlockSkipped
  <2>2. blk \in Blks /\ conf \in SUBSET Event
    BY Zenon, <2>1, TypeParts DEF ThreadsOK, MemoryOK, Applied
  <2>3. bs'.LastBlock = blk.bs.LastBlock BY SMTT(20), <2>1, <2>2, ProcessConfirmedType DEF Blks
  <2>4. bs'.LastBlock = bs.LastBlock BY Zenon, <2>1, <2>3 DEF ChainInv
  <2> QED BY <2>1, <2>4, LedgerStutter
<1>5. ASSUME NEW pre \in DriverLog, NEW post \in DriverLog, EndBlock(pre, post)
      PROVE  ledger!Next \/ UNCHANGED ledger!vars
  <2>1. disk' = disk BY <1>5, Zenon DEF EndBlock
  <2>2. /\ \A i \in 0..n : blocks'[i] = blocks[i]
        /\ bs'.LastBlock = bs.LastBlock \/ bs'.LastBlock.Idx = n + 1
        /\ bs'.LastBlock.Idx = n + 1 =>
             /\ blocks'[bs'.LastBlock.Idx].Time > blocks[n].Time
             /\ \A i \in 0..n : blocks'[bs'.LastBlock.Idx].Atropos # blocks[i].Atropos
    BY <1>5, EndBlockChain
  <2>3. CASE bs'.LastBlock = bs.LastBlock BY <2>1, <2>2, <2>3, LedgerStutter
  <2>4. CASE bs'.LastBlock.Idx = n + 1
    <3>1. ledger!Extend BY <1>0, <2>1, <2>2, <2>4, LedgerExtend
    <3> QED BY <3>1 DEF ledger!Next
  <2> QED BY <2>2, <2>3, <2>4
<1>6. CASE FinishEvent
  <2>1. UNCHANGED <<bs, blocks, disk>> BY <1>6 DEF FinishEvent
  <2> QED BY <2>1, LedgerStutter
<1>7. CASE Commit
  <2>1. disk' = Snapshot /\ UNCHANGED <<bs, blocks>> BY <1>7 DEF Commit, storeVars
  <2> QED BY <2>1, LedgerPersist DEF ledger!Next
<1>8. CASE Stop
  <2>1. UNCHANGED <<bs, blocks, disk>> BY <1>8 DEF Stop, storeVars
  <2> QED BY <2>1, LedgerStutter
<1>9. CASE StopCommit
  <2>1. disk' = Snapshot /\ UNCHANGED <<bs, blocks>> BY <1>9 DEF StopCommit, storeVars
  <2> QED BY <2>1, LedgerPersist DEF ledger!Next
<1>10. CASE CommitFails
  <2>1. UNCHANGED <<bs, blocks, disk>> BY <1>10 DEF CommitFails, storeVars
  <2> QED BY <2>1, LedgerStutter
<1>11. CASE StoreBlock
  <2>1. UNCHANGED <<bs, disk>> BY <1>11 DEF StoreBlock
  <2> QED BY <1>11, <2>1, StoreBlockChain, LedgerStutter
<1>12. ASSUME NEW l \in DriverLog, FinishBlock(l) PROVE ledger!Next
  <2>1. UNCHANGED <<blocks, disk>> BY <1>12 DEF FinishBlock
  <2>2. bs'.LastBlock.Idx = n + 1 BY <1>12, FinishBlockChain
  <2>3. ChainUpTo(blocks, blockIndex, n + 1) BY Zenon, <1>12 DEF ChainInv, Top, FinishBlock
  <2>4. n + 1 \in 1..(n + 1) /\ n + 1 \in 0..(n + 1) /\ (n + 1) - 1 = n BY <1>0
  <2>5. blocks[n].Time < blocks[n + 1].Time
    <3>1. blocks[(n + 1) - 1].Time < blocks[n + 1].Time BY <2>3, <2>4 DEF ChainUpTo
    <3> QED BY <2>4, <3>1
  <2>6. \A i \in 0..n : blocks[n + 1].Atropos # blocks[i].Atropos
    <3> TAKE i \in 0..n
    <3>1. i \in 0..(n + 1) /\ i # n + 1 BY <1>0
    <3>2. blockIndex[blocks[i].Atropos] = i /\ blockIndex[blocks[n + 1].Atropos] = n + 1
      BY Zenon, <2>3, <2>4, <3>1 DEF ChainUpTo
    <3> QED BY <3>1, <3>2
  <2>7. blocks[n + 1].Time > blocks[n].Time
    <3>1. blocks[n].Time \in Nat /\ blocks[n + 1].Time \in Nat
      BY SMTT(20), <1>0, <2>3, <2>4, TypeParts DEF ChainUpTo, MemoryOK, Blocks
    <3> QED BY SMTT(20), <2>5, <3>1
  <2>8. ledger!Extend BY <1>0, <2>1, <2>2, <2>6, <2>7, LedgerExtend
  <2> QED BY <2>8 DEF ledger!Next
<1>13. CASE Restart
  BY <1>13, LedgerRecover DEF ledger!Next
<1>14. CASE UNCHANGED vars
  <2>1. UNCHANGED <<bs, blocks, disk>> BY <1>14 DEF vars, storeVars
  <2> QED BY <2>1, LedgerStutter
<1> QED BY <1>1, <1>2, <1>3, <1>4, <1>5, <1>6, <1>7, <1>8, <1>9, <1>10, <1>11, <1>12, <1>13, <1>14
        DEF Next, Connector, Worker

\* The readers of the store see an append-only chain with unique block ids and
\* increasing times, whose durable prefix a crash falls back to: for every
\* instance, block processing on two threads implements Ledger.
THEOREM ImplementsLedger == Spec => LedgerSpec
<1>1. Init => ledger!Init BY LedgerInit
<1>2. TypeOK /\ TypeOK' /\ ChainInv /\ [Next]_vars => [ledger!Next]_(ledger!vars) BY LedgerStep
<1>3. Spec => [](TypeOK /\ ChainInv) BY ChainInvariant
<1> QED BY <1>1, <1>2, <1>3, PTL DEF Spec, LedgerSpec, ledger!Spec
=============================================================================
