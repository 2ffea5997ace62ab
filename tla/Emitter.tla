------------------------------- MODULE Emitter -------------------------------
(***************************************************************************)
(* The emitter's protection against signing two events with the same       *)
(* sequence number: the file with the id of the last emitted event, the    *)
(* pause until the node is synced, and the crashes and rollbacks of the    *)
(* database that they are meant to survive.  Only the validator's own      *)
(* events are modelled; the node is a validator in every epoch, and one    *)
(* instance of it runs at a time.                                          *)
(***************************************************************************)
EXTENDS Naturals

CONSTANTS
    MaxEpoch, MaxSeq,       \* bounds: epochs and events per epoch
    MaxRuns,                \* bound: starts of the process
    DoublesignProtection,   \* config.EmitIntervals.DoublesignProtection
    YoungNetwork,           \* less than networkStartPeriod since genesis
    Timely,     \* peers return the validator's own events within the pause
    EarlyServe  \* peers may fetch an event before its id is in the file

ASSUME EmitterAssumption ==
    /\ MaxEpoch \in Nat /\ MaxSeq \in Nat /\ MaxRuns \in Nat
    /\ DoublesignProtection \in Nat \ {0}
    /\ YoungNetwork \in BOOLEAN /\ Timely \in BOOLEAN /\ EarlyServe \in BOOLEAN

VARIABLES
    pc,         \* EmitEvent: "idle", "saved", "process", "connected", "written"
    new,        \* the event being emitted
    epoch,      \* em.epoch, and the epoch of the store
    events,     \* own events in the store
    last,       \* GetLastEvent(epoch, me): the last connected own event
    protection, \* em.intervals.DoublesignProtection
    waited,     \* the protection interval passed since start, sync and self-events
    run,        \* which start of the process this is
    file,       \* the emitted-event file
    db,         \* what a restart finds in the databases
    published   \* own events that some peer holds

vars == <<pc, new, epoch, events, last, protection, waited, run, file, db, published>>

\* An event is named by its epoch, its sequence number and the run that
\* signed it; within a run a sequence number is signed at most once, unless
\* its event was deleted (DelEvent) before anyone could see it.
OwnEvent == [epoch: 1..MaxEpoch, seq: 1..MaxSeq, run: 1..MaxRuns]
NoEvent  == [epoch |-> 0, seq |-> 0, run |-> 0]

-----------------------------------------------------------------------------

\* recountValidators: the config value is not read again, so each call within
\* networkStartPeriod divides the interval once more.
recountValidators(interval) == IF YoungNetwork THEN interval \div 6 ELSE interval

\* Mutant of FileEventMissing: an event of the current epoch is not waited for.
FileEventMissingStrict == file # NoEvent /\ file \notin events /\ epoch < file.epoch

\* currentSyncStatus: the file names an event that the store does not have and
\* that is not from an epoch gone by.
FileEventMissing == file # NoEvent /\ file \notin events /\ epoch <= file.epoch

\* Mutant of isSyncedToEmit: the file is the only protection.
isSyncedToEmitByFile == protection = 0 \/ ~FileEventMissing

\* isSyncedToEmit: a zero interval disables the protection, the file included.
isSyncedToEmit == protection = 0 \/ (waited /\ ~FileEventMissing)

Init ==
    /\ pc = "idle" /\ new = NoEvent /\ epoch = 1 /\ events = {} /\ last = NoEvent
    /\ protection = recountValidators(DoublesignProtection)
    /\ waited = FALSE /\ run = 1 /\ file = NoEvent
    /\ db = [epoch |-> 1, events |-> {}, last |-> NoEvent]
    /\ published = {}

-----------------------------------------------------------------------------
(* EmitEvent, under engineMu *)

\* createEvent: sign an event after the last connected own event; then
\* saveAndProcessEvent stores it.  The other reasons to return early (a busy node, two
\* own heads among the chosen parents, gas power, isAllowedToEmit) only make the
\* step wait.
CreateEvent ==
    /\ pc = "idle"
    /\ isSyncedToEmit
    /\ last.seq < MaxSeq
    /\ new' = [epoch |-> epoch, seq |-> last.seq + 1, run |-> run]
    /\ events' = events \cup {new'}
    /\ pc' = "saved"
    /\ UNCHANGED <<epoch, last, protection, waited, run, file, db, published>>

\* saveAndProcessEvent fails: the event is deleted, EmitEvent returns and the
\* sequence number is used again.  Assumed: no peer fetched the event meanwhile.
DelEvent ==
    /\ pc = "saved" /\ new \notin published
    /\ events' = events \ {new}
    /\ pc' = "idle"
    /\ UNCHANGED <<new, epoch, last, protection, waited, run, file, db, published>>

\* The event is connected: the emitter continues from it.
processLastEvent ==
    /\ pc = "saved"
    /\ last' = new
    /\ pc' = "process"
    /\ UNCHANGED <<new, epoch, events, protection, waited, run, file, db, published>>

\* world.Process succeeded.
Connected ==
    /\ pc = "process"
    /\ pc' = "connected"
    /\ UNCHANGED <<new, epoch, events, last, protection, waited, run, file, db, published>>

\* world.Process failed in Commit: the event stays connected, EmitEvent returns.
ProcessFails ==
    /\ pc = "process"
    /\ pc' = "idle"
    /\ UNCHANGED <<new, epoch, events, last, protection, waited, run, file, db, published>>

writeLastEmittedEventID ==
    /\ pc = "connected"
    /\ file' = new
    /\ pc' = "written"
    /\ UNCHANGED <<new, epoch, events, last, protection, waited, run, db, published>>

Broadcast ==
    /\ pc = "written"
    /\ published' = published \cup {new}
    /\ pc' = "idle"
    /\ UNCHANGED <<new, epoch, events, last, protection, waited, run, file, db>>

-----------------------------------------------------------------------------
(* processEvent of this and of other validators' events, and the network *)

\* Commit of the databases, within any processEvent.
Commit ==
    /\ pc \in {"idle", "process"}
    /\ db' = [epoch |-> epoch, events |-> events, last |-> last]
    /\ UNCHANGED <<pc, new, epoch, events, last, protection, waited, run, file, published>>

\* Mutant of OnNewEpoch: the last own event of the old epoch is kept.
OnNewEpochKeepsLast ==
    /\ pc \in {"idle", "process"} /\ epoch < MaxEpoch
    /\ epoch' = epoch + 1
    /\ protection' = recountValidators(protection)
    /\ UNCHANGED <<pc, new, events, last, waited, run, file, db, published>>

\* An event sealed the epoch: OnNewEpoch recounts the validators.
OnNewEpoch ==
    /\ pc \in {"idle", "process"} /\ epoch < MaxEpoch
    /\ epoch' = epoch + 1 /\ last' = NoEvent
    /\ protection' = recountValidators(protection)
    /\ UNCHANGED <<pc, new, events, waited, run, file, db, published>>

\* A peer returns an own event that this store lacks: onNewExternalEvent
\* restarts the pause.  If DetectParallelInstance takes it for the event of another
\* instance, errlock.Permanent stops the process here; the start after the operator
\* removed the lock is a Restart like any other.
OnExternalSelfEvent(e) ==
    /\ pc = "idle"
    /\ e \in published \ events /\ e.epoch = epoch
    /\ e.seq = 1 \/ \E p \in events : p.epoch = epoch /\ p.seq = e.seq - 1
    /\ events' = events \cup {e} /\ last' = e
    /\ waited' = FALSE
    /\ UNCHANGED <<pc, new, epoch, protection, run, file, db, published>>

\* recheckChallenges: some challenged validator stayed silent.
recheckChallenges ==
    /\ pc = "idle"
    /\ protection' = recountValidators(protection)
    /\ UNCHANGED <<pc, new, epoch, events, last, waited, run, file, db, published>>

\* No peer, or the node is no longer synced: the pause starts again.
SyncLost ==
    /\ waited
    /\ waited' = FALSE
    /\ UNCHANGED <<pc, new, epoch, events, last, protection, run, file, db, published>>

\* The node has been connected and synced for the whole interval.
PausePassed ==
    /\ ~waited
    /\ Timely => \A e \in published : e.epoch >= epoch => e \in events
    /\ waited' = TRUE
    /\ UNCHANGED <<pc, new, epoch, events, last, protection, run, file, db, published>>

\* The DAG stream seeder serves whatever the store holds.
ServeEvent(e) ==
    /\ e \in events \ published
    /\ EarlyServe \/ e.epoch < file.epoch \/ (e.epoch = file.epoch /\ e.seq <= file.seq)
    /\ published' = published \cup {e}
    /\ UNCHANGED <<pc, new, epoch, events, last, protection, waited, run, file, db>>

\* The process dies and starts again: the file survives, the databases are
\* those of the last Commit.
Restart ==
    /\ run < MaxRuns
    /\ run' = run + 1
    /\ pc' = "idle" /\ new' = NoEvent
    /\ epoch' = db.epoch /\ events' = db.events /\ last' = db.last
    /\ protection' = recountValidators(DoublesignProtection)
    /\ waited' = FALSE
    /\ UNCHANGED <<file, db, published>>

Next ==
    \/ CreateEvent \/ DelEvent \/ processLastEvent \/ Connected \/ ProcessFails \/ writeLastEmittedEventID \/ Broadcast
    \/ Commit \/ OnNewEpoch
    \/ \E e \in published : OnExternalSelfEvent(e)
    \/ recheckChallenges \/ SyncLost \/ PausePassed
    \/ \E e \in events : ServeEvent(e)
    \/ Restart

Spec == Init /\ [][Next]_vars

-----------------------------------------------------------------------------
(* Properties *)

\* Type correctness of EmitEvent's state, the file and the databases; the last
\* own event is a stored event of the current epoch.
TypeOK ==
    /\ pc \in {"idle", "saved", "process", "connected", "written"}
    /\ new \in OwnEvent \cup {NoEvent} /\ last \in OwnEvent \cup {NoEvent}
    /\ file \in OwnEvent \cup {NoEvent}
    /\ epoch \in 1..MaxEpoch /\ events \subseteq OwnEvent /\ published \subseteq OwnEvent
    /\ protection \in Nat /\ waited \in BOOLEAN /\ run \in 1..MaxRuns
    /\ db.epoch \in 1..MaxEpoch /\ db.events \subseteq OwnEvent
    /\ last # NoEvent => last \in events /\ last.epoch = epoch
    /\ db.last # NoEvent => db.last \in db.events /\ db.last.epoch = db.epoch

\* "write event ID to avoid doublesigning in future after a crash"
\* (emitter.go): no two different own events with the same epoch and sequence
\* number are ever held by peers.
NoDoublesign ==
    \A a, b \in published : a.epoch = b.epoch /\ a.seq = b.seq => a = b
=============================================================================
