------------------------------- MODULE TxPool -------------------------------
(***************************************************************************)
(* evmcore.TxPool: the pending and queued lists of every account, the      *)
(* lookup table, the price heap with its stale entries, the pending        *)
(* nonces, heartbeats, local accounts and their journal; submissions,      *)
(* resets on new blocks, the background reorganisation, price updates,     *)
(* eviction, journal rotation and restarts.                                *)
(*                                                                         *)
(* Every operation works on the pool under pool.mu, so it is an operator   *)
(* from pool to pool.  Each transaction takes one slot and its gas is      *)
(* below every limit; the caps on cost stand for the caps on gas too.      *)
(***************************************************************************)
EXTENDS Integers, FiniteSets, Sequences, SequencesExt

CONSTANTS
    Account,        \* senders
    Tx,             \* transactions: [from, nonce, price, cost]
    Prices,         \* gas prices that rules and the oracle may ask for
    PriceLimit,     \* config.PriceLimit
    Balance,        \* balances an account may have
    InitBalance,    \* balance of every account in the first state
    Sources,        \* submissions: FALSE from the network, TRUE from the RPC
    AccountSlots, GlobalSlots, AccountQueue, GlobalQueue, PriceBump,
    MaxBlocks,      \* bound: blocks
    MaxRestarts     \* bound: restarts of the process

\* The heap order is total on Tx, so that no choice between equals is left.
ASSUME TxPoolAssumption ==
    /\ \A t \in Tx : t.from \in Account /\ t.nonce \in Nat /\ t.price \in Nat /\ t.cost \in Nat
    /\ \A t, u \in Tx : t.price = u.price /\ t.nonce = u.nonce => t = u
    /\ AccountSlots \in Nat \ {0} /\ GlobalSlots \in Nat \ {0}
    /\ AccountQueue \in Nat \ {0} /\ GlobalQueue \in Nat \ {0} /\ PriceBump \in Nat \ {0}

VARIABLES
    pool,       \* the fields of TxPool guarded by mu
    chain,      \* what the store says now: nonces, balances, price, included
    heads,      \* new blocks whose reset has not run, oldest first
    dirty,      \* accounts whose promotion is requested
    wake,       \* a run without accounts is requested
    events,     \* queuedEvents of scheduleReorgLoop
    running,    \* a runReorg has not ended
    sending,    \* what it sends after the unlock
    announced,  \* history: pooled transactions that were sent on txFeed
    submitted,  \* history: pooled transactions that a local caller queued
    blocks, restarts

vars == <<pool, chain, heads, dirty, wake, events, running, sending, announced, submitted, blocks, restarts>>

Limit == GlobalSlots + GlobalQueue

-----------------------------------------------------------------------------
(* txList: a set of transactions with one per nonce, and the cost cap *)

NoList == [txs |-> {}, costcap |-> 0]

Trim(l) == IF l.txs = {} THEN NoList ELSE l

NoncesOf(l) == {t.nonce : t \in l.txs}

OfNonce(l, n) == {t \in l.txs : t.nonce = n}

Larger(a, b) == IF a > b THEN a ELSE b

\* txList.Add: an old transaction with the nonce stays unless the price is bumped.
Add(l, tx) ==
    LET old  == OfNonce(l, tx.nonce)
        keep == \E o \in old : \/ o.price >= tx.price
                               \/ tx.price < (o.price * (100 + PriceBump)) \div 100
    IN  [ok   |-> ~keep, old |-> old,
         list |-> [txs |-> (l.txs \ old) \cup {tx}, costcap |-> Larger(l.costcap, tx.cost)]]

\* What Forward and Cap remove.
Forward(l, nonce) == {t \in l.txs : t.nonce < nonce}

Cap(l, size) == {t \in l.txs : Cardinality({u \in l.txs : u.nonce <= t.nonce}) > size}

Without(l, gone) == [l EXCEPT !.txs = @ \ gone]

\* Mutant of Invalids: the list is filtered as if it were not strict.
InvalidsNone(l, drops) == {}

\* The strict list's transactions above the lowest one that Filter removed.
Invalids(l, drops) == {t \in l.txs \ drops : \E d \in drops : d.nonce < t.nonce}

\* txList.Filter: what costs more than the limit, unless the cap says that nothing
\* does; the cap is lowered to the limit.
FilterDrops(l, limit) == IF l.costcap <= limit THEN {} ELSE {t \in l.txs : t.cost > limit}

Filter(l, limit, gone) ==
    [txs |-> l.txs \ gone, costcap |-> IF l.costcap <= limit THEN l.costcap ELSE limit]

Ready(l, start) ==
    IF ~\E t \in l.txs : t.nonce <= start THEN {}
    ELSE {t \in l.txs : \E low \in NoncesOf(l) :
             /\ \A n \in NoncesOf(l) : low <= n
             /\ low..t.nonce \subseteq NoncesOf(l)}

ByNonce(S) == SetToSortSeq(S, LAMBDA t, u : t.nonce < u.nonce)

-----------------------------------------------------------------------------
(* txLookup and txPricedList *)

All(p) == p.locals \cup p.remotes

Worse(t, u) == t.price < u.price \/ (t.price = u.price /\ t.nonce > u.nonce)

InHeap(p) == {t \in Tx : p.heap[t] > 0}

Live(p) == InHeap(p) \cap p.remotes

Weight(p, S) == FoldSet(LAMBDA t, n : n + p.heap[t], 0, S)

Reheap(p) == [p EXCEPT !.heap = [t \in Tx |-> IF t \in p.remotes THEN 1 ELSE 0], !.stales = 0]

Removed(p, count) ==
    IF p.stales + count <= Weight(p, InHeap(p)) \div 4
    THEN [p EXCEPT !.stales = @ + count]
    ELSE Reheap(p)

\* Mutant of Put: the flag is inverted.
PutLocals(p, tx, local) == IF ~local THEN p ELSE [p EXCEPT !.heap[tx] = @ + 1]

Put(p, tx, local) == IF local THEN p ELSE [p EXCEPT !.heap[tx] = @ + 1]

AllAdd(p, tx, local) == IF local THEN [p EXCEPT !.locals = @ \cup {tx}]
                                 ELSE [p EXCEPT !.remotes = @ \cup {tx}]

AllRemove(p, S) == [p EXCEPT !.locals = @ \ S, !.remotes = @ \ S]

\* Mutant of Pop: every popped entry counts as stale.
PopCountsAll(p, S) ==
    [p EXCEPT !.heap = [t \in Tx |-> IF t \in S THEN 0 ELSE @[t]],
              !.stales = @ - Weight(p, S)]

\* Pop the entries of S; the ones without a remote transaction were stale.
Pop(p, S) ==
    [p EXCEPT !.heap = [t \in Tx |-> IF t \in S THEN 0 ELSE @[t]],
              !.stales = @ - Weight(p, S \ p.remotes)]

\* txPricedList.Cap: everything in front of the first live entry at the threshold.
CapPopped(p, threshold) ==
    {t \in InHeap(p) : \A u \in Live(p) : u.price >= threshold => Worse(t, u)}

\* Underpriced pops the stale entries in front; the cheapest live one decides.
PopStaleFront(p) == Pop(p, {t \in InHeap(p) \ p.remotes : \A u \in Live(p) : Worse(t, u)})

Underpriced(p, tx) == Live(p) # {} /\ \A t \in Live(p) : t.price >= tx.price

\* Discard pops entries until the wanted number of live ones is found.  These are
\* the live entries in front of t, and the entries of t that it takes; a
\* transaction that is in the heap twice counts twice.
InFront(p, t) == Weight(p, {u \in Live(p) : Worse(u, t)})

Taken(held, wanted) == IF wanted <= 0 THEN 0 ELSE IF held < wanted THEN held ELSE wanted

PopLive(p, slots) ==
    [p EXCEPT !.heap = [t \in Tx |-> IF t \in p.remotes THEN @[t] - Taken(@[t], slots - InFront(p, t)) ELSE @[t]]]

Discard(p, slots, force) ==
    LET clean == Pop(p, {t \in InHeap(p) \ p.remotes : InFront(p, t) < slots})
    IN  IF force \/ slots <= Weight(p, Live(p))
        THEN [success |-> TRUE, drop |-> {t \in Live(p) : InFront(p, t) < slots}, pool |-> PopLive(clean, slots)]
        ELSE [success |-> FALSE, drop |-> {}, pool |-> clean]

ByPrice(S) == SetToSortSeq(S, Worse)

-----------------------------------------------------------------------------
(* Moving transactions within the pool *)

Beat(p, a)       == [p EXCEPT !.beats = Append(SelectSeq(@, LAMBDA b : b # a), a)]
Forget(p, a)     == [p EXCEPT !.beats = SelectSeq(@, LAMBDA b : b # a)]
HasBeat(p, a)    == \E i \in DOMAIN p.beats : p.beats[i] = a
EnsureBeat(p, a) == IF HasBeat(p, a) THEN p ELSE Beat(p, a)

\* The transaction that Add replaced leaves the pool.
DropOld(p, old) == IF old = {} THEN p ELSE Removed(AllRemove(p, old), 1)

\* A new transaction in the lookup table and in the heap.
Record(p, tx, local) == Put(AllAdd(p, tx, local), tx, local)

\* enqueueTx; r is the outcome of Add.
Enqueue(p, r, tx) == EnsureBeat(DropOld([p EXCEPT !.queue[tx.from] = r.list], r.old), tx.from)

\* Mutant of Shuffle: no heartbeat is recorded.
ShuffleSilently(p, tx) ==
    LET r == Add(p.queue[tx.from], tx)
    IN  IF r.ok THEN DropOld([p EXCEPT !.queue[tx.from] = r.list], r.old) ELSE p

\* Internal shuffle: enqueueTx without the lookup table.
Shuffle(p, tx) ==
    LET r == Add(p.queue[tx.from], tx)
    IN  IF r.ok THEN Enqueue(p, r, tx) ELSE p

Postpone(p, S) == FoldLeft(Shuffle, p, ByNonce(S))

\* Mutant of LowerNonce: the pending nonce stays.
LowerNonceNot(p, a, nonce) == p

\* txNoncer.setIfLower
LowerNonce(p, a, nonce) == [p EXCEPT !.nonces[a] = IF @ <= nonce THEN @ ELSE nonce]

\* removeTx from a pending list: what follows is postponed.
RemovePending(p, a, nonce) ==
    LowerNonce(Postpone([p EXCEPT !.pending[a] = Trim([@ EXCEPT !.txs = Forward(p.pending[a], nonce)])],
                        {t \in p.pending[a].txs : t.nonce > nonce}),
               a, nonce)

\* The queue of an account, without the list and the heartbeat when it is empty.
SetQueue(p, a, l) ==
    IF l.txs = {} THEN Forget([p EXCEPT !.queue[a] = NoList], a) ELSE [p EXCEPT !.queue[a] = l]

\* The lists are searched by nonce.
RemoveFromLists(p, a, nonce) ==
    IF nonce \in NoncesOf(p.pending[a]) THEN RemovePending(p, a, nonce)
    ELSE IF p.queue[a].txs = {} THEN p
    ELSE SetQueue(p, a, Without(p.queue[a], OfNonce(p.queue[a], nonce)))

\* removeTx; an entry that is not popped yet goes stale (outofbound).
removeTx(p, tx, outofbound) ==
    IF tx \notin All(p) THEN p
    ELSE RemoveFromLists(IF outofbound THEN Removed(AllRemove(p, {tx}), 1) ELSE AllRemove(p, {tx}),
                         tx.from, tx.nonce)

RemoveAll(p, seq, outofbound) == FoldLeft(LAMBDA q, tx : removeTx(q, tx, outofbound), p, seq)

-----------------------------------------------------------------------------
(* Submission *)

validateTx(p, c, tx, local) ==
    /\ local \/ tx.from \in p.accts \/ tx.price >= p.gasPrice
    /\ p.state.nonce[tx.from] <= tx.nonce
    /\ tx.cost <= p.state.balance[tx.from]
    /\ c.minPrice <= tx.price
    /\ tx \notin c.included

journalTx(p, tx) == IF tx.from \in p.accts THEN [p EXCEPT !.journal = @ \cup {tx}] ELSE p

\* Mutant of Whitelist: the migrated transactions are not counted and stay remote.
WhitelistCopies(p, a) ==
    [p EXCEPT !.accts = @ \cup {a}, !.locals = @ \cup {t \in p.remotes : t.from = a}]

\* The first local transaction of an account migrates its remote ones.
Whitelist(p, a) ==
    LET mine == {t \in p.remotes : t.from = a}
    IN  IF a \in p.accts THEN p
        ELSE Removed([p EXCEPT !.accts = @ \cup {a}, !.locals = @ \cup mine, !.remotes = @ \ mine],
                     Cardinality(mine))

\* The outcomes of add: "refused", "pending" (a pending transaction was
\* replaced), "queued" or "requeued" (a queued one was replaced).
Outcome(how, p) == [how |-> how, pool |-> p]

\* l is the outcome of Add on the pending list.
ReplacePending(p, l, tx, isLocal) ==
    IF ~l.ok THEN Outcome("refused", p)
    ELSE Outcome("pending",
                 Beat(journalTx(Record(DropOld([p EXCEPT !.pending[tx.from] = l.list], l.old), tx, isLocal), tx),
                      tx.from))

\* q is the outcome of Add on the queue.
EnqueueNew(p, q, tx, local, isLocal) ==
    LET queued == EnsureBeat(Record(DropOld([p EXCEPT !.queue[tx.from] = q.list], q.old), tx, isLocal), tx.from)
    IN  IF ~q.ok THEN Outcome("refused", p)
        ELSE Outcome(IF q.old = {} THEN "queued" ELSE "requeued",
                     journalTx(IF local THEN Whitelist(queued, tx.from) ELSE queued, tx))

Insert(p, tx, local, isLocal) ==
    IF tx.nonce \in NoncesOf(p.pending[tx.from])
    THEN ReplacePending(p, Add(p.pending[tx.from], tx), tx, isLocal)
    ELSE EnqueueNew(p, Add(p.queue[tx.from], tx), tx, local, isLocal)

\* The cheapest transactions made room, or not (d is the outcome of Discard).
KickOut(d, tx, local, isLocal) ==
    IF d.success THEN Insert(RemoveAll(d.pool, ByPrice(d.drop), FALSE), tx, local, isLocal)
    ELSE Outcome("refused", d.pool)

\* Mutant of Missing: one slot less than the new transaction needs.
MissingShort(p) == Cardinality(All(p)) - Limit

\* The slots that the pool lacks for one more transaction.  Every transaction here
\* takes one slot, so that Count and Slots are the same.
Missing(p) == Cardinality(All(p)) - Limit + 1

InsertFull(p, tx, local, isLocal) ==
    IF ~isLocal /\ Underpriced(p, tx) THEN Outcome("refused", p)
    ELSE KickOut(Discard(p, Missing(p), isLocal), tx, local, isLocal)

add(p, c, tx, local) ==
    LET isLocal == local \/ tx.from \in p.accts
    IN  IF tx \in All(p) \/ ~validateTx(p, c, tx, isLocal) THEN Outcome("refused", p)
        ELSE IF Cardinality(All(p)) + 1 <= Limit THEN Insert(p, tx, local, isLocal)
        ELSE InsertFull(IF isLocal THEN p ELSE PopStaleFront(p), tx, local, isLocal)

-----------------------------------------------------------------------------
(* The parts of runReorg *)

\* Accounts and transactions are folded over s = [pool, promoted].
Promoted(s, r, tx) ==
    IF r.ok
    THEN [pool |-> Beat([DropOld([s.pool EXCEPT !.pending[tx.from] = r.list], r.old)
                            EXCEPT !.nonces[tx.from] = tx.nonce + 1], tx.from),
          promoted |-> s.promoted \cup {tx}]
    ELSE [s EXCEPT !.pool = Removed(AllRemove(@, {tx}), 1)]

promoteTx(s, tx) == Promoted(s, Add(s.pool.pending[tx.from], tx), tx)

\* The end of promoteExecutables for an account whose queue is l: the cap of
\* AccountQueue; gone left the queue before.
CapQueue(s, a, l, caps, gone) ==
    [s EXCEPT !.pool = SetQueue(Removed(AllRemove(@, caps), Cardinality(caps \cup gone)), a, Without(l, caps))]

\* Mutant of PromoteReady: the list keeps what is ready.
PromoteReadyCopies(s, a, l, readies, gone) ==
    CapQueue(FoldLeft(promoteTx, [s EXCEPT !.pool = AllRemove(@, gone)], ByNonce(readies)), a, l,
             IF a \in s.pool.accts THEN {} ELSE Cap(l, AccountQueue), gone)

\* Gather what is ready in the filtered queue l and promote it.
PromoteReady(s, a, l, readies, gone) ==
    CapQueue(FoldLeft(promoteTx, [s EXCEPT !.pool = AllRemove(@, gone)], ByNonce(readies)), a,
             Without(l, readies),
             IF a \in s.pool.accts THEN {} ELSE Cap(Without(l, readies), AccountQueue),
             gone)

\* The list l without the old transactions and the unpayable ones.
FilteredQueue(l, limit) == Filter(l, limit, FilterDrops(l, limit))

PromoteFiltered(s, a, l) ==
    PromoteReady(s, a, l, Ready(l, s.pool.nonces[a]), s.pool.queue[a].txs \ l.txs)

promoteAccount(s, a) ==
    IF s.pool.queue[a].txs = {} THEN s
    ELSE PromoteFiltered(s, a,
            FilteredQueue(Without(s.pool.queue[a], Forward(s.pool.queue[a], s.pool.state.nonce[a])),
                          s.pool.state.balance[a]))

promoteExecutables(p, accounts) == FoldLeft(promoteAccount, [pool |-> p, promoted |-> {}], accounts)

\* The end of demoteUnexecutables for an account: l is the filtered pending list.
\* A gap in front postpones all of it.
DemoteGapped(p, a, l) ==
    IF l.txs # {} /\ OfNonce(l, p.state.nonce[a]) = {}
    THEN [Postpone([p EXCEPT !.pending[a] = NoList], l.txs) EXCEPT !.gapped = TRUE]
    ELSE [p EXCEPT !.pending[a] = Trim(l)]

\* l is the pending list without the old transactions.
DemoteFiltered(p, a, l, drops, invalids) ==
    LET gone == (p.pending[a].txs \ l.txs) \cup drops
    IN  DemoteGapped(Postpone(Removed(AllRemove(p, gone), Cardinality(gone)), invalids), a,
                     Filter(l, p.state.balance[a], drops \cup invalids))

DemoteForwarded(p, a, l) ==
    LET drops == FilterDrops(l, p.state.balance[a])
    IN  DemoteFiltered(p, a, l, drops, Invalids(l, drops))

demoteAccount(p, a) ==
    IF p.pending[a].txs = {} THEN p
    ELSE DemoteForwarded(p, a, Without(p.pending[a], Forward(p.pending[a], p.state.nonce[a])))

demoteUnexecutables(p, accounts) == FoldLeft(demoteAccount, p, accounts)

Pending(p, a) == Cardinality(p.pending[a].txs)
Queued(p, a)  == Cardinality(p.queue[a].txs)
TotalPending(p) == FoldSet(LAMBDA a, n : n + Pending(p, a), 0, Account)
TotalQueued(p)  == FoldSet(LAMBDA a, n : n + Queued(p, a), 0, Account)

\* One transaction less for an offender.  The folds of truncatePending work on
\* s = [pool, pending, offenders], where pending is the loop's own count.
DropLast(p, a, tx) ==
    Removed(LowerNonce(AllRemove([p EXCEPT !.pending[a].txs = @ \ {tx}], {tx}), a, tx.nonce), 1)

\* Mutant of CapLast: a dropped transaction is counted twice.
CapLastCountsTwice(s, a) ==
    [s EXCEPT !.pool = FoldLeft(LAMBDA p, tx : DropLast(p, a, tx), @, ByNonce(Cap(@.pending[a], Pending(@, a) - 1))),
              !.pending = @ - 2]


CapLast(s, a) ==
    [s EXCEPT !.pool = FoldLeft(LAMBDA p, tx : DropLast(p, a, tx), @, ByNonce(Cap(@.pending[a], Pending(@, a) - 1))),
              !.pending = @ - 1]

\* Rounds over the offenders until the pool fits or the pending list of a is not
\* longer than the target; no more rounds than transactions are needed.
Rounds(s, offenders, a, target) ==
    FoldLeft(LAMBDA r, i : IF r.pending > GlobalSlots /\ Pending(r.pool, a) > target
                           THEN FoldLeft(CapLast, r, offenders) ELSE r,
             s, [i \in 1..Cardinality(Tx) |-> i])

Offend(s, a) == [s EXCEPT !.offenders = Append(@, a)]

\* Mutant of Equalize: the new offender is reduced instead of the former ones.
EqualizeNewest(s, a) ==
    IF s.pending <= GlobalSlots THEN s
    ELSE IF s.offenders = <<>> THEN Offend(s, a)
    ELSE Rounds(Offend(s, a), <<a>>, Last(s.offenders), Pending(s.pool, a))

\* The next offender: the former ones are reduced to its length.
Equalize(s, a) ==
    IF s.pending <= GlobalSlots THEN s
    ELSE IF s.offenders = <<>> THEN Offend(s, a)
    ELSE Rounds(Offend(s, a), s.offenders, Last(s.offenders), Pending(s.pool, a))

\* The last loop: all offenders, down to AccountSlots.
ReduceOffenders(s) ==
    IF s.offenders = <<>> THEN s.pool
    ELSE Rounds(s, s.offenders, Last(s.offenders), AccountSlots).pool

\* The remote accounts above AccountSlots, longest first; ties in the given order.
Spammers(p, order) ==
    SetToSortSeq({a \in Account \ p.accts : Pending(p, a) > AccountSlots},
                 LAMBDA a, b : \/ Pending(p, a) > Pending(p, b)
                               \/ /\ Pending(p, a) = Pending(p, b)
                                  /\ \E i \in DOMAIN order : order[i] = a /\ \E j \in DOMAIN order : order[j] = b /\ i < j)

truncatePending(p, order) ==
    ReduceOffenders(FoldLeft(Equalize, [pool |-> p, pending |-> TotalPending(p), offenders |-> <<>>],
                             Spammers(p, order)))

\* Mutant of LastQueued: one short.
LastQueuedShort(list, n) == SubSeq(Reverse(list), 1, n - 1)

\* The last n of a list, from the end.
LastQueued(list, n) == SubSeq(Reverse(list), 1, n)

\* An account loses its queue, or the end of it; s is [pool, drop].
DropList(s, list) ==
    IF Len(list) <= s.drop
    THEN [pool |-> RemoveAll(s.pool, list, TRUE), drop |-> s.drop - Len(list)]
    ELSE [pool |-> RemoveAll(s.pool, LastQueued(list, s.drop), TRUE), drop |-> 0]

DropQueued(s, a) == DropList(s, ByNonce(s.pool.queue[a].txs))

\* Remote accounts with queued transactions by heartbeat, none first.
ByHeartbeat(p) ==
    SelectSeq(SetToSeq({a \in Account : ~HasBeat(p, a)}) \o p.beats,
              LAMBDA a : a \notin p.accts /\ p.queue[a].txs # {})

\* truncateQueue starts with the latest heartbeat.
truncateQueue(p) ==
    IF TotalQueued(p) <= GlobalQueue THEN p
    ELSE FoldLeft(DropQueued, [pool |-> p, drop |-> TotalQueued(p) - GlobalQueue], Reverse(ByHeartbeat(p))).pool

\* pool.reset on a chain that only grows: a head that skips blocks is walked back
\* to the old one, so nothing is discarded and nothing reinjected.  Blocks and
\* states are never missing; the early returns for those are not modelled.
reset(p, head) == [p EXCEPT !.state = head, !.nonces = head.nonce]

UpdateNonces(p) ==
    [p EXCEPT !.nonces = [a \in Account |->
        IF p.pending[a].txs = {} THEN @[a]
        ELSE 1 + CHOOSE n \in NoncesOf(p.pending[a]) : \A m \in NoncesOf(p.pending[a]) : m <= n]]

\* The rest of runReorg under mu after the promotion: [pool, promoted].
Reorganised(s, isReset, order) ==
    [s EXCEPT !.pool = UpdateNonces(truncateQueue(truncatePending(
                           IF isReset THEN demoteUnexecutables(@, order) ELSE @, order)))]

\* runReorg under mu without a reset, and with a reset to head.
ReorgDirty(p, addrs, order) ==
    Reorganised(promoteExecutables(p, SelectSeq(order, LAMBDA a : a \in addrs)), FALSE, order)

ReorgReset(p, head, order) ==
    Reorganised(promoteExecutables(reset(p, head), SelectSeq(order, LAMBDA a : p.queue[a].txs # {})), TRUE, order)

\* txSortedMap.Put of events: one per account and nonce.
PutEvents(evs, txs) == {e \in evs : ~\E t \in txs : t.from = e.from /\ t.nonce = e.nonce} \cup txs

-----------------------------------------------------------------------------

Genesis == [nonce |-> [a \in Account |-> 0], balance |-> [a \in Account |-> InitBalance]]

EmptyPool(head) ==
    [pending |-> [a \in Account |-> NoList], queue |-> [a \in Account |-> NoList],
     locals |-> {}, remotes |-> {}, heap |-> [t \in Tx |-> 0], stales |-> 0,
     state |-> head, nonces |-> head.nonce, beats |-> <<>>, accts |-> {}, journal |-> {},
     gasPrice |-> PriceLimit, gapped |-> FALSE]

Init ==
    /\ chain = [head |-> Genesis, minPrice |-> PriceLimit, included |-> {}]
    /\ pool = EmptyPool(Genesis)
    /\ heads = <<>> /\ dirty = {} /\ wake = FALSE /\ events = {} /\ running = FALSE /\ sending = {}
    /\ announced = {} /\ submitted = {}
    /\ blocks = 0 /\ restarts = 0

\* The pool after an operation; the histories speak of pooled transactions only.
SetPool(p, sent, new) ==
    /\ pool' = p
    /\ announced' = (announced \cup sent) \cap All(p)
    /\ submitted' = (submitted \cup new) \cap All(p)

\* addTxs with one transaction, from the network or from the RPC.  A transaction
\* that is found in the lookup table before mu is taken changes nothing; one that
\* another caller adds in between is refused under mu, and a run is requested.  The
\* event of a replaced pending transaction reaches the scheduler before the request.
AddTx(tx, local) ==
    /\ \E r \in {add(pool, chain, tx, local)} :
          /\ SetPool(r.pool, {}, IF local /\ r.how \in {"queued", "requeued"} THEN {tx} ELSE {})
          /\ dirty' = IF r.how = "queued" THEN dirty \cup {tx.from} ELSE dirty
          /\ wake' = (wake \/ r.how # "queued")
          /\ events' = IF r.how = "pending" THEN PutEvents(events, {tx}) ELSE events
    /\ UNCHANGED <<chain, heads, running, sending, blocks, restarts>>

\* Mutant of TakeEvents: events that were queued after the launch are lost.
TakeEventsAll(evs) == wake' = FALSE /\ events' = {}

\* The events of a run leave the scheduler's queue.  The request without accounts
\* was made before the launch or after it; it follows its own event.
TakeEvents(evs) ==
    /\ wake' \in IF evs = events THEN {FALSE, wake} ELSE {wake}
    /\ events' = events \ evs

\* scheduleReorgLoop launches runReorg, which works under mu.  The requests that
\* had arrived when it was launched are some of those made by now: the accounts in
\* addrs, all events or none.
RunReorg(addrs, evs, order) ==
    /\ ~running
    /\ addrs # {} \/ wake
    /\ \E r \in {ReorgDirty(pool, addrs, order)} :
          /\ SetPool(r.pool, {}, {})
          /\ running' = TRUE /\ sending' = PutEvents(evs, r.promoted)
    /\ dirty' = dirty \ addrs
    /\ TakeEvents(evs)
    /\ UNCHANGED <<chain, heads, blocks, restarts>>

\* runReorg with a reset: the first k new heads, merged into the newest.  The
\* accounts requested are forgotten, events that became stale are discarded.
RunReset(k, addrs, evs, order) ==
    /\ ~running
    /\ \E r \in {ReorgReset(pool, heads[k], order)} :
          /\ SetPool(r.pool, {}, {})
          /\ running' = TRUE
          /\ sending' = PutEvents({e \in evs : e.nonce >= heads[k].nonce[e.from]}, r.promoted)
    /\ heads' = SubSeq(heads, k + 1, Len(heads))
    /\ dirty' = dirty \ addrs
    /\ TakeEvents(evs)
    /\ UNCHANGED <<chain, blocks, restarts>>

\* runReorg after the unlock: txFeed.Send.
SendTxs ==
    /\ running
    /\ SetPool(pool, sending, {})
    /\ running' = FALSE /\ sending' = {}
    /\ UNCHANGED <<chain, heads, dirty, wake, events, blocks, restarts>>

\* A block: an account's nonce may advance, by a known transaction or another,
\* and its balance may change.
NewBlock(a, advance, inc, balance) ==
    /\ blocks < MaxBlocks
    /\ advance = 0 => inc = {}
    /\ \A t \in inc : t.from = a /\ t.nonce = chain.head.nonce[a]
    /\ chain' = [chain EXCEPT !.head.nonce[a] = @ + advance, !.head.balance[a] = balance,
                              !.included = @ \cup inc]
    /\ heads' = Append(heads, chain'.head)
    /\ blocks' = blocks + 1
    /\ UNCHANGED <<pool, dirty, wake, events, running, sending, announced, submitted, restarts>>

\* New rules with another MinGasPrice, at the start of an epoch.
NewRules(price) ==
    /\ price # chain.minPrice
    /\ chain' = [chain EXCEPT !.minPrice = price]
    /\ UNCHANGED <<pool, heads, dirty, wake, events, running, sending, announced, submitted, blocks, restarts>>

\* The live ones among the popped entries lose their transactions.
DropPopped(p, popped) == RemoveAll(Pop(p, popped), ByPrice(popped \cap p.remotes), FALSE)

\* The transactions below cap are dropped, not those below the new price.
SetGasPriceWithCap(p, price, cap) == DropPopped([p EXCEPT !.gasPrice = price], CapPopped(p, cap))

\* loop: the recommended price differs from the pool's.  MinGasPrice, the cap, is
\* read before mu is taken, so the rules may have another price by now; any price
\* is one that they can have had.
UpdateGasPrice(price, cap) ==
    /\ price # pool.gasPrice
    /\ SetPool(SetGasPriceWithCap(pool, price, cap), {}, {})
    /\ UNCHANGED <<chain, heads, dirty, wake, events, running, sending, blocks, restarts>>

\* loop: the n accounts with the oldest heartbeats passed the lifetime.
Evict(n) ==
    LET old == {pool.beats[i] : i \in 1..n} \ pool.accts
        out == UNION {pool.queue[a].txs : a \in old}
    IN  /\ out # {}
        /\ SetPool(RemoveAll(pool, ByNonce(out), TRUE), {}, {})
        /\ UNCHANGED <<chain, heads, dirty, wake, events, running, sending, blocks, restarts>>

\* Mutant of local: the queue is left out.
localPending(p) == UNION {p.pending[a].txs : a \in p.accts}

\* pool.local(): everything the local accounts have in the pool.
local(p) == UNION {p.pending[a].txs \cup p.queue[a].txs : a \in p.accts}

rotate ==
    /\ pool.journal # local(pool)
    /\ SetPool([pool EXCEPT !.journal = local(pool)], {}, {})
    /\ UNCHANGED <<chain, heads, dirty, wake, events, running, sending, blocks, restarts>>

\* Mutant of load: AddRemotes instead of AddLocals.
loadRemotes(file, order) ==
    LET loaded == FoldLeft(LAMBDA p, tx : add(p, chain, tx, FALSE).pool, EmptyPool(chain.head), file)
    IN  ReorgDirty(loaded, Account, order)

\* journal.load: AddLocals in the order of the file, then a reorganisation.
load(file, order) ==
    LET loaded == FoldLeft(LAMBDA p, tx : add(p, chain, tx, TRUE).pool, EmptyPool(chain.head), file)
    IN  ReorgDirty(loaded, Account, order)

\* The process dies; NewTxPool loads the journal with AddLocals, waits for the
\* reorganisation and rotates the journal.  What it sends has no subscriber yet;
\* peers that connect ask for it by SampleHashes.
Restart(file, order) ==
    /\ restarts < MaxRestarts
    /\ restarts' = restarts + 1
    /\ \E r \in {load(file, order)} :
          /\ pool' = [r.pool EXCEPT !.journal = local(r.pool)]
          /\ announced' = r.promoted \cap All(r.pool) /\ submitted' = submitted \cap All(r.pool)
    /\ heads' = <<>> /\ dirty' = {} /\ wake' = FALSE /\ events' = {}
    /\ running' = FALSE /\ sending' = {}
    /\ UNCHANGED <<chain, blocks>>

Orders == SetToSeqs(Account)

Next ==
    \/ \E tx \in Tx, from \in Sources : AddTx(tx, from)
    \/ \E addrs \in SUBSET dirty, evs \in {{}, events}, order \in Orders : RunReorg(addrs, evs, order)
    \/ \E k \in 1..Len(heads), addrs \in SUBSET dirty, evs \in {{}, events}, order \in Orders :
          RunReset(k, addrs, evs, order)
    \/ SendTxs
    \/ \E a \in Account, advance \in {0, 1}, balance \in Balance :
          \E inc \in {{}} \cup {{t} : t \in Tx} : NewBlock(a, advance, inc, balance)
    \/ \E price \in Prices : NewRules(price)
    \/ \E price, cap \in Prices : UpdateGasPrice(price, cap)
    \/ \E n \in 1..Len(pool.beats) : Evict(n)
    \/ rotate
    \/ \E file \in SetToSeqs(pool.journal), order \in Orders : Restart(file, order)

Spec == Init /\ [][Next]_vars

-----------------------------------------------------------------------------
(* Properties *)

\* Type correctness of the pool's fields, the scheduler's requests and the chain.
TypeOK ==
    /\ \A a \in Account :
          /\ pool.pending[a].txs \subseteq {t \in Tx : t.from = a}
          /\ pool.queue[a].txs \subseteq {t \in Tx : t.from = a}
    /\ pool.heap \in [Tx -> Nat] /\ pool.stales \in Nat
    /\ pool.accts \subseteq Account /\ pool.journal \subseteq Tx
    /\ \A i \in DOMAIN heads : heads[i].nonce \in [Account -> Nat]
    /\ dirty \subseteq Account /\ events \subseteq Tx /\ sending \subseteq Tx

\* The lookup table, the lists and the noncer agree whenever mu is free
\* (validateTxPoolInternals, tx_pool_test.go): the pooled transactions are local
\* or remote and never both, each is in exactly one of the lists of its account,
\* no other has its nonce there, and the pending nonce of an account with pending
\* transactions is the one after the last of them.
PoolConsistent ==
    /\ pool.locals \cap pool.remotes = {}
    /\ All(pool) = UNION {pool.pending[a].txs \cup pool.queue[a].txs : a \in Account}
    /\ \A a \in Account :
          /\ pool.pending[a].txs \cap pool.queue[a].txs = {}
          /\ \A t, u \in pool.pending[a].txs \cup pool.queue[a].txs : t.nonce = u.nonce => t = u
          /\ pool.pending[a].txs # {} =>
                /\ pool.nonces[a] - 1 \in NoncesOf(pool.pending[a])
                /\ \A n \in NoncesOf(pool.pending[a]) : n < pool.nonces[a]

\* "All currently processable transactions" (tx_pool.go, pending): an account's
\* pending transactions follow its nonce in the pool's state without a gap, each
\* is covered by the balance, and the pending nonce is the one after the last.
PendingProcessable ==
    \A a \in Account :
        /\ NoncesOf(pool.pending[a]) = pool.state.nonce[a]..(pool.nonces[a] - 1)
        /\ \A t \in pool.pending[a].txs : t.cost <= pool.state.balance[a]

\* "If there's a gap in front, alert (should never happen)" (demoteUnexecutables).
NoGapInFront == ~pool.gapped

\* Every remote transaction is in the price heap, so that a full pool can find it.
RemotesPriced == pool.remotes \subseteq InHeap(pool)


\* An account with queued transactions has a heartbeat: without one, the next
\* eviction takes its transactions as infinitely old.
QueuedHaveBeats == \A a \in Account : pool.queue[a].txs # {} => HasBeat(pool, a)

\* When a reorganisation ends, the queue is within GlobalQueue or only local
\* accounts are queued, and the pending lists are within GlobalSlots or every
\* remote account is within AccountSlots.
LimitsAfterReorg ==
    [][~running /\ running' =>
        /\ \/ TotalQueued(pool') <= GlobalQueue
           \/ \A a \in Account : pool'.queue[a].txs # {} => a \in pool'.accts
        /\ \/ TotalPending(pool') <= GlobalSlots
           \/ \A a \in Account \ pool'.accts : Pending(pool', a) <= AccountSlots]_vars

\* "reduce transaction counts by an approximately equal number" (truncatePending):
\* when a run without a reset dropped a pending or just promoted transaction of an
\* account, no remote account keeps more than one transaction above that account.
FairTruncation ==
    [][~running /\ running' /\ heads' = heads =>
        \A t \in UNION {pool.pending[a].txs : a \in Account} \cup (sending' \ events) :
            t \notin All(pool') =>
                \A c \in Account \ pool'.accts : Pending(pool', c) <= Pending(pool', t.from) + 1]_vars

\* A submission never grows a full pool, unless local transactions fill it.
FullStaysFull ==
    [][Cardinality(All(pool')) > Limit =>
        Cardinality(All(pool')) <= Cardinality(All(pool)) \/ pool'.remotes = {} \/ restarts' # restarts]_vars

\* When no event waits and nothing is being sent, every pending transaction was
\* announced on txFeed since it entered the pool.
PendingAnnounced ==
    (~running /\ events = {}) =>
        \A a \in Account : pool.pending[a].txs \subseteq announced

\* "to allow non-executed ones to survive node restarts" (tx_journal.go): a pooled
\* transaction that a local caller queued is in the journal.
LocalsJournaled == submitted \subseteq pool.journal

\* The other half of that promise, what NewTxPool makes of the journal: a restart
\* loses no pooled transaction that a local caller queued and that is still valid,
\* unless another one with its nonce and at least its price takes its place.
LocalsSurviveRestart ==
    [][restarts' # restarts =>
        \A t \in submitted : validateTx(EmptyPool(chain.head), chain, t, TRUE) =>
            \E u \in All(pool') : u.from = t.from /\ u.nonce = t.nonce /\ u.price >= t.price]_vars

\* "If a newly added transaction is marked as local, its sending account will be
\* whitelisted" (add): the sender of every transaction that the lookup table holds
\* as local is a local account.  A local submission that replaces a pending
\* transaction returns before the account is added.
LocalsWhitelisted == \A t \in pool.locals : t.from \in pool.accts

\* "Queued but non-processable transactions" (tx_pool.go, queue): when no request
\* is left and no run is active, no queued transaction is the next one of its
\* account.  A reset forgets the pending nonces before it promotes, and takes the
\* place of a promotion requested for the account.
QueuedNotProcessable ==
    (~running /\ heads = <<>> /\ dirty = {} /\ ~wake) =>
        \A a \in Account : pool.nonces[a] \notin NoncesOf(pool.queue[a])

\* "truncateQueue drops the oldes transactions in the queue": what it drops in a
\* run that nothing precedes (a requested one without accounts or heads, the
\* pending lists within their limit) belongs to the remote accounts with the
\* oldest heartbeats.  The code starts with the latest.
OldestQueuedDropped ==
    LET after == truncateQueue(pool)
    IN  wake /\ ~running /\ TotalPending(pool) <= GlobalSlots =>
        \A i, j \in DOMAIN pool.beats :
            /\ i < j /\ pool.beats[i] \notin pool.accts
            /\ after.queue[pool.beats[j]] # pool.queue[pool.beats[j]]
            => after.queue[pool.beats[i]].txs = {}
=============================================================================
