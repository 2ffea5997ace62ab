----------------------------- MODULE MCService -----------------------------
(***************************************************************************)
(* Small instances of Service: two validators, a DAG of a first epoch in   *)
(* which some events carry transactions, and the first events of a second  *)
(* epoch.                                                                  *)
(***************************************************************************)
EXTENDS Service, FiniteSetsExt

event(epoch, creator, lam, parents, sender, time) ==
    [epoch |-> epoch, creator |-> creator, lamport |-> lam, parents |-> parents,
     sender |-> sender, time |-> time]

\* e1 <- e3 <- e4, e2 <- e3: e1 and e3 of validator 1, e2 and e4 of 2.
MCEvent == {11, 12, 13, 14, 21, 22}
MCEv == [e \in MCEvent |->
    CASE e = 11 -> event(1, 1, 1, {}, "a", 2)
      [] e = 12 -> event(1, 2, 1, {}, "none", 1)
      [] e = 13 -> event(1, 1, 2, {11, 12}, "a", 2)
      [] e = 14 -> event(1, 2, 3, {12, 13}, "none", 5)
      [] e = 21 -> event(2, 1, 1, {}, "none", 3)
      [] e = 22 -> event(2, 2, 2, {21}, "a", 6)]

\* Events with transactions use 2 units of gas power, the others 1.
MCGasTable == [S \in SUBSET MCEvent |->
    MapThenSumSet(LAMBDA e : IF MCEv[e].sender = "none" THEN 1 ELSE 2, S)]
MCGas(S) == MCGasTable[S]

\* A shorter instance for the liveness check: the first three events.
MCShortEvent == {11, 12, 13, 21}
MCShortEv == [e \in MCShortEvent |-> MCEv[e]]

MCValidatorSets == {{1, 2}, {2}}
=============================================================================
