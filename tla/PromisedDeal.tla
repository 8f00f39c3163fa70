----------------------------- MODULE PromisedDeal -----------------------------
(***************************************************************************)
(* A deal that does what is promised of deals, and nothing besides: the    *)
(* specification that DealEngine implements.                               *)
(***************************************************************************)
EXTENDS DealPromise

VARIABLE promise

PromiseInit == \E levels \in [Seats -> Levels] : promise \in Fresh(levels)

PromiseNext == promise' \in NextPromises(promise)

PromiseSpec == PromiseInit /\ [][PromiseNext]_promise
=============================================================================
