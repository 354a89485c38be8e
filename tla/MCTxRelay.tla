---------------------------- MODULE MCTxRelay ----------------------------
(***************************************************************************)
(* TxRelay for TLC.  A transaction P with a witness, a copy S of it without *)
(* it, a child C of P, a child D of both and a child F of C; Q spends what  *)
(* P spends; N has non-standard inputs and a child E; P, Q and N spend G,   *)
(* confirmed long ago.                                                      *)
(***************************************************************************)
EXTENDS TxRelay, TLC

CONSTANTS p1, p2, p3, G, P, S, C, D, F, Q, N, E

MCTxs == {G, P, S, C, D, F, Q, N, E}
MCTxid == G :> 1 @@ P :> 2 @@ S :> 2 @@ C :> 5 @@ D :> 4 @@ N :> 6 @@ E :> 8
          @@ F :> 9 @@ Q :> 10
MCWtxid == G :> 1 @@ P :> 3 @@ S :> 2 @@ C :> 5 @@ D :> 4 @@ N :> 7 @@ E :> 8
           @@ F :> 9 @@ Q :> 10
MCInputs == G :> {} @@ P :> {<<1, 0>>} @@ S :> {<<1, 0>>} @@ C :> {<<2, 0>>}
            @@ D :> {<<2, 1>>, <<5, 0>>} @@ N :> {<<1, 1>>} @@ E :> {<<6, 0>>}
            @@ F :> {<<5, 1>>} @@ Q :> {<<1, 0>>}
MCFault == G :> Valid @@ P :> Valid @@ S :> Stripped @@ C :> Valid @@ D :> Valid
           @@ N :> InputsNotStandard @@ E :> Valid
           @@ F :> Valid @@ Q :> Valid
MCHashes == 1 .. 10
MCLowBits == [h \in MCHashes |-> p1 :> 1 @@ p2 :> 2 @@ p3 :> 3 * (h % 2)]

Scene(peers, txs, watch, limit, invs, backs, submits, evictions, blocks) ==
    [peers |-> peers, txs |-> txs, watch |-> watch, limit |-> limit,
     invs |-> invs, backs |-> backs, submits |-> submits, evictions |-> evictions,
     blocks |-> blocks]

MCScenes ==
    {\* one hash announced by three peers, and a clock that goes back
     Scene({p1, p2, p3}, {C}, <<p2, 5>>, 1, 4, 1, 0, 0, 0),
     \* a parent by its wtxid, and by its txid for an orphan
     Scene({p1, p2}, {P, C}, <<p2, 2>>, 1, 3, 0, 0, 0, 0),
     \* two versions of a transaction, one of them submitted or evicted
     Scene({p1, p2}, {P, S}, <<p2, 2>>, 1, 2, 0, 1, 1, 0),
     \* blocks, with announcements, with orphans of two peers, with a full orphanage
     Scene({p1, p2}, {P}, <<p2, 2>>, 1, 2, 0, 0, 0, 1),
     Scene({p2, p3}, {P, C}, <<p2, 2>>, 1, 0, 0, 0, 0, 1),
     Scene({p2}, {P, C, D}, <<p2, 2>>, 1, 0, 0, 0, 0, 1),
     \* orphans of orphans, with parents that come and go beside the peers
     Scene({p2, p3}, {P, C, D}, <<p2, 2>>, 2, 0, 0, 1, 0, 0),
     Scene({p2, p3}, {P, C, D}, <<p2, 2>>, 2, 0, 0, 0, 1, 0),
     \* a copy without witness of a transaction that was had, and its descendants
     Scene({p2, p3}, {P, S, D}, <<p2, 2>>, 1, 0, 0, 0, 0, 0),
     Scene({p2}, {P, S, C, F}, <<p2, 2>>, 1, 0, 0, 0, 1, 0),
     \* a double spend, in the mempool or a block
     Scene({p2}, {P, S, Q, C}, <<p2, 2>>, 1, 0, 0, 0, 0, 1),
     \* a parent that is rejected, and one that a block brings nevertheless
     Scene({p1, p2}, {N, E}, <<p1, 7>>, 1, 2, 0, 0, 0, 0),
     Scene({p1}, {N, E}, <<p1, 7>>, 1, 2, 0, 0, 0, 1)}
==============================================================================
