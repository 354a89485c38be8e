---------------------------- MODULE TxRequest ----------------------------
(***************************************************************************)
(* TxRequestTracker (src/txrequest.cpp): which peer announced which        *)
(* transaction hash, and of whom to ask it next.  The tracker is one value *)
(*                                                                         *)
(*   [index |-> m_index, info |-> m_peerinfo]                              *)
(*                                                                         *)
(* and every method an operator from a tracker to a tracker.  m_index is a *)
(* partial function from announcements, the pairs <<peer, txhash>>, to     *)
(* their state, their time and whether the hash is a wtxid; its ByTxHash   *)
(* order is the relation Precedes.  m_peerinfo is a partial function from  *)
(* peers to counters.                                                      *)
(*                                                                         *)
(* A time is relative to the clock: m_time - now.  The code compares an    *)
(* m_time with now or with another m_time and does nothing else with it,   *)
(* so `m_time <= now' is `time <= 0'.  The time of a COMPLETED             *)
(* announcement is never read again and is kept at 0.  m_sequence, which   *)
(* only orders the hashes within one getdata message, is left out.         *)
(***************************************************************************)
EXTENDS Integers, FiniteSets, Sequences, FiniteSetsExt, SequencesExt, Functions

CONSTANTS Peers,       \* NodeIds
          Hashes,      \* txids and wtxids; numbers, as uint256 is ordered
          Preferred,   \* peers with fPreferredDownload when they announce
          LowBits      \* [Hashes -> [Peers -> Nat]]: the salted hash of a pair

\* Collisions of the salted hash are left out.
ASSUME LowBitsAssumption ==
    \A h \in Hashes : \A p, q \in Peers : LowBits[h][p] = LowBits[h][q] => p = q

Delayed == "CANDIDATE_DELAYED"
Ready == "CANDIDATE_READY"
Best == "CANDIDATE_BEST"
Requested == "REQUESTED"
Completed == "COMPLETED"

\* The order of the enum, on which ByTxHash relies.
StateRank == [s \in {Delayed, Ready, Best, Requested, Completed} |->
                CASE s = Delayed -> 0 [] s = Ready -> 1 [] s = Best -> 2
                  [] s = Requested -> 3 [] s = Completed -> 4]

Candidates == {Delayed, Ready, Best}
IsSelected(T, a) == T.index[a].state \in {Best, Requested}
IsWaiting(T, a) == T.index[a].state \in {Requested, Delayed}
IsSelectable(T, a) == T.index[a].state \in {Ready, Best}

EmptyTracker == [index |-> [a \in {} |-> 0], info |-> [p \in {} |-> 0]]

OfHash(T, h) == {a \in DOMAIN T.index : a[2] = h}
OfPeer(T, p) == {a \in DOMAIN T.index : a[1] = p}

\* Comparison of priorities: the preferred flag is the top bit, above the
\* salted hash of the pair.
HigherPriority(a, b) ==
    \/ a[1] \in Preferred /\ b[1] \notin Preferred
    \/ /\ (a[1] \in Preferred) = (b[1] \in Preferred)
       /\ LowBits[a[2]][a[1]] > LowBits[b[2]][b[1]]

\* The ByTxHash order within a hash: by state, and by priority among the READY.
Precedes(T, a, b) ==
    /\ a[2] = b[2]
    /\ LET s == T.index[a].state
           t == T.index[b].state
       IN  \/ StateRank[s] < StateRank[t]
           \/ s = Ready /\ t = Ready /\ HigherPriority(b, a)

\* What std::next and std::prev of a may be within its hash.
NextOf(T, a) ==
    LET after == {b \in OfHash(T, a[2]) : Precedes(T, a, b)}
    IN  {b \in after : \A c \in after : ~Precedes(T, c, b)}

PrevOf(T, a) ==
    LET before == {b \in OfHash(T, a[2]) : Precedes(T, b, a)}
    IN  {b \in before : \A c \in before : ~Precedes(T, b, c)}

\* 1 when an announcement with this state counts under `kind', else 0.
Counts(state, kind) == IF state = kind THEN 1 ELSE 0

\* The counters of a peer after one of its announcements went from one state
\* to another, `Nothing' for an announcement that does not exist.
Nothing == "NOTHING"

Recount(i, old, new) ==
    [total |-> i.total - Counts(new, Nothing),
     completed |-> i.completed - Counts(old, Completed) + Counts(new, Completed),
     requested |-> i.requested - Counts(old, Requested) + Counts(new, Requested)]

Erase(T, a) ==
    LET i == Recount(T.info[a[1]], T.index[a].state, Nothing)
    IN  [index |-> Restrict(T.index, DOMAIN T.index \ {a}),
         info |-> IF i.total = 0
                    THEN Restrict(T.info, DOMAIN T.info \ {a[1]})
                    ELSE [T.info EXCEPT ![a[1]] = i]]

Modify(T, a, s, time) ==
    [index |-> [T.index EXCEPT ![a].state = s,
                               ![a].time = IF s = Completed THEN 0 ELSE time],
     info |-> [T.info EXCEPT ![a[1]] = Recount(@, T.index[a].state, s)]]

SetState(T, a, s) == Modify(T, a, s, T.index[a].time)

\* A mutant: an announcement never takes the place of the best one.
PromoteCandidateReady_FirstCome(T, a) ==
    LET R == SetState(T, a, Ready)
    IN  IF \A b \in NextOf(R, a) : R.index[b].state = Completed
          THEN SetState(R, a, Best)
          ELSE R

PromoteCandidateReady(T, a) ==
    LET R == SetState(T, a, Ready)
        next == NextOf(R, a)
        worse == {b \in next : R.index[b].state = Best /\ HigherPriority(a, b)}
    IN  IF \A b \in next : R.index[b].state = Completed
          THEN SetState(R, a, Best)
          ELSE FoldSet(LAMBDA b, U : SetState(SetState(U, b, Ready), a, Best), R, worse)

\* A mutant: the announcement that was selected has no successor.
ChangeAndReselect_NoReselect(T, a, s) == SetState(T, a, s)

ChangeAndReselect(T, a, s) ==
    LET prev == IF IsSelected(T, a)
                  THEN {b \in PrevOf(T, a) : T.index[b].state = Ready}
                  ELSE {}
    IN  SetState(FoldSet(LAMBDA b, U : SetState(U, b, Best), T, prev), a, s)

IsOnlyNonCompleted(T, a) ==
    \A b \in OfHash(T, a[2]) \ {a} : T.index[b].state = Completed

ForgetTxHash(T, h) == FoldSet(LAMBDA a, U : Erase(U, a), T, OfHash(T, h))

MakeCompleted(T, a) ==
    IF T.index[a].state = Completed THEN T
    ELSE IF IsOnlyNonCompleted(T, a) THEN ForgetTxHash(T, a[2])
    ELSE ChangeAndReselect(T, a, Completed)

\* A mutant: a clock that went back leaves candidates selectable.
SetTimePoint_NoDemote(T) ==
    LET due == {a \in DOMAIN T.index : IsWaiting(T, a) /\ T.index[a].time <= 0}
    IN  FoldLeft(LAMBDA U, a : IF U.index[a].state = Delayed
                                 THEN PromoteCandidateReady(U, a)
                                 ELSE MakeCompleted(U, a),
                 T, SetToSortSeq(due, LAMBDA a, b : T.index[a].time < T.index[b].time))

\* What is due, from old to new, is promoted or completed; then what the clock
\* left behind by going back is demoted, from new to old.
SetTimePoint(T) ==
    LET Older(a, b) == T.index[a].time < T.index[b].time
        Newer(a, b) == T.index[a].time > T.index[b].time
        due == {a \in DOMAIN T.index : IsWaiting(T, a) /\ T.index[a].time <= 0}
        U == FoldLeft(LAMBDA V, a : IF V.index[a].state = Delayed
                                      THEN PromoteCandidateReady(V, a)
                                      ELSE MakeCompleted(V, a),
                      T, SetToSortSeq(due, Older))
        early == {a \in DOMAIN U.index : IsSelectable(U, a) /\ U.index[a].time > 0}
    IN  FoldLeft(LAMBDA V, a : ChangeAndReselect(V, a, Delayed),
                 U, SetToSortSeq(early, Newer))

DisconnectedPeer(T, p) ==
    FoldSet(LAMBDA a, U : LET V == MakeCompleted(U, a)
                          IN  IF a \in DOMAIN V.index THEN Erase(V, a) ELSE V,
            T, OfPeer(T, p))

\* The counters of p, as operator[] of m_peerinfo finds or makes them.
InfoOf(T, p) ==
    IF p \in DOMAIN T.info THEN T.info[p] ELSE [total |-> 0, completed |-> 0, requested |-> 0]

\* A mutant: a peer may announce again what it failed to deliver.
ReceivedInv_Again(T, p, h, wtx, reqtime) ==
    IF <<p, h>> \in DOMAIN T.index
      THEN IF T.index[<<p, h>>].state = Completed
             THEN Modify(T, <<p, h>>, Delayed, reqtime)
             ELSE T
      ELSE [index |-> (<<p, h>> :> [state |-> Delayed, time |-> reqtime, wtx |-> wtx]) @@ T.index,
            info |-> (p :> [InfoOf(T, p) EXCEPT !.total = @ + 1]) @@ T.info]

ReceivedInv(T, p, h, wtx, reqtime) ==
    IF <<p, h>> \in DOMAIN T.index THEN T
    ELSE [index |-> (<<p, h>> :> [state |-> Delayed, time |-> reqtime, wtx |-> wtx]) @@ T.index,
          info |-> (p :> [InfoOf(T, p) EXCEPT !.total = @ + 1]) @@ T.info]

\* The hashes GetRequestable finds for p, once SetTimePoint moved the time.
GetRequestable(T, p) == {a[2] : a \in {b \in OfPeer(T, p) : T.index[b].state = Best}}

\* The whole method: an announcement that is not the best one displaces a
\* selected one, and one that is no candidate is left alone.
RequestedTx(T, p, h, expiry) ==
    LET a == <<p, h>>
        old == {b \in OfHash(T, h) \ {a} : IsSelected(T, b)}
        Displace(b, U) == SetState(U, b, IF U.index[b].state = Best THEN Ready ELSE Completed)
    IN  IF a \notin DOMAIN T.index \/ T.index[a].state \notin Candidates THEN T
        ELSE Modify(IF T.index[a].state = Best THEN T ELSE FoldSet(Displace, T, old),
                    a, Requested, expiry)

ReceivedResponse(T, p, h) ==
    IF <<p, h>> \in DOMAIN T.index THEN MakeCompleted(T, <<p, h>>) ELSE T

CountInFlight(T, p) == InfoOf(T, p).requested
Count(T, p) == InfoOf(T, p).total

============================================================================
