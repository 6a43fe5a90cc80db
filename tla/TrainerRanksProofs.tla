------------------------- MODULE TrainerRanksProofs -------------------------
(***************************************************************************)
(* Proofs about TrainerRanks, for any number of ranks, any data and any    *)
(* periods.                                                                *)
(*                                                                         *)
(* - The micro-batches fit the budget (BudgetKept).                        *)
(* - The clipped losses push into the trust region (SurrogateInRegion).    *)
(* - The ranks that meet in a collective operation belong together         *)
(*   (LockstepKept), and no rank trains on samples more than one publish   *)
(*   behind (SyncKept).                                                    *)
(* - Batches, splits and gradients have their types (TrainerTypeCorrect),  *)
(*   from SoundInv, which says what a rank has at each place, and from the *)
(*   items: an item's log-probs are those of its action tokens, in order.  *)
(* - The micro-batches of a step add up to the batch (MacroMeanKept), from *)
(*   DealtInv: whatever one sums up over the batch of a rank, one gets it  *)
(*   from its micro-batches, the current one and what is to be placed.     *)
(* - What is said of the losses a token at a time holds of the gradient    *)
(*   (TrustRegionKept).                                                    *)
(*                                                                         *)
(* The lemmas on sums over finite sets are those of RolloutProofs.         *)
(***************************************************************************)
EXTENDS TrainerRanks, RolloutProofs, SequenceTheorems

-----------------------------------------------------------------------------
(* The budget *)

(* A sequence, of whatever. *)
IsSeq(s) == s \in Seq({s[k] : k \in DOMAIN s})

(* A split in which every closed micro-batch fits, and which knows the width *)
(* of the widest item of the current one.                                    *)
WithinBudget(s) ==
    /\ s = [chunks |-> s.chunks, current |-> s.current, widest |-> s.widest]
    /\ IsSeq(s.chunks) /\ IsSeq(s.current) /\ s.widest \in 0 .. MaxSeqLen
    /\ \A k \in DOMAIN s.chunks : Fits(s.chunks[k])
    /\ \A k \in DOMAIN s.current : Width(items[s.current[k]]) <= s.widest
    /\ s.current # <<>> => s.widest * Len(s.current) <= TokenBudget

BudgetInv ==
    /\ split = [r \in Ranks |-> split[r]]
    /\ \A r \in Ranks : WithinBudget(split[r])

(* The width of an item is a number of tokens that max_seq_len bounds. *)
LEMMA WidthBounded == \A item : Width(item) \in 0 .. MaxSeqLen
<1>1. ASSUME NEW item PROVE Width(item) \in 0 .. MaxSeqLen
    <2> DEFINE kept == {t \in 1 .. MaxSeqLen : t \in DOMAIN item.tokens}
    <2>1. MaxSeqLen \in Nat
        BY BudgetAssumption
    <2>2. IsFiniteSet(1 .. MaxSeqLen) /\ Cardinality(1 .. MaxSeqLen) = MaxSeqLen
        BY <2>1, FS_Interval
    <2>3. Cardinality(kept) <= MaxSeqLen /\ IsFiniteSet(kept)
        BY <2>2, FS_Subset, kept \subseteq 1 .. MaxSeqLen
    <2>4. Cardinality(kept) \in Nat
        BY <2>3, FS_CardinalityType
    <2> QED
        BY <2>1, <2>3, <2>4 DEF Width
<1> QED
    BY <1>1

(* An item added at the end of a sequence. *)
LEMMA Appended ==
    ASSUME NEW s, IsSeq(s), NEW e
    PROVE  /\ IsSeq(Append(s, e))
           /\ Len(Append(s, e)) = Len(s) + 1 /\ Len(s) \in Nat
           /\ Append(s, e) # <<>>
           /\ DOMAIN Append(s, e) = 1 .. Len(s) + 1 /\ DOMAIN s = 1 .. Len(s)
           /\ \A k \in 1 .. Len(s) : Append(s, e)[k] = s[k]
           /\ Append(s, e)[Len(s) + 1] = e
<1> DEFINE S == {s[k] : k \in DOMAIN s} \union {e}
<1>1. s \in Seq(S) /\ e \in S
    BY DEF IsSeq
<1>2. Append(s, e) \in Seq(S)
    BY <1>1
<1>3. /\ Len(Append(s, e)) = Len(s) + 1 /\ Len(s) \in Nat
      /\ DOMAIN Append(s, e) = 1 .. Len(s) + 1 /\ DOMAIN s = 1 .. Len(s)
      /\ \A k \in 1 .. Len(s) : Append(s, e)[k] = s[k]
      /\ Append(s, e)[Len(s) + 1] = e
    BY <1>1
<1>4. IsSeq(Append(s, e))
    <2> DEFINE a == Append(s, e)
    <2>1. a \in Seq(S)
        BY <1>2
    <2> HIDE DEF a
    <2>2. a \in Seq({a[k] : k \in DOMAIN a})
        BY <2>1
    <2> QED
        BY <2>2 DEF IsSeq, a
<1>5. Append(s, e) # <<>>
    BY <1>3
<1> QED
    BY <1>3, <1>4, <1>5

(* Closing a micro-batch that is within the budget. *)
LEMMA ClosedFits ==
    ASSUME NEW s, WithinBudget(s), s.current # <<>>
    PROVE  Fits(s.current)
<1>1. \A k \in DOMAIN s.current : Width(items[s.current[k]]) * Len(s.current) <= TokenBudget
    <2> SUFFICES ASSUME NEW k \in DOMAIN s.current
                 PROVE  Width(items[s.current[k]]) * Len(s.current) <= TokenBudget
        OBVIOUS
    <2> DEFINE w == Width(items[s.current[k]])
               n == Len(s.current)
    <2>1. w \in Nat /\ w <= s.widest /\ s.widest \in Nat
        BY WidthBounded, BudgetAssumption DEF WithinBudget
    <2>2. n \in Nat
        BY DEF WithinBudget, IsSeq
    <2>3. s.widest * n <= TokenBudget /\ TokenBudget \in Nat
        BY BudgetAssumption DEF WithinBudget
    <2> HIDE DEF w, n
    <2>4. w * n <= s.widest * n
        BY <2>1, <2>2
    <2>5. w * n \in Nat /\ s.widest * n \in Nat
        BY <2>1, <2>2
    <2>6. w * n <= TokenBudget
        BY <2>3, <2>4, <2>5
    <2> QED
        BY <2>6 DEF w, n
<1> QED
    BY <1>1 DEF Fits

(* One turn of the loop of split_items_by_token_budget keeps the budget. *)
LEMMA PlaceWithinBudget ==
    ASSUME NEW s, WithinBudget(s), NEW i
    PROVE  WithinBudget(Place(s, i, Width(items[i])))
<1> DEFINE w == Width(items[i])
           p == Place(s, i, w)
<1>1. w \in Nat /\ w <= MaxSeqLen
    BY WidthBounded, BudgetAssumption
<1>2. MaxSeqLen \in Nat /\ TokenBudget \in Nat /\ MaxSeqLen <= TokenBudget
    BY BudgetAssumption
<1>3. s.widest \in Nat /\ s.widest <= MaxSeqLen
    BY <1>2 DEF WithinBudget
<1>4. w = Width(items[i])
    OBVIOUS
<1> HIDE DEF w
<1>5. CASE s.current # <<>> /\ Wider(s, w) * (Len(s.current) + 1) > TokenBudget
    <2>1. p = [chunks |-> Append(s.chunks, s.current), current |-> <<i>>, widest |-> w]
        BY <1>5 DEF Place
    <2>2. \A k \in DOMAIN Append(s.chunks, s.current) : Fits(Append(s.chunks, s.current)[k])
        <3>1. Fits(s.current)
            BY <1>5, ClosedFits
        <3>2. IsSeq(s.chunks) /\ \A k \in DOMAIN s.chunks : Fits(s.chunks[k])
            BY DEF WithinBudget
        <3> QED
            BY <3>1, <3>2, Appended
    <2>3. IsSeq(Append(s.chunks, s.current))
        BY Appended DEF WithinBudget
    <2>4. IsSeq(<<i>>) /\ Len(<<i>>) = 1 /\ DOMAIN <<i>> = {1} /\ <<i>>[1] = i
        <3>1. <<i>> \in Seq({i}) /\ DOMAIN <<i>> = {1} /\ <<i>>[1] = i /\ Len(<<i>>) = 1
            OBVIOUS
        <3>2. {<<i>>[k] : k \in DOMAIN <<i>>} = {i}
            BY <3>1
        <3> QED
            BY <3>1, <3>2 DEF IsSeq
    <2>5. w * 1 <= TokenBudget
        BY <1>1, <1>2
    <2>6. w \in 0 .. MaxSeqLen
        BY <1>1, <1>2
    <2>7. w * Len(<<i>>) <= TokenBudget /\ \A k \in DOMAIN <<i>> : Width(items[<<i>>[k]]) <= w
        BY <2>4, <2>5, <1>1, <1>4
    <2> DEFINE one == <<i>>
               closed == Append(s.chunks, s.current)
    <2> HIDE DEF p, one, closed
    <2>8. p = [chunks |-> closed, current |-> one, widest |-> w]
        BY <2>1 DEF one, closed
    <2>9. WithinBudget(p)
        BY <2>8, <2>2, <2>3, <2>4, <2>6, <2>7 DEF WithinBudget, one, closed
    <2> QED
        BY <2>9 DEF p, w
<1>6. CASE ~(s.current # <<>> /\ Wider(s, w) * (Len(s.current) + 1) > TokenBudget)
    <2> DEFINE c == Append(s.current, i)
               wide == Wider(s, w)
    <2>1. p = [chunks |-> s.chunks, current |-> c, widest |-> wide]
        BY <1>6 DEF Place, WithinBudget
    <2>2. /\ IsSeq(c) /\ Len(c) = Len(s.current) + 1 /\ Len(s.current) \in Nat
          /\ DOMAIN c = 1 .. Len(s.current) + 1 /\ DOMAIN s.current = 1 .. Len(s.current)
          /\ \A k \in 1 .. Len(s.current) : c[k] = s.current[k]
          /\ c[Len(s.current) + 1] = i
        BY Appended DEF WithinBudget
    <2>3. wide \in Nat /\ wide <= MaxSeqLen /\ w <= wide /\ s.widest <= wide
        BY <1>1, <1>3 DEF Wider
    <2>4. wide * Len(c) <= TokenBudget
        <3>1. CASE s.current = <<>>
            <4>1. Len(c) = 1
                BY <3>1, <2>2
            <4> HIDE DEF wide, c
            <4> QED
                BY <4>1, <2>3, <1>2
        <3>2. CASE s.current # <<>>
            <4>1. ~(wide * (Len(s.current) + 1) > TokenBudget)
                BY <1>6, <3>2
            <4>2. Len(s.current) + 1 \in Nat /\ Len(c) = Len(s.current) + 1
                BY <2>2
            <4> DEFINE n == Len(s.current) + 1
            <4> HIDE DEF wide, n
            <4>3. wide * n \in Nat
                BY <4>2, <2>3 DEF n
            <4>4. wide * n <= TokenBudget
                BY <4>1, <4>3, <1>2 DEF n
            <4> QED
                BY <4>4, <4>2 DEF n
        <3> QED
            BY <3>1, <3>2
    <2>5. \A k \in DOMAIN c : Width(items[c[k]]) <= wide
        <3> SUFFICES ASSUME NEW k \in DOMAIN c PROVE Width(items[c[k]]) <= wide
            OBVIOUS
        <3> HIDE DEF c, wide
        <3>1. CASE k = Len(s.current) + 1
            BY <3>1, <2>2, <2>3, <1>4
        <3>2. CASE k \in 1 .. Len(s.current)
            <4>1. Width(items[c[k]]) <= s.widest
                BY <3>2, <2>2 DEF WithinBudget
            <4>2. Width(items[c[k]]) \in Nat
                BY WidthBounded, <1>2
            <4> QED
                BY <4>1, <4>2, <2>3, <1>3
        <3> QED
            BY <3>1, <3>2, <2>2
    <2>6. wide \in 0 .. MaxSeqLen
        BY <2>3, <1>2
    <2> HIDE DEF c, wide
    <2>7. IsSeq(s.chunks) /\ \A k \in DOMAIN s.chunks : Fits(s.chunks[k])
        BY DEF WithinBudget
    <2> HIDE DEF p
    <2>8. p.chunks = s.chunks /\ p.current = c /\ p.widest = wide
        BY <2>1
    <2>9. WithinBudget(p)
        BY <2>1, <2>2, <2>4, <2>5, <2>6, <2>7, <2>8 DEF WithinBudget
    <2> QED
        BY <2>9 DEF p, w
<1> QED
    BY <1>5, <1>6

(* The split a batch begins with. *)
LEMMA EmptyWithinBudget == WithinBudget(EmptySplit)
<1>1. EmptySplit.chunks = <<>> /\ EmptySplit.current = <<>> /\ EmptySplit.widest = 0
    BY DEF EmptySplit
<1>2. IsSeq(<<>>) /\ DOMAIN <<>> = {}
    BY DEF IsSeq
<1>3. 0 \in 0 .. MaxSeqLen
    BY BudgetAssumption
<1>4. EmptySplit = [chunks |-> EmptySplit.chunks, current |-> EmptySplit.current,
                    widest |-> EmptySplit.widest]
    BY DEF EmptySplit
<1> QED
    BY <1>1, <1>2, <1>3, <1>4 DEF WithinBudget

(* ... and so does its end. *)
LEMMA CloseWithinBudget ==
    ASSUME NEW s, WithinBudget(s)
    PROVE  WithinBudget([EmptySplit EXCEPT !.chunks = Close(s)])
<1> DEFINE closed == [EmptySplit EXCEPT !.chunks = Close(s)]
<1>1. closed = [chunks |-> Close(s), current |-> <<>>, widest |-> 0]
    BY DEF EmptySplit
<1>2. IsSeq(Close(s)) /\ \A k \in DOMAIN Close(s) : Fits(Close(s)[k])
    <2>1. IsSeq(s.chunks) /\ \A k \in DOMAIN s.chunks : Fits(s.chunks[k])
        BY DEF WithinBudget
    <2>2. CASE s.current = <<>>
        BY <2>1, <2>2 DEF Close
    <2>3. CASE s.current # <<>>
        <3>1. Close(s) = Append(s.chunks, s.current)
            BY <2>3 DEF Close
        <3>2. Fits(s.current)
            BY <2>3, ClosedFits
        <3> QED
            BY <2>1, <3>1, <3>2, Appended
    <2> QED
        BY <2>2, <2>3
<1>3. IsSeq(<<>>) /\ DOMAIN <<>> = {}
    BY DEF IsSeq
<1>4. 0 \in 0 .. MaxSeqLen
    BY BudgetAssumption
<1> HIDE DEF closed
<1>5. closed.chunks = Close(s) /\ closed.current = <<>> /\ closed.widest = 0
    BY <1>1
<1>6. closed = [chunks |-> closed.chunks, current |-> closed.current, widest |-> closed.widest]
    BY <1>1, <1>5
<1>7. WithinBudget(closed)
    BY <1>2, <1>3, <1>4, <1>5, <1>6 DEF WithinBudget
<1> QED
    BY <1>7 DEF closed

(* The ranks begin within the budget. *)
LEMMA BudgetInit == Init => BudgetInv
BY EmptyWithinBudget DEF Init, BudgetInv

(* The split of one rank is replaced by one within the budget. *)
LEMMA BudgetOneRank ==
    ASSUME BudgetInv, NEW r \in Ranks, NEW s, WithinBudget(s),
           split' = [split EXCEPT ![r] = s], UNCHANGED <<conf, items>>
    PROVE  BudgetInv'
<1>1. Ranks' = Ranks
    BY DEF Ranks
<1>2. \A q : WithinBudget(q) => WithinBudget(q)'
    BY DEF WithinBudget, Fits, Width
<1> QED
    BY <1>1, <1>2 DEF BudgetInv

(* Every step keeps the budget: only the split is what it is about. *)
LEMMA BudgetNext == BudgetInv /\ [Next]_vars => BudgetInv'
<1> SUFFICES ASSUME BudgetInv, [Next]_vars PROVE BudgetInv'
    OBVIOUS
<1>1. ASSUME UNCHANGED <<conf, items, split>> PROVE BudgetInv'
    <2>1. Ranks' = Ranks /\ split' = split
        BY <1>1 DEF Ranks
    <2>2. \A q : WithinBudget(q) => WithinBudget(q)'
        BY <1>1 DEF WithinBudget, Fits, Width
    <2> QED
        BY <2>1, <2>2 DEF BudgetInv
<1>2. ASSUME NEW r \in Ranks, SortBatch(r) PROVE BudgetInv'
    BY <1>2, EmptyWithinBudget, BudgetOneRank DEF SortBatch
<1>3. ASSUME NEW r \in Ranks, PlaceItem(r) PROVE BudgetInv'
    <2>1. WithinBudget(split[r])
        BY DEF BudgetInv
    <2>2. split' = [split EXCEPT ![r] =
                      Place(split[r], Head(todo[r]), Width(items[Head(todo[r])]))]
        BY <1>3 DEF PlaceItem, BudgetInv
    <2> QED
        BY <1>3, <2>1, <2>2, PlaceWithinBudget, BudgetOneRank DEF PlaceItem
<1>4. ASSUME NEW r \in Ranks, CloseSplit(r) PROVE BudgetInv'
    <2>1. WithinBudget(split[r])
        BY DEF BudgetInv
    <2> QED
        BY <1>4, <2>1, CloseWithinBudget, BudgetOneRank DEF CloseSplit
<1>5. ASSUME NEW r \in Ranks, OpenEpoch(r) \/ RunOut(r) \/ Fetch(r) PROVE BudgetInv'
    BY <1>5, <1>1 DEF OpenEpoch, RunOut, Fetch, splitVars
<1>6. ASSUME NEW r \in Ranks, CollateChunk(r) \/ Backward(r) \/ Update(r) PROVE BudgetInv'
    BY <1>6, <1>1 DEF CollateChunk, Backward, Update, splitVars
<1>7. CASE Primary
    BY <1>7, <1>1 DEF Primary, Publish, WriteModel, WriteRest, Evaluate, splitVars
<1>8. CASE Collective
    BY <1>8, <1>1 DEF Collective, Forward, ReduceGradients, ReduceNorm, GatherState, GatherModel,
       GatherOptimizer, ReduceStats, EnterEval, LeaveEval, splitVars
<1>9. CASE UNCHANGED vars
    BY <1>9, <1>1 DEF vars, splitVars
<1> QED
    BY <1>2, <1>3, <1>4, <1>5, <1>6, <1>7, <1>8, <1>9 DEF Next, Alone

(* Micro-batches are never empty and never exceed the token budget, for any  *)
(* items, budget and number of ranks: split_items_by_token_budget.           *)
THEOREM BudgetKept == Spec => []ChunksFit
<1>1. BudgetInv => ChunksFit
    BY DEF BudgetInv, WithinBudget, ChunksFit, Chunks
<1> QED
    BY BudgetInit, BudgetNext, <1>1, PTL DEF Spec

-----------------------------------------------------------------------------
(* The clipped losses *)

(* Multiplication keeps the order of two numbers by a positive factor. *)
LEMMA Scale ==
    ASSUME NEW x \in Int, NEW y \in Int, x < y, NEW a \in Int, a > 0
    PROVE  x * a < y * a
<1>1. y - x \in Nat \ {0} /\ a \in Nat \ {0} /\ (y - x) * a = y * a - x * a
    OBVIOUS
<1>2. (y - x) * a \in Nat \ {0}
    BY <1>1
<1>3. x * a \in Int /\ y * a \in Int
    OBVIOUS
<1> QED
    BY <1>1, <1>2, <1>3

(* min(r * A, clip(r) * A), whatever clip range, ratio and advantage: the    *)
(* gradient of ClippedSurrogateLoss and TokenClippedSurrogateLoss is never   *)
(* against the advantage, and there is none where the ratio has left the     *)
(* range on the side the advantage pushes it to.                             *)
THEOREM SurrogateInRegion ==
    ASSUME NEW loss, loss.low \in Int, loss.high \in Int, loss.low <= loss.high,
           NEW ratio \in Nat, NEW adv \in Int
    PROVE  /\ adv > 0 => SurrogatePush(loss, ratio, adv) >= 0
           /\ adv < 0 => SurrogatePush(loss, ratio, adv) <= 0
           /\ adv > 0 /\ ratio > loss.high => SurrogatePush(loss, ratio, adv) = 0
           /\ adv < 0 /\ ratio < loss.low => SurrogatePush(loss, ratio, adv) = 0
<1>1. SurrogatePush(loss, ratio, adv) = 0 \/ SurrogatePush(loss, ratio, adv) = ratio * adv
    BY DEF SurrogatePush
<1>2. adv > 0 => ratio * adv >= 0
    <2> SUFFICES ASSUME adv > 0 PROVE ratio * adv >= 0
        OBVIOUS
    <2>1. adv \in Nat
        OBVIOUS
    <2> QED
        BY <2>1
<1>3. adv < 0 => ratio * adv <= 0
    <2> SUFFICES ASSUME adv < 0 PROVE ratio * adv <= 0
        OBVIOUS
    <2>1. -adv \in Nat /\ ratio * (-adv) = -(ratio * adv) /\ ratio * adv \in Int
        OBVIOUS
    <2>2. ratio * (-adv) \in Nat
        BY <2>1
    <2> QED
        BY <2>1, <2>2
<1>4. ASSUME adv > 0, ratio > loss.high PROVE SurrogatePush(loss, ratio, adv) = 0
    <2>1. Clamp(ratio, loss.low, loss.high) = loss.high
        BY <1>4 DEF Clamp
    <2>2. loss.high * adv < ratio * adv
        BY <1>4, Scale
    <2>3. ~(ratio * adv <= loss.high * adv)
        BY <2>2
    <2> QED
        BY <2>1, <2>3 DEF SurrogatePush
<1>5. ASSUME adv < 0, ratio < loss.low PROVE SurrogatePush(loss, ratio, adv) = 0
    <2>1. Clamp(ratio, loss.low, loss.high) = loss.low
        BY <1>5 DEF Clamp
    <2>2. ratio * (-adv) < loss.low * (-adv)
        BY <1>5, Scale
    <2>3. ratio * (-adv) = -(ratio * adv) /\ loss.low * (-adv) = -(loss.low * adv)
        OBVIOUS
    <2>4. ~(ratio * adv <= loss.low * adv)
        BY <2>2, <2>3
    <2> QED
        BY <2>1, <2>4 DEF SurrogatePush
<1> QED
    BY <1>1, <1>2, <1>3, <1>4, <1>5

-----------------------------------------------------------------------------
(* The collectives *)

(* The invariant of the lockstep says which collective operation all ranks   *)
(* were last in, and how far each may have come from there on its own.       *)

(* The variables the ranks are kept in step by. *)
LockTypes ==
    /\ conf \in Confs
    /\ pc = [r \in Ranks |-> pc[r]]
    /\ step \in [Ranks -> Nat]
    /\ at \in [Ranks -> Nat]
    /\ merged \in [Ranks -> BOOLEAN]

(* Where a rank may be that has begun a step and met no other rank in it. *)
Begun(r) ==
    \/ pc[r] \in {"split", "place", "raised", "final"}
    \/ pc[r] \in {"collate", "forward"} /\ at[r] = 1

(* Rank r is done with the first k of what may be due after n steps. *)
After(k, n, r) ==
    /\ step[r] = n
    /\ \/ pc[r] = Onward(k, n)
       \/ Onward(k, n) = "fetch" /\ Begun(r)

(* The collectives after which the ranks may be apart, each with the step n, *)
(* and the micro-batch a, that they were in it at.                           *)
SinceStart(n, r) == step[r] = n /\ pc[r] = "eval" /\ ~merged[r]

SinceForward(n, a, r) ==
    /\ step[r] = n /\ ~merged[r]
    /\ \/ pc[r] = "backward" /\ at[r] = a
       \/ pc[r] \in {"collate", "forward"} /\ at[r] = a + 1
       \/ pc[r] \in {"reduce", "raised"}

SinceReduce(n, r) == step[r] = n /\ pc[r] = "norm" /\ ~merged[r]

SinceNorm(n, r) ==
    \/ step[r] = n /\ pc[r] = "update" /\ ~merged[r]
    \/ After(0, n + 1, r) /\ (merged[r] <=> conf.peft /\ Due("state", n + 1))

SinceState(n, r) ==
    \/ After(1, n, r) /\ ~merged[r]
    \/ r = 0 /\ step[r] = n /\ pc[r] = "publish" /\ (merged[r] <=> conf.peft)

SinceModel(n, r) ==
    /\ step[r] = n /\ ~merged[r]
    /\ pc[r] = "optimizer" \/ (r = 0 /\ pc[r] = "model")

SinceOptimizer(n, r) ==
    /\ ~merged[r]
    /\ After(2, n, r) \/ (r = 0 /\ step[r] = n /\ pc[r] = "rest")

SinceStats(n, r) == After(3, n, r) /\ ~merged[r]

SinceEnter(n, r) ==
    /\ step[r] = n /\ ~merged[r]
    /\ pc[r] = "leave" \/ (r = 0 /\ pc[r] = "evaluate")

SinceLeave(n, r) == After(4, n, r) /\ ~merged[r]

SinceFinal(n, r) ==
    /\ step[r] = n /\ ~merged[r]
    /\ \/ pc[r] \in {"last_optimizer", "returned"}
       \/ r = 0 /\ pc[r] \in {"last_model", "last_rest"}

Since(zone, n, a, r) ==
    \/ zone = "start" /\ SinceStart(n, r)
    \/ zone = "forward" /\ SinceForward(n, a, r)
    \/ zone = "reduce" /\ SinceReduce(n, r)
    \/ zone = "norm" /\ SinceNorm(n, r)
    \/ zone = "state" /\ SinceState(n, r)
    \/ zone = "model" /\ SinceModel(n, r)
    \/ zone = "optimizer" /\ SinceOptimizer(n, r)
    \/ zone = "stats" /\ SinceStats(n, r)
    \/ zone = "enter" /\ SinceEnter(n, r)
    \/ zone = "leave" /\ SinceLeave(n, r)
    \/ zone = "final" /\ SinceFinal(n, r)

Zones == {"start", "forward", "reduce", "norm", "state", "model", "optimizer", "stats",
          "enter", "leave", "final"}

LockInv ==
    /\ LockTypes
    /\ \E zone \in Zones, n \in Nat, a \in Nat : \A r \in Ranks : Since(zone, n, a, r)

-----------------------------------------------------------------------------
(* There is a rank 0. *)
LEMMA RankZero == ASSUME conf \in Confs PROVE 0 \in Ranks
BY TrainerAssumption DEF Ranks

(* Where Onward leads. *)
LEMMA OnwardPlaces ==
    ASSUME NEW k \in 0 .. 4, NEW n \in Nat
    PROVE  /\ Onward(k, n) \in {"state", "save", "stats", "eval", "fetch", "final"}
           /\ Onward(k, n) = "state" <=> k = 0 /\ Due("state", n)
BY DEF Onward

(* Ranks that have come to the same place, be it a collective operation or   *)
(* not, have come there in the same step, with the same weights.             *)
LEMMA Meet ==
    ASSUME LockInv, NEW kind, AllAt(kind)
    PROVE  /\ \E n \in Nat : \A r \in Ranks : step[r] = n
           /\ \A r \in Ranks : merged[r] <=> kind \in {"state", "publish"} /\ conf.peft
           /\ kind = "forward" => \E a \in Nat : \A r \in Ranks : at[r] = a
<1>1. PICK zone \in Zones, n \in Nat, a \in Nat : \A r \in Ranks : Since(zone, n, a, r)
    BY DEF LockInv
<1>2. 0 \in Ranks /\ \A r \in Ranks : pc[r] = kind
    BY RankZero DEF LockInv, LockTypes, AllAt
<1>3. n + 1 \in Nat /\ a + 1 \in Nat /\ 1 \in Nat
    OBVIOUS
<1>4. \A k \in 0 .. 4, r \in Ranks :
        After(k, n, r) => pc[r] # "publish" /\ (pc[r] = "state" => k = 0 /\ Due("state", n))
    BY OnwardPlaces DEF After, Begun
<1>5. \A r \in Ranks : After(0, n + 1, r) =>
        /\ pc[r] # "publish" /\ pc[r] # "update"
        /\ pc[r] = "state" <=> Due("state", n + 1)
    <2>1. Onward(0, n + 1) \in {"state", "save", "stats", "eval", "fetch", "final"}
        BY <1>3, OnwardPlaces
    <2>2. Onward(0, n + 1) = "state" <=> Due("state", n + 1)
        BY <1>3, OnwardPlaces
    <2> QED
        BY <2>1, <2>2 DEF After, Begun
<1>6. \E m \in Nat : \A r \in Ranks : step[r] = m
    <2>1. CASE zone = "norm" /\ kind # "update"
        BY <1>1, <1>2, <1>3, <2>1 DEF Since, SinceNorm, After
    <2>2. CASE zone = "norm" /\ kind = "update"
        BY <1>1, <1>2, <1>5, <2>2 DEF Since, SinceNorm
    <2>3. CASE zone # "norm"
        BY <1>1, <2>3 DEF Since, SinceStart, SinceForward, SinceReduce, SinceState, SinceModel,
           SinceOptimizer, SinceStats, SinceEnter, SinceLeave, SinceFinal, After
    <2> QED
        BY <2>1, <2>2, <2>3
<1>7. \A r \in Ranks : merged[r] <=> kind \in {"state", "publish"} /\ conf.peft
    <2> SUFFICES ASSUME NEW r \in Ranks
                 PROVE  merged[r] <=> kind \in {"state", "publish"} /\ conf.peft
        OBVIOUS
    <2>1. CASE zone = "norm"
        BY <1>1, <1>2, <1>5, <2>1 DEF Since, SinceNorm
    <2>2. CASE zone = "state"
        BY <1>1, <1>2, <1>4, <2>2 DEF Since, SinceState
    <2>3. CASE zone \in {"optimizer", "stats", "leave"}
        BY <1>1, <1>2, <1>4, <2>3 DEF Since, SinceOptimizer, SinceStats, SinceLeave
    <2>4. CASE zone \in {"start", "forward", "reduce", "model", "enter", "final"}
        BY <1>1, <1>2, <2>4 DEF Since, SinceStart, SinceForward, SinceReduce, SinceModel,
           SinceEnter, SinceFinal
    <2> QED
        BY <2>1, <2>2, <2>3, <2>4 DEF Zones
<1>8. ASSUME kind = "forward" PROVE \E b \in Nat : \A r \in Ranks : at[r] = b
    <2>1. CASE zone = "forward"
        BY <1>1, <1>2, <1>3, <1>8, <2>1 DEF Since, SinceForward
    <2>2. \A k \in 0 .. 4, r \in Ranks, m \in Nat :
            After(k, m, r) /\ pc[r] = "forward" => at[r] = 1
        BY OnwardPlaces DEF After, Begun
    <2>3. CASE zone \in {"norm", "state", "optimizer", "stats", "leave"}
        BY <1>1, <1>2, <1>3, <1>8, <2>2, <2>3 DEF Since, SinceNorm, SinceState, SinceOptimizer,
           SinceStats, SinceLeave
    <2>4. zone \notin {"start", "reduce", "model", "enter", "final"}
        BY <1>1, <1>2, <1>8 DEF Since, SinceStart, SinceReduce, SinceModel, SinceEnter,
           SinceFinal
    <2> QED
        BY <2>1, <2>3, <2>4 DEF Zones
<1> QED
    BY <1>6, <1>7, <1>8

(* The ranks begin since "start". *)
LEMMA LockInit == Init => LockInv
<1> SUFFICES ASSUME Init PROVE LockInv
    OBVIOUS
<1>1. pc = [r \in Ranks |-> IF EvalAtStart THEN "eval" ELSE Onward(4, 0)]
    BY DEF Init
<1>2. Onward(4, 0) \in {"state", "save", "stats", "eval", "fetch", "final"}
    BY OnwardPlaces
<1>3. LockTypes
    <2>1. pc = [r \in Ranks |-> pc[r]]
        BY <1>1
    <2>2. conf \in Confs /\ step = [r \in Ranks |-> 0] /\ at = [r \in Ranks |-> 0]
          /\ merged = [r \in Ranks |-> FALSE]
        BY DEF Init
    <2> QED
        BY <2>1, <2>2 DEF LockTypes
<1>4. \A r \in Ranks : step[r] = 0 /\ ~merged[r]
    BY DEF Init
<1>5. CASE EvalAtStart
    <2>1. \A r \in Ranks : Since("start", 0, 0, r)
        BY <1>1, <1>4, <1>5 DEF Since, SinceStart
    <2> QED
        BY <1>3, <2>1 DEF LockInv, Zones
<1>6. CASE ~EvalAtStart
    <2>1. \A r \in Ranks : Since("leave", 0, 0, r)
        BY <1>1, <1>4, <1>6 DEF Since, SinceLeave, After
    <2> QED
        BY <1>3, <2>1 DEF LockInv, Zones
<1> QED
    BY <1>5, <1>6

(* Ranks at the same collective operation are in the same step. *)
LEMMA LockImplies == LockInv => Lockstep
<1> SUFFICES ASSUME LockInv PROVE Lockstep
    OBVIOUS
<1>1. 0 \in Ranks /\ merged \in [Ranks -> BOOLEAN]
    BY RankZero DEF LockInv, LockTypes
<1>2. ASSUME NEW kind \in Places, AllAt(kind), NEW r \in Ranks, NEW s \in Ranks
      PROVE  step[r] = step[s] /\ merged[r] = merged[s]
    <2>1. step[r] = step[s]
        BY <1>2, Meet
    <2>2. merged[r] <=> merged[s]
        <3>1. \A q \in Ranks : merged[q] <=> kind \in {"state", "publish"} /\ conf.peft
            BY <1>2, Meet
        <3> QED
            BY <1>2, <3>1, Zenon
    <2>3. merged[r] \in BOOLEAN /\ merged[s] \in BOOLEAN
        BY <1>1
    <2> QED
        BY <2>1, <2>2, <2>3
<1>3. AllAt("state") => (merged[0] <=> conf.peft)
    BY <1>1, Meet
<1>4. AllAt("forward") => \A r \in Ranks : at[r] = at[0] /\ ~merged[r]
    BY <1>1, Meet
<1>5. ASSUME pc[0] = "evaluate", NEW r \in Ranks \ {0} PROVE pc[r] = "leave"
    <2>1. PICK zone \in Zones, n \in Nat, a \in Nat : \A q \in Ranks : Since(zone, n, a, q)
        BY DEF LockInv
    <2>2. \A k \in 0 .. 4, q \in Ranks, m \in Nat : After(k, m, q) => pc[q] # "evaluate"
        BY OnwardPlaces DEF After, Begun
    <2>3. n + 1 \in Nat
        OBVIOUS
    <2>4. zone = "enter"
        BY <1>1, <1>5, <2>1, <2>2, <2>3 DEF Since, SinceStart, SinceForward, SinceReduce,
           SinceNorm, SinceState, SinceModel, SinceOptimizer, SinceStats, SinceLeave, SinceFinal
    <2> QED
        BY <1>5, <2>1, <2>4 DEF Since, SinceEnter
<1> QED
    BY <1>2, <1>3, <1>4, <1>5 DEF Lockstep

-----------------------------------------------------------------------------
(* What a rank does on its own leaves it since the same collective. *)

(* Only rank r moves, and it stays since the collective it was since. *)
LEMMA OneRank ==
    ASSUME LockInv, conf' = conf, NEW r \in Ranks,
           \A q \in Ranks \ {r} : /\ pc'[q] = pc[q] /\ step'[q] = step[q]
                                  /\ at'[q] = at[q] /\ merged'[q] = merged[q],
           LockTypes',
           \A zone \in Zones, n \in Nat, a \in Nat :
              Since(zone, n, a, r) => Since(zone, n, a, r)'
    PROVE  LockInv'
<1>1. PICK zone \in Zones, n \in Nat, a \in Nat : \A q \in Ranks : Since(zone, n, a, q)
    BY DEF LockInv
<1>2. Ranks' = Ranks
    BY DEF Ranks
<1>3. \A k, m : Onward(k, m)' = Onward(k, m)
    BY DEF Onward, Due
<1>4. \A q \in Ranks \ {r} : /\ \A k, m : After(k, m, q)' <=> After(k, m, q)
                             /\ merged'[q] = merged[q]
    BY <1>3 DEF After, Begun
<1>5. ASSUME NEW q \in Ranks \ {r} PROVE Since(zone, n, a, q)'
    <2>1. /\ SinceStart(n, q)' <=> SinceStart(n, q)
          /\ SinceForward(n, a, q)' <=> SinceForward(n, a, q)
          /\ SinceReduce(n, q)' <=> SinceReduce(n, q)
        BY DEF SinceStart, SinceForward, SinceReduce
    <2>2. SinceNorm(n, q)' <=> SinceNorm(n, q)
        BY <1>4 DEF SinceNorm, Due
    <2>3. /\ SinceState(n, q)' <=> SinceState(n, q)
          /\ SinceOptimizer(n, q)' <=> SinceOptimizer(n, q)
          /\ SinceStats(n, q)' <=> SinceStats(n, q)
          /\ SinceLeave(n, q)' <=> SinceLeave(n, q)
        BY <1>4 DEF SinceState, SinceOptimizer, SinceStats, SinceLeave
    <2>4. /\ SinceModel(n, q)' <=> SinceModel(n, q)
          /\ SinceEnter(n, q)' <=> SinceEnter(n, q)
          /\ SinceFinal(n, q)' <=> SinceFinal(n, q)
        BY DEF SinceModel, SinceEnter, SinceFinal
    <2>5. Since(zone, n, a, q)
        BY <1>1
    <2> QED
        BY <2>1, <2>2, <2>3, <2>4, <2>5 DEF Since
<1>6. \A q \in Ranks : Since(zone, n, a, q)'
    BY <1>1, <1>5
<1> QED
    BY <1>2, <1>6 DEF LockInv

(* A rank between the fetch and the first forward pass of a step goes on to  *)
(* another place there, or leaves the loop, wherever it came from.           *)
LEMMA BeginStays ==
    ASSUME NEW r \in Ranks, pc[r] \in {"fetch", "split", "place", "collate"},
           \/ pc'[r] \in {"fetch", "split", "place", "raised", "final"}
           \/ pc'[r] = "collate" /\ at'[r] = 1
           \/ pc'[r] = "forward" /\ pc[r] = "collate" /\ at'[r] = at[r],
           conf' = conf, step'[r] = step[r], merged'[r] = merged[r],
           NEW zone \in Zones, NEW n \in Nat, NEW a, Since(zone, n, a, r), zone # "forward"
    PROVE  Since(zone, n, a, r)'
<1>1. \A k, m : Onward(k, m)' = Onward(k, m) /\ (Due("state", m)' <=> Due("state", m))
    BY DEF Onward, Due
<1>2. ASSUME NEW k \in 0 .. 4, NEW m \in Nat, After(k, m, r)
      PROVE  After(k, m, r)'
    <2>1. Onward(k, m) = "fetch"
        BY <1>2, OnwardPlaces DEF After, Begun
    <2>2. pc[r] = "collate" => at[r] = 1
        BY <1>2, <2>1 DEF After, Begun
    <2>3. pc'[r] = "fetch" \/ Begun(r)'
        BY <2>2 DEF Begun
    <2> QED
        BY <1>1, <1>2, <2>1, <2>3 DEF After
<1>3. n + 1 \in Nat
    OBVIOUS
<1>4. zone \in {"norm", "state", "optimizer", "stats", "leave"}
    BY DEF Zones, Since, SinceStart, SinceReduce, SinceModel, SinceEnter, SinceFinal
<1>5. CASE zone = "norm"
    <2>1. After(0, n + 1, r) /\ (merged[r] <=> conf.peft /\ Due("state", n + 1))
        BY <1>5 DEF Since, SinceNorm
    <2>2. After(0, n + 1, r)'
        BY <1>2, <1>3, <2>1
    <2>3. (merged[r] <=> conf.peft /\ Due("state", n + 1))'
        BY <1>1, <2>1
    <2> QED
        BY <1>5, <2>2, <2>3 DEF Since, SinceNorm
<1>6. CASE zone # "norm"
    <2>1. ~merged[r] /\ \E k \in 0 .. 4 : After(k, n, r)
        BY <1>4, <1>6 DEF Since, SinceState, SinceOptimizer, SinceStats, SinceLeave
    <2>2. ~merged'[r]
        BY <2>1
    <2>3. \A k \in 0 .. 4 : After(k, n, r) => After(k, n, r)'
        BY <1>2
    <2> QED
        BY <1>4, <1>6, <2>2, <2>3 DEF Since, SinceState, SinceOptimizer, SinceStats, SinceLeave
<1> QED
    BY <1>5, <1>6

(* What a rank does on its own before its first forward pass. *)
LEMMA BeginLock ==
    ASSUME LockInv, UNCHANGED <<conf, step, merged>>, NEW r \in Ranks,
           NEW place, pc' = [pc EXCEPT ![r] = place],
           NEW b \in Nat, at' = [at EXCEPT ![r] = b],
           \/ pc[r] \in {"fetch", "split", "place"}
                /\ place \in {"fetch", "split", "place", "raised", "final"}
           \/ pc[r] \in {"fetch", "split", "place"} /\ place = "collate" /\ b = 1
           \/ pc[r] = "collate" /\ place \in {"forward", "raised"} /\ b = at[r]
    PROVE  LockInv'
<1>1. LockTypes /\ Ranks' = Ranks
    BY DEF LockInv, Ranks
<1>2. LockTypes'
    BY <1>1 DEF LockTypes
<1>3. pc'[r] = place /\ at'[r] = b /\ step'[r] = step[r] /\ merged'[r] = merged[r]
    BY <1>1 DEF LockTypes
<1>4. ASSUME NEW zone \in Zones, NEW n \in Nat, NEW a \in Nat, Since(zone, n, a, r)
      PROVE  Since(zone, n, a, r)'
    <2>1. CASE zone = "forward"
        <3>1. SinceForward(n, a, r)
            BY <1>4, <2>1 DEF Since
        <3>2. SinceForward(n, a, r)'
            BY <1>3, <3>1 DEF SinceForward
        <3> QED
            BY <2>1, <3>2 DEF Since
    <2>2. CASE zone # "forward"
        BY <1>3, <1>4, <2>2, BeginStays
    <2> QED
        BY <2>1, <2>2
<1>5. \A q \in Ranks \ {r} : /\ pc'[q] = pc[q] /\ step'[q] = step[q]
                             /\ at'[q] = at[q] /\ merged'[q] = merged[q]
    BY <1>1 DEF LockTypes
<1> QED
    BY <1>2, <1>4, <1>5, OneRank

(* A backward pass, on to the next micro-batch or to the reduction. *)
LEMMA BackwardLock ==
    ASSUME LockInv, NEW r \in Ranks, Backward(r)
    PROVE  LockInv'
<1>1. LockTypes /\ Ranks' = Ranks /\ at[r] \in Nat
    BY DEF LockInv, LockTypes, Ranks, Backward
<1>2. /\ UNCHANGED <<conf, step, merged>> /\ pc[r] = "backward"
      /\ \/ pc' = [pc EXCEPT ![r] = "raised"] /\ at' = at
         \/ pc' = [pc EXCEPT ![r] = "reduce"] /\ at' = [at EXCEPT ![r] = @]
         \/ pc' = [pc EXCEPT ![r] = "collate"] /\ at' = [at EXCEPT ![r] = @ + 1]
    <2>1. UNCHANGED <<conf, step, merged>> /\ pc[r] = "backward"
        BY DEF Backward
    <2> DEFINE last == at[r] = Len(Chunks(r))
    <2>2. \/ pc' = [pc EXCEPT ![r] = "raised"] /\ at' = at
          \/ /\ pc' = [pc EXCEPT ![r] = IF last THEN "reduce" ELSE "collate"]
             /\ at' = [at EXCEPT ![r] = IF last THEN @ ELSE @ + 1]
        BY Zenon DEF Backward, Goto
    <2> HIDE DEF last
    <2> QED
        BY <2>1, <2>2
<1>3. LockTypes'
    BY <1>1, <1>2 DEF LockTypes
<1>4. ASSUME NEW zone \in Zones, NEW n \in Nat, NEW a \in Nat, Since(zone, n, a, r)
      PROVE  Since(zone, n, a, r)'
    <2>1. \A k \in 0 .. 4, m \in Nat : ~After(k, m, r)
        BY <1>2, OnwardPlaces DEF After, Begun
    <2>2. n + 1 \in Nat
        OBVIOUS
    <2>3. zone = "forward" /\ SinceForward(n, a, r)
        BY <1>2, <1>4, <2>1, <2>2 DEF Since, SinceStart, SinceReduce, SinceNorm, SinceState,
           SinceModel, SinceOptimizer, SinceStats, SinceEnter, SinceLeave, SinceFinal
    <2>4. SinceForward(n, a, r)'
        BY <1>1, <1>2, <2>3 DEF SinceForward, LockTypes
    <2> QED
        BY <2>3, <2>4 DEF Since
<1>5. \A q \in Ranks \ {r} : /\ pc'[q] = pc[q] /\ step'[q] = step[q]
                             /\ at'[q] = at[q] /\ merged'[q] = merged[q]
    BY <1>1, <1>2 DEF LockTypes
<1> QED
    BY <1>2, <1>3, <1>4, <1>5, OneRank

(* An optimizer step, on to what is due after it. *)
LEMMA UpdateLock ==
    ASSUME LockInv, NEW r \in Ranks, Update(r)
    PROVE  LockInv'
<1>1. LockTypes /\ Ranks' = Ranks /\ step[r] \in Nat /\ Due("state", step[r] + 1) \in BOOLEAN
    BY DEF LockInv, LockTypes, Ranks, Update, Due
<1>2. /\ UNCHANGED <<conf, at>> /\ pc[r] = "update"
      /\ pc' = [pc EXCEPT ![r] = Onward(0, step[r] + 1)]
      /\ step' = [step EXCEPT ![r] = @ + 1]
      /\ merged' = [merged EXCEPT ![r] = conf.peft /\ Due("state", step[r] + 1)]
    BY DEF Update, Goto, splitVars
<1>3. LockTypes'
    BY <1>1, <1>2 DEF LockTypes
<1>4. \A k, m : Onward(k, m)' = Onward(k, m) /\ (Due("state", m)' <=> Due("state", m))
    BY DEF Onward, Due
<1>5. ASSUME NEW zone \in Zones, NEW n \in Nat, NEW a \in Nat, Since(zone, n, a, r)
      PROVE  Since(zone, n, a, r)'
    <2>1. \A k \in 0 .. 4, m \in Nat : ~After(k, m, r)
        BY <1>2, OnwardPlaces DEF After, Begun
    <2>2. n + 1 \in Nat
        OBVIOUS
    <2>3. zone = "norm" /\ step[r] = n
        BY <1>2, <1>5, <2>1, <2>2 DEF Since, SinceStart, SinceForward, SinceReduce, SinceNorm,
           SinceState, SinceModel, SinceOptimizer, SinceStats, SinceEnter, SinceLeave, SinceFinal
    <2>4. After(0, n + 1, r)'
        BY <1>1, <1>2, <1>4, <2>3 DEF After, LockTypes
    <2>5. (merged[r] <=> conf.peft /\ Due("state", n + 1))'
        BY <1>1, <1>2, <1>4, <2>3 DEF LockTypes
    <2> QED
        BY <2>3, <2>4, <2>5 DEF Since, SinceNorm
<1>6. \A q \in Ranks \ {r} : /\ pc'[q] = pc[q] /\ step'[q] = step[q]
                             /\ at'[q] = at[q] /\ merged'[q] = merged[q]
    BY <1>1, <1>2 DEF LockTypes
<1> QED
    BY <1>2, <1>3, <1>5, <1>6, OneRank

(* Whatever a rank does on its own. *)
LEMMA AloneLock ==
    ASSUME LockInv, NEW r \in Ranks, Alone(r)
    PROVE  LockInv'
<1>1. LockTypes /\ at = [at EXCEPT ![r] = at[r]] /\ at[r] \in Nat
    BY DEF LockInv, LockTypes
<1>2. CASE OpenEpoch(r)
    <2>1. \E place \in {"fetch", "raised"} : pc' = [pc EXCEPT ![r] = place]
        BY <1>2 DEF OpenEpoch, Goto
    <2>2. UNCHANGED <<conf, step, merged, at>> /\ pc[r] = "fetch"
        BY <1>2 DEF OpenEpoch, splitVars
    <2> QED
        BY <1>1, <2>1, <2>2, BeginLock
<1>3. CASE RunOut(r)
    BY <1>1, <1>3, BeginLock DEF RunOut, Goto, splitVars
<1>4. CASE Fetch(r)
    <2>1. \E place \in {"fetch", "split", "raised"} : pc' = [pc EXCEPT ![r] = place]
        BY <1>4 DEF Fetch, Goto
    <2>2. UNCHANGED <<conf, step, merged, at>> /\ pc[r] = "fetch"
        BY <1>4 DEF Fetch
    <2> QED
        BY <1>1, <2>1, <2>2, BeginLock
<1>5. CASE SortBatch(r)
    <2>1. /\ pc[r] = "split" /\ UNCHANGED <<conf, step, merged>>
          /\ pc' = [pc EXCEPT ![r] = "place"] /\ at' = [at EXCEPT ![r] = 0]
        BY <1>5 DEF SortBatch, Goto
    <2> QED
        BY <1>1, <2>1, BeginLock
<1>6. CASE PlaceItem(r)
    <2>1. /\ pc[r] = "place" /\ UNCHANGED <<conf, step, merged, pc, at>>
        BY <1>6 DEF PlaceItem
    <2>2. pc' = [pc EXCEPT ![r] = "place"]
        BY <1>1, <2>1 DEF LockTypes
    <2> QED
        BY <1>1, <2>1, <2>2, BeginLock
<1>7. CASE CloseSplit(r)
    <2>1. /\ pc[r] = "place" /\ UNCHANGED <<conf, step, merged>>
          /\ pc' = [pc EXCEPT ![r] = "collate"] /\ at' = [at EXCEPT ![r] = 1]
        BY <1>7 DEF CloseSplit, Goto
    <2> QED
        BY <1>1, <2>1, BeginLock
<1>8. CASE CollateChunk(r)
    <2>1. \E place \in {"forward", "raised"} : pc' = [pc EXCEPT ![r] = place]
        BY <1>8 DEF CollateChunk, Goto
    <2>2. UNCHANGED <<conf, step, merged, at>> /\ pc[r] = "collate"
        BY <1>8 DEF CollateChunk, splitVars
    <2> QED
        BY <1>1, <2>1, <2>2, BeginLock
<1> QED
    BY <1>2, <1>3, <1>4, <1>5, <1>6, <1>7, <1>8, BackwardLock, UpdateLock DEF Alone

-----------------------------------------------------------------------------
(* What only rank 0 does *)

(* Rank 0 alone moves, to place, and unmerges or has not merged. *)
LEMMA ZeroLock ==
    ASSUME LockInv, UNCHANGED <<conf, step, at>>, NEW place, pc' = [pc EXCEPT ![0] = place],
           merged' = merged \/ merged' = [merged EXCEPT ![0] = FALSE],
           \A zone \in Zones, n \in Nat, a \in Nat :
              Since(zone, n, a, 0) => Since(zone, n, a, 0)'
    PROVE  LockInv'
<1>1. LockTypes /\ 0 \in Ranks /\ Ranks' = Ranks
    BY RankZero DEF LockInv, LockTypes, Ranks
<1>2. LockTypes'
    BY <1>1 DEF LockTypes
<1>3. \A q \in Ranks \ {0} : /\ pc'[q] = pc[q] /\ step'[q] = step[q]
                             /\ at'[q] = at[q] /\ merged'[q] = merged[q]
    BY <1>1 DEF LockTypes
<1> QED
    BY <1>1, <1>2, <1>3, OneRank

(* Whatever only rank 0 does. *)
LEMMA PrimaryLock == ASSUME LockInv, Primary PROVE LockInv'
<1>1. LockTypes /\ 0 \in Ranks
    BY RankZero DEF LockInv, LockTypes
<1>2. \A k, m : Onward(k, m)' = Onward(k, m)
    BY DEF Onward, Due, Primary, Publish, WriteModel, WriteRest, Evaluate
<1>3. \A k \in 0 .. 4, m \in Nat : After(k, m, 0) =>
        pc[0] \notin {"publish", "model", "rest", "evaluate", "last_model", "last_rest"}
    BY OnwardPlaces DEF After, Begun
<1>4. CASE Publish
    <2>1. /\ pc[0] = "publish" /\ UNCHANGED <<conf, step, at>>
          /\ pc' = [pc EXCEPT ![0] = Onward(1, step[0])]
          /\ merged' = [merged EXCEPT ![0] = FALSE]
        BY <1>4 DEF Publish, Goto, splitVars
    <2>2. ASSUME NEW zone \in Zones, NEW n \in Nat, NEW a \in Nat, Since(zone, n, a, 0)
          PROVE  Since(zone, n, a, 0)'
        <3>1. n + 1 \in Nat
            OBVIOUS
        <3>2. zone = "state" /\ step[0] = n
            BY <1>3, <2>1, <2>2, <3>1 DEF Since, SinceStart, SinceForward, SinceReduce, SinceNorm,
               SinceState, SinceModel, SinceOptimizer, SinceStats, SinceEnter, SinceLeave,
               SinceFinal
        <3>3. After(1, n, 0)' /\ ~merged'[0]
            BY <1>1, <1>2, <2>1, <3>2 DEF After, LockTypes
        <3> QED
            BY <3>2, <3>3 DEF Since, SinceState
    <2> QED
        BY <2>1, <2>2, ZeroLock
<1>5. CASE \E save \in {Saving, SavingLast} : WriteModel(save)
    <2>1. PICK save \in {Saving, SavingLast} : WriteModel(save)
        BY <1>5
    <2>2. \/ save.model = "model" /\ save.optimizer = "optimizer"
          \/ save.model = "last_model" /\ save.optimizer = "last_optimizer"
        BY DEF Saving, SavingLast
    <2>3. /\ pc[0] = save.model /\ UNCHANGED <<conf, step, at, merged>>
          /\ pc' = [pc EXCEPT ![0] = save.optimizer]
        BY <2>1 DEF WriteModel, Goto, splitVars
    <2>4. ASSUME NEW zone \in Zones, NEW n \in Nat, NEW a \in Nat, Since(zone, n, a, 0)
          PROVE  Since(zone, n, a, 0)'
        <3>1. n + 1 \in Nat
            OBVIOUS
        <3>2. \/ zone = "model" /\ SinceModel(n, 0) /\ save.model = "model"
              \/ zone = "final" /\ SinceFinal(n, 0) /\ save.model = "last_model"
            BY <1>3, <2>2, <2>3, <2>4, <3>1 DEF Since, SinceStart, SinceForward, SinceReduce,
               SinceNorm, SinceState, SinceModel, SinceOptimizer, SinceStats, SinceEnter,
               SinceLeave, SinceFinal
        <3>3. pc'[0] = save.optimizer /\ step'[0] = step[0] /\ merged'[0] = merged[0]
            BY <1>1, <2>3 DEF LockTypes
        <3>4. CASE zone = "model"
            <4>1. SinceModel(n, 0)'
                BY <2>2, <3>2, <3>3, <3>4 DEF SinceModel
            <4> QED
                BY <3>4, <4>1 DEF Since
        <3>5. CASE zone = "final"
            <4>1. SinceFinal(n, 0)'
                BY <2>2, <3>2, <3>3, <3>5 DEF SinceFinal
            <4> QED
                BY <3>5, <4>1 DEF Since
        <3> QED
            BY <3>2, <3>4, <3>5
    <2> QED
        BY <2>3, <2>4, ZeroLock
<1>6. CASE WriteRest(Saving)
    <2>1. /\ pc[0] = "rest" /\ UNCHANGED <<conf, step, at, merged>>
          /\ pc' = [pc EXCEPT ![0] = Onward(2, step[0])]
        BY <1>6 DEF WriteRest, Goto, splitVars, Saved, Saving
    <2>2. ASSUME NEW zone \in Zones, NEW n \in Nat, NEW a \in Nat, Since(zone, n, a, 0)
          PROVE  Since(zone, n, a, 0)'
        <3>1. n + 1 \in Nat
            OBVIOUS
        <3>2. zone = "optimizer" /\ step[0] = n /\ ~merged[0]
            BY <1>3, <2>1, <2>2, <3>1 DEF Since, SinceStart, SinceForward, SinceReduce, SinceNorm,
               SinceState, SinceModel, SinceOptimizer, SinceStats, SinceEnter, SinceLeave,
               SinceFinal
        <3>3. After(2, n, 0)' /\ ~merged'[0]
            BY <1>1, <1>2, <2>1, <3>2 DEF After, LockTypes
        <3> QED
            BY <3>2, <3>3 DEF Since, SinceOptimizer
    <2> QED
        BY <2>1, <2>2, ZeroLock
<1>7. CASE WriteRest(SavingLast)
    <2>0. Saved(SavingLast, 0) = "returned"
        <3>1. Saving.start # SavingLast.start
            BY DEF Saving, SavingLast
        <3> QED
            BY <3>1 DEF Saved
    <2>1. /\ pc[0] = "last_rest" /\ UNCHANGED <<conf, step, at, merged>>
          /\ pc' = [pc EXCEPT ![0] = "returned"]
        BY <1>7, <2>0 DEF WriteRest, Goto, splitVars, SavingLast
    <2>2. ASSUME NEW zone \in Zones, NEW n \in Nat, NEW a \in Nat, Since(zone, n, a, 0)
          PROVE  Since(zone, n, a, 0)'
        <3>1. n + 1 \in Nat
            OBVIOUS
        <3>2. zone = "final" /\ SinceFinal(n, 0)
            BY <1>3, <2>1, <2>2, <3>1 DEF Since, SinceStart, SinceForward, SinceReduce, SinceNorm,
               SinceState, SinceModel, SinceOptimizer, SinceStats, SinceEnter, SinceLeave,
               SinceFinal
        <3>3. SinceFinal(n, 0)'
            BY <1>1, <2>1, <3>2 DEF SinceFinal, LockTypes
        <3> QED
            BY <3>2, <3>3 DEF Since
    <2> QED
        BY <2>1, <2>2, ZeroLock
<1>8. CASE Evaluate
    <2>1. /\ pc[0] = "evaluate" /\ UNCHANGED <<conf, step, at, merged>>
          /\ pc' = [pc EXCEPT ![0] = "leave"]
        BY <1>8 DEF Evaluate, Goto, splitVars
    <2>2. ASSUME NEW zone \in Zones, NEW n \in Nat, NEW a \in Nat, Since(zone, n, a, 0)
          PROVE  Since(zone, n, a, 0)'
        <3>1. n + 1 \in Nat
            OBVIOUS
        <3>2. zone = "enter" /\ SinceEnter(n, 0)
            BY <1>3, <2>1, <2>2, <3>1 DEF Since, SinceStart, SinceForward, SinceReduce, SinceNorm,
               SinceState, SinceModel, SinceOptimizer, SinceStats, SinceEnter, SinceLeave,
               SinceFinal
        <3>3. SinceEnter(n, 0)'
            BY <1>1, <2>1, <3>2 DEF SinceEnter, LockTypes
        <3> QED
            BY <3>2, <3>3 DEF Since
    <2> QED
        BY <2>1, <2>2, ZeroLock
<1> QED
    BY <1>4, <1>5, <1>6, <1>7, <1>8 DEF Primary

-----------------------------------------------------------------------------
(* The collective operations *)

(* All ranks leave a collective together, and are since it. *)
LEMMA TogetherLock ==
    ASSUME LockInv, UNCHANGED conf, LockTypes', NEW zone \in Zones, NEW n \in Nat, NEW a \in Nat,
           \A r \in Ranks : Since(zone, n, a, r)'
    PROVE  LockInv'
<1>1. Ranks' = Ranks
    BY DEF Ranks
<1> QED
    BY <1>1 DEF LockInv

(* The step all ranks are in when they meet, and their weights. *)
LEMMA MetIn ==
    ASSUME LockInv, NEW kind, AllAt(kind), kind \notin {"state", "publish"}
    PROVE  \E n \in Nat : \A r \in Ranks : step[r] = n /\ ~merged[r]
<1>1. PICK n \in Nat : \A r \in Ranks : step[r] = n
    BY Meet
<1>2. \A r \in Ranks : ~merged[r]
    BY Meet
<1> QED
    BY <1>1, <1>2

(* A collective that leaves the step and the weights as they are. *)
LEMMA PlainLock ==
    ASSUME LockInv, NEW kind, AllAt(kind), kind \notin {"state", "publish"},
           UNCHANGED <<conf, step, at, merged>>, pc' = [r \in Ranks |-> pc'[r]],
           NEW zone \in Zones,
           \A n \in Nat, r \in Ranks : step'[r] = n /\ ~merged'[r] => Since(zone, n, 0, r)'
    PROVE  LockInv'
<1>1. LockTypes /\ Ranks' = Ranks
    BY DEF LockInv, Ranks
<1>2. LockTypes'
    BY <1>1 DEF LockTypes
<1>3. PICK n \in Nat : \A r \in Ranks : step[r] = n /\ ~merged[r]
    BY MetIn
<1>4. \A r \in Ranks : Since(zone, n, 0, r)'
    BY <1>3
<1> QED
    BY <1>2, <1>4, TogetherLock

(* Whatever the ranks do together. *)
LEMMA CollectiveLock == ASSUME LockInv, Collective PROVE LockInv'
<1>1. LockTypes /\ 0 \in Ranks
    BY RankZero DEF LockInv, LockTypes
<1>2. Ranks' = Ranks /\ UNCHANGED <<conf, step, at>>
    BY DEF Collective, Forward, ReduceGradients, ReduceNorm, GatherState, GatherModel,
       GatherOptimizer, ReduceStats, EnterEval, LeaveEval, splitVars, Ranks
<1>3. \A k, m : Onward(k, m)' = Onward(k, m)
    BY <1>2 DEF Onward, Due
<1>4. CASE Forward
    <2>1. AllAt("forward") /\ pc' = [r \in Ranks |-> "backward"] /\ merged' = merged
        BY <1>4 DEF Forward
    <2>2. PICK n \in Nat : \A r \in Ranks : step[r] = n /\ ~merged[r]
        BY <2>1, MetIn
    <2>3. PICK a \in Nat : \A r \in Ranks : at[r] = a
        BY <2>1, Meet
    <2>4. LockTypes'
        BY <1>1, <1>2, <2>1 DEF LockTypes
    <2>5. \A r \in Ranks : Since("forward", n, a, r)'
        BY <1>2, <2>1, <2>2, <2>3 DEF Since, SinceForward
    <2> QED
        BY <1>2, <2>4, <2>5, TogetherLock DEF Zones
<1>5. CASE ReduceGradients
    <2>1. AllAt("reduce") /\ pc' = [r \in Ranks |-> "norm"] /\ merged' = merged
        BY <1>5 DEF ReduceGradients
    <2>2. \A n \in Nat, r \in Ranks : step'[r] = n /\ ~merged'[r] => Since("reduce", n, 0, r)'
        BY <2>1 DEF Since, SinceReduce
    <2> QED
        BY <1>2, <2>1, <2>2, PlainLock DEF Zones
<1>6. CASE ReduceNorm
    <2>1. AllAt("norm") /\ pc' = [r \in Ranks |-> "update"] /\ merged' = merged
        BY <1>6 DEF ReduceNorm
    <2>2. \A n \in Nat, r \in Ranks : step'[r] = n /\ ~merged'[r] => Since("norm", n, 0, r)'
        BY <2>1 DEF Since, SinceNorm
    <2> QED
        BY <1>2, <2>1, <2>2, PlainLock DEF Zones
<1>7. CASE GatherState
    <2>1. /\ AllAt("state")
          /\ pc' = [r \in Ranks |-> IF r = 0 THEN "publish" ELSE Onward(1, step[r])]
          /\ merged' = [r \in Ranks |-> r = 0 /\ merged[r]]
        BY <1>7 DEF GatherState
    <2>2. PICK n \in Nat : \A r \in Ranks : step[r] = n
        BY <2>1, Meet
    <2>3. merged[0] <=> conf.peft
        BY <1>1, <2>1, Meet
    <2>4. LockTypes'
        BY <1>1, <1>2, <2>1 DEF LockTypes
    <2>5. ASSUME NEW r \in Ranks PROVE SinceState(n, r)'
        <3>1. CASE r = 0
            BY <1>1, <1>2, <2>1, <2>2, <2>3, <3>1 DEF SinceState
        <3>2. CASE r # 0
            <4>1. After(1, n, r)'
                BY <1>2, <1>3, <2>1, <2>2, <3>2 DEF After
            <4>2. ~merged'[r]
                BY <2>1, <3>2
            <4> QED
                BY <4>1, <4>2 DEF SinceState
        <3> QED
            BY <3>1, <3>2
    <2>6. \A r \in Ranks : Since("state", n, 0, r)'
        BY <2>5 DEF Since
    <2> QED
        BY <1>2, <2>4, <2>6, TogetherLock DEF Zones
<1>8. CASE GatherModel(Saving)
    <2>1. /\ AllAt("save") /\ merged' = merged
          /\ pc' = [r \in Ranks |-> IF r = 0 THEN "model" ELSE "optimizer"]
        BY <1>8 DEF GatherModel, Saving
    <2>2. \A n \in Nat, r \in Ranks : step'[r] = n /\ ~merged'[r] => Since("model", n, 0, r)'
        BY <2>1 DEF Since, SinceModel
    <2> QED
        BY <1>2, <2>1, <2>2, PlainLock DEF Zones
<1>9. CASE GatherModel(SavingLast)
    <2>1. /\ AllAt("final") /\ merged' = merged
          /\ pc' = [r \in Ranks |-> IF r = 0 THEN "last_model" ELSE "last_optimizer"]
        BY <1>9 DEF GatherModel, SavingLast
    <2>2. \A n \in Nat, r \in Ranks : step'[r] = n /\ ~merged'[r] => Since("final", n, 0, r)'
        BY <2>1 DEF Since, SinceFinal
    <2> QED
        BY <1>2, <2>1, <2>2, PlainLock DEF Zones
<1>10. CASE GatherOptimizer(Saving)
    <2>1. /\ AllAt("optimizer") /\ merged' = merged
          /\ pc' = [r \in Ranks |-> IF r = 0 THEN "rest" ELSE Onward(2, step[r])]
        BY <1>10 DEF GatherOptimizer, Saving, Saved
    <2>2. \A n \in Nat, r \in Ranks : step'[r] = n /\ ~merged'[r] => Since("optimizer", n, 0, r)'
        BY <1>2, <1>3, <2>1 DEF Since, SinceOptimizer, After
    <2> QED
        BY <1>2, <2>1, <2>2, PlainLock DEF Zones
<1>11. CASE GatherOptimizer(SavingLast)
    <2>1. Saving.start # SavingLast.start
        BY DEF Saving, SavingLast
    <2>2. /\ AllAt("last_optimizer") /\ merged' = merged
          /\ pc' = [r \in Ranks |-> IF r = 0 THEN "last_rest" ELSE "returned"]
        BY <1>11, <2>1 DEF GatherOptimizer, SavingLast, Saved
    <2>3. \A n \in Nat, r \in Ranks : step'[r] = n /\ ~merged'[r] => Since("final", n, 0, r)'
        BY <2>2 DEF Since, SinceFinal
    <2> QED
        BY <1>2, <2>2, <2>3, PlainLock DEF Zones
<1>12. CASE ReduceStats
    <2>1. /\ AllAt("stats") /\ merged' = merged
          /\ pc' = [r \in Ranks |-> Onward(3, step[r])]
        BY <1>12 DEF ReduceStats
    <2>2. \A n \in Nat, r \in Ranks : step'[r] = n /\ ~merged'[r] => Since("stats", n, 0, r)'
        BY <1>2, <1>3, <2>1 DEF Since, SinceStats, After
    <2> QED
        BY <1>2, <2>1, <2>2, PlainLock DEF Zones
<1>13. CASE EnterEval
    <2>1. /\ AllAt("eval") /\ merged' = merged
          /\ pc' = [r \in Ranks |-> IF r = 0 THEN "evaluate" ELSE "leave"]
        BY <1>13 DEF EnterEval
    <2>2. \A n \in Nat, r \in Ranks : step'[r] = n /\ ~merged'[r] => Since("enter", n, 0, r)'
        BY <2>1 DEF Since, SinceEnter
    <2> QED
        BY <1>2, <2>1, <2>2, PlainLock DEF Zones
<1>14. CASE LeaveEval
    <2>1. /\ AllAt("leave") /\ merged' = merged
          /\ pc' = [r \in Ranks |-> Onward(4, step[r])]
        BY <1>14 DEF LeaveEval
    <2>2. \A n \in Nat, r \in Ranks : step'[r] = n /\ ~merged'[r] => Since("leave", n, 0, r)'
        BY <1>2, <1>3, <2>1 DEF Since, SinceLeave, After
    <2> QED
        BY <1>2, <2>1, <2>2, PlainLock DEF Zones
<1> QED
    BY <1>4, <1>5, <1>6, <1>7, <1>8, <1>9, <1>10, <1>11, <1>12, <1>13, <1>14 DEF Collective

(* Every step keeps the ranks since some collective. *)
LEMMA LockNext == LockInv /\ [Next]_vars => LockInv'
<1> SUFFICES ASSUME LockInv, [Next]_vars PROVE LockInv'
    OBVIOUS
<1>1. ASSUME UNCHANGED vars PROVE LockInv'
    <2>1. UNCHANGED <<conf, pc, step, at, merged>> /\ Ranks' = Ranks
        BY <1>1 DEF vars, splitVars, Ranks
    <2>2. \A k, m : Onward(k, m)' = Onward(k, m)
        BY DEF Onward, Due
    <2>3. \A k, m, r : After(k, m, r) => After(k, m, r)'
        BY <2>1, <2>2 DEF After, Begun
    <2>4. LockTypes'
        BY <2>1 DEF LockInv, LockTypes
    <2>5. \A zone, n, a, r : Since(zone, n, a, r) => Since(zone, n, a, r)'
        BY <2>1, <2>3 DEF Since, SinceStart, SinceForward, SinceReduce, SinceNorm, SinceState,
           SinceModel, SinceOptimizer, SinceStats, SinceEnter, SinceLeave, SinceFinal, Due
    <2> QED
        BY <2>1, <2>4, <2>5 DEF LockInv
<1> QED
    BY <1>1, PrimaryLock, CollectiveLock, AloneLock DEF Next

(* The ranks are always since some collective. *)
LEMMA LockStep == Spec => []LockInv
BY LockInit, LockNext, PTL DEF Spec

(* Ranks that meet in a collective operation of the trainer have taken the   *)
(* same steps, are at the same micro-batch and have merged their adapters,   *)
(* or not, alike: for any number of ranks, even when their numbers of        *)
(* micro-batches are such that not all of them get there.                    *)
THEOREM LockstepKept == Spec => []Lockstep
BY LockStep, LockImplies, PTL

-----------------------------------------------------------------------------
(* The versions the ranks sample from *)

(* Between a fetch that gave a batch and the end of the step. *)
Holding == {"split", "place", "collate", "forward", "backward", "reduce", "norm", "update"}

(* What the runtime serves, by where rank 0 is: the latest version that is   *)
(* due, or, on the way to its publish, the one before.                       *)
ServedInv ==
    IF pc[0] \in {"state", "publish"}
    THEN Due("state", step[0]) /\ served = LatestSync(step[0]) - SyncEvery
    ELSE served = LatestSync(step[0])

SampledOk(r) ==
    pc[r] \in Holding =>
        \/ sampled[r] = LatestSync(step[r])
        \/ r # 0 /\ sampled[r] = LatestSync(step[r]) - SyncEvery

SampledInv == sampled = [r \in Ranks |-> sampled[r]] /\ \A r \in Ranks : SampledOk(r)

(* After a step the latest version that is due is the one of that step, or   *)
(* it is what it was.                                                        *)
LEMMA NextSync ==
    ASSUME NEW n \in Nat
    PROVE  /\ Due("state", n) => LatestSync(n) = n
           /\ Due("state", n + 1) => LatestSync(n + 1) - SyncEvery = LatestSync(n)
           /\ ~Due("state", n + 1) => LatestSync(n + 1) = LatestSync(n)
<1>1. SyncEvery \in Nat
    BY TrainerAssumption
<1>2. CASE SyncEvery = 0
    BY <1>2 DEF Due, LatestSync
<1>3. CASE SyncEvery > 0
    <2> DEFINE q == n \div SyncEvery
               p == (n + 1) \div SyncEvery
    <2>1. /\ q \in Nat /\ n % SyncEvery \in 0 .. SyncEvery - 1
          /\ n = SyncEvery * q + (n % SyncEvery)
        BY <1>1, <1>3
    <2>2. /\ p \in Nat /\ (n + 1) % SyncEvery \in 0 .. SyncEvery - 1
          /\ n + 1 = SyncEvery * p + ((n + 1) % SyncEvery)
        BY <1>1, <1>3
    <2>3. Due("state", n) => LatestSync(n) = n
        BY <1>1, <1>3, <2>1 DEF Due, LatestSync
    <2>4. (n + 1) % SyncEvery = 0 => p = q + 1
        BY <1>1, <1>3, <2>1, <2>2
    <2>5. (n + 1) % SyncEvery # 0 => p = q
        BY <1>1, <1>3, <2>1, <2>2
    <2> QED
        BY <1>1, <1>3, <2>3, <2>4, <2>5 DEF Due, LatestSync
<1> QED
    BY <1>1, <1>2, <1>3

(* A rank that fetches has taken as many steps as rank 0, or one more after  *)
(* which nothing was to be published.                                        *)
LEMMA FetchStep ==
    ASSUME LockInv, NEW r \in Ranks, pc[r] = "fetch"
    PROVE  \/ step[0] = step[r]
           \/ /\ step[r] = step[0] + 1 /\ ~Due("state", step[r])
              /\ pc[0] = "update"
<1>1. PICK zone \in Zones, n \in Nat, a \in Nat : \A q \in Ranks : Since(zone, n, a, q)
    BY DEF LockInv
<1>2. 0 \in Ranks /\ n + 1 \in Nat
    BY RankZero DEF LockInv, LockTypes
<1>3. Since(zone, n, a, 0) /\ Since(zone, n, a, r)
    BY <1>1, <1>2
<1>4. CASE zone = "norm"
    <2>1. After(0, n + 1, r)
        BY <1>3, <1>4 DEF Since, SinceNorm
    <2>2. step[r] = n + 1 /\ ~Due("state", n + 1)
        BY <1>2, <2>1, OnwardPlaces DEF After, Begun
    <2>3. (step[0] = n /\ pc[0] = "update") \/ step[0] = n + 1
        BY <1>3, <1>4 DEF Since, SinceNorm, After
    <2> QED
        BY <2>2, <2>3
<1>5. CASE zone # "norm"
    BY <1>3, <1>5 DEF Since, SinceStart, SinceForward, SinceReduce, SinceState, SinceModel,
       SinceOptimizer, SinceStats, SinceEnter, SinceLeave, SinceFinal, After
<1> QED
    BY <1>4, <1>5

(* The first version is served, and nothing was sampled. *)
LEMMA SyncInit == Init => ServedInv /\ SampledInv
<1> SUFFICES ASSUME Init PROVE ServedInv /\ SampledInv
    OBVIOUS
<1>1. /\ pc = [r \in Ranks |-> IF EvalAtStart THEN "eval" ELSE Onward(4, 0)]
      /\ conf \in Confs /\ served = 0 /\ step = [r \in Ranks |-> 0]
      /\ sampled = [r \in Ranks |-> 0]
    BY DEF Init
<1>2. Onward(4, 0) \in {"save", "stats", "eval", "fetch", "final"}
    BY OnwardPlaces
<1>3. 0 \in Ranks
    BY <1>1, RankZero
<1>4. LatestSync(0) = 0
    BY TrainerAssumption DEF LatestSync
<1> QED
    BY <1>1, <1>2, <1>3, <1>4 DEF ServedInv, SampledInv, SampledOk, Holding

(* What the runtime serves follows rank 0. *)
LEMMA ServedNext ==
    ASSUME LockInv, ServedInv, Next
    PROVE  ServedInv'
<1>1. LockTypes /\ 0 \in Ranks /\ step[0] \in Nat
    BY RankZero DEF LockInv, LockTypes
<1>2. \A m : Due("state", m)' <=> Due("state", m)
    BY DEF Due
<1>3. \A k \in 1 .. 4 : Onward(k, step[0]) \notin {"state", "publish"}
    BY <1>1, OnwardPlaces
<1>4. ASSUME served' = served, pc'[0] = pc[0], step'[0] = step[0] PROVE ServedInv'
    BY <1>2, <1>4 DEF ServedInv
<1>5. ASSUME served' = served, step'[0] = step[0],
             pc[0] \notin {"state", "publish"}, pc'[0] \notin {"state", "publish"}
      PROVE  ServedInv'
    BY <1>5 DEF ServedInv
<1>6. ASSUME NEW r \in Ranks, Update(r) PROVE ServedInv'
    <2>1. /\ pc[r] = "update" /\ served' = served
          /\ pc' = [pc EXCEPT ![r] = Onward(0, step[r] + 1)]
          /\ step' = [step EXCEPT ![r] = @ + 1]
        BY <1>6 DEF Update, Goto
    <2>2. CASE r # 0
        BY <1>1, <1>4, <2>1, <2>2 DEF LockTypes
    <2>3. CASE r = 0
        <3>1. pc'[0] = Onward(0, step[0] + 1) /\ step'[0] = step[0] + 1
            BY <1>1, <2>1, <2>3 DEF LockTypes
        <3>2. served' = LatestSync(step[0])
            BY <2>1, <2>3 DEF ServedInv
        <3>3. pc'[0] # "publish" /\ (pc'[0] = "state" <=> Due("state", step[0] + 1))
            BY <1>1, <3>1, OnwardPlaces
        <3> QED
            BY <1>1, <1>2, <3>1, <3>2, <3>3, NextSync DEF ServedInv
    <2> QED
        BY <2>2, <2>3
<1>7. ASSUME NEW r \in Ranks, Alone(r), ~Update(r) PROVE ServedInv'
    <2>1. /\ served' = served /\ step' = step /\ pc[r] \notin {"state", "publish"}
          /\ \E place \in {"fetch", "raised", "final", "split", "place", "collate", "forward",
                           "reduce"} : pc' = [pc EXCEPT ![r] = place]
        <3>1. CASE OpenEpoch(r) \/ RunOut(r) \/ Fetch(r)
            BY <3>1 DEF OpenEpoch, RunOut, Fetch, Goto
        <3>2. CASE SortBatch(r) \/ CloseSplit(r)
            BY <3>2 DEF SortBatch, CloseSplit, Goto
        <3>3. CASE PlaceItem(r)
            BY <1>1, <3>3 DEF PlaceItem, LockTypes
        <3>4. CASE CollateChunk(r)
            BY <3>4 DEF CollateChunk, Goto
        <3>5. CASE Backward(r)
            BY <3>5 DEF Backward, Goto
        <3> QED
            BY <1>7, <3>1, <3>2, <3>3, <3>4, <3>5 DEF Alone
    <2>2. PICK place \in {"fetch", "raised", "final", "split", "place", "collate", "forward",
                          "reduce"} : pc' = [pc EXCEPT ![r] = place]
        BY <2>1
    <2>3. pc'[0] = IF r = 0 THEN place ELSE pc[0]
        BY <1>1, <2>2 DEF LockTypes
    <2> QED
        BY <1>4, <1>5, <2>1, <2>2, <2>3
<1>8. CASE Publish
    <2>1. /\ pc[0] = "publish" /\ served' = step[0] /\ step' = step
          /\ pc' = [pc EXCEPT ![0] = Onward(1, step[0])]
        BY <1>8 DEF Publish, Goto
    <2>2. pc'[0] \notin {"state", "publish"}
        BY <1>1, <1>3, <2>1 DEF LockTypes
    <2>3. LatestSync(step[0]) = step[0]
        BY <1>1, <2>1, NextSync DEF ServedInv
    <2> QED
        BY <2>1, <2>2, <2>3 DEF ServedInv
<1>9. CASE Evaluate \/ \E save \in {Saving, SavingLast} : WriteModel(save) \/ WriteRest(save)
    <2>1. /\ served' = served /\ step' = step /\ pc[0] \notin {"state", "publish"}
          /\ pc'[0] \notin {"state", "publish"}
        BY <1>1, <1>3, <1>9 DEF Evaluate, WriteModel, WriteRest, Saved, Saving, SavingLast, Goto,
           LockTypes
    <2> QED
        BY <1>5, <2>1
<1>10. CASE GatherState
    <2>1. pc[0] = "state" /\ pc'[0] = "publish" /\ served' = served /\ step' = step
        BY <1>1, <1>10 DEF GatherState, AllAt
    <2> QED
        BY <1>2, <2>1 DEF ServedInv
<1>11. CASE Collective /\ ~GatherState
    <2>1. served' = served /\ step' = step
        BY <1>11 DEF Collective, Forward, ReduceGradients, ReduceNorm, GatherModel,
           GatherOptimizer, ReduceStats, EnterEval, LeaveEval
    <2>2. CASE Forward \/ ReduceGradients \/ ReduceNorm \/ EnterEval
        BY <1>1, <1>5, <2>1, <2>2 DEF Forward, ReduceGradients, ReduceNorm, EnterEval, AllAt
    <2>3. CASE ReduceStats \/ LeaveEval
        BY <1>1, <1>3, <1>5, <2>1, <2>3 DEF ReduceStats, LeaveEval, AllAt
    <2>4. ASSUME NEW save \in {Saving, SavingLast}, GatherModel(save) PROVE ServedInv'
        BY <1>1, <1>5, <2>1, <2>4 DEF GatherModel, Saving, SavingLast, AllAt
    <2>5. ASSUME NEW save \in {Saving, SavingLast}, GatherOptimizer(save) PROVE ServedInv'
        BY <1>1, <1>5, <2>1, <2>5 DEF GatherOptimizer, Saving, SavingLast, AllAt
    <2> QED
        BY <1>11, <2>2, <2>3, <2>4, <2>5 DEF Collective
<1> QED
    BY <1>6, <1>7, <1>8, <1>9, <1>10, <1>11 DEF Next, Primary

(* What the ranks sample with follows what the runtime serves. *)
LEMMA SampledNext ==
    ASSUME LockInv, ServedInv, SampledInv, Next
    PROVE  SampledInv'
<1>1. LockTypes /\ 0 \in Ranks /\ Ranks' = Ranks
    <2>1. UNCHANGED conf
        BY DEF Next, Alone, Primary, Collective, OpenEpoch, RunOut, Fetch, SortBatch, PlaceItem,
           CloseSplit, CollateChunk, Backward, Update, Publish, WriteModel, WriteRest, Evaluate,
           Forward, ReduceGradients, ReduceNorm, GatherState, GatherModel, GatherOptimizer,
           ReduceStats, EnterEval, LeaveEval
    <2> QED
        BY <2>1, RankZero DEF LockInv, LockTypes, Ranks
<1>2. ASSUME NEW r \in Ranks, sampled'[r] = sampled[r], step'[r] = step[r],
             pc'[r] \in Holding => pc[r] \in Holding
      PROVE  SampledOk(r)'
    BY <1>2 DEF SampledInv, SampledOk
<1>3. \A k \in 0 .. 4, n \in Nat : Onward(k, n) \notin Holding
    BY OnwardPlaces DEF Holding
<1>4. ASSUME NEW r \in Ranks, Fetch(r) PROVE SampledInv'
    <2>1. /\ pc[r] = "fetch" /\ step' = step
          /\ sampled' = [sampled EXCEPT ![r] = served]
          /\ \E place \in {"fetch", "split", "raised"} : pc' = [pc EXCEPT ![r] = place]
        BY <1>4 DEF Fetch, Goto
    <2>2. ASSUME NEW q \in Ranks \ {r} PROVE SampledOk(q)'
        BY <1>1, <1>2, <2>1 DEF LockTypes, SampledInv
    <2>3. SampledOk(r)'
        <3>1. sampled'[r] = served /\ step'[r] = step[r] /\ step[r] \in Nat /\ step[0] \in Nat
            BY <1>1, <2>1 DEF LockTypes, SampledInv
        <3>2. CASE r = 0
            BY <2>1, <3>1, <3>2 DEF ServedInv, SampledOk
        <3>3. CASE r # 0 /\ step[0] = step[r]
            BY <3>1, <3>3 DEF ServedInv, SampledOk
        <3>4. CASE r # 0 /\ step[0] # step[r]
            <4>1. step[r] = step[0] + 1 /\ ~Due("state", step[r]) /\ pc[0] = "update"
                BY <2>1, <3>4, FetchStep
            <4>2. served = LatestSync(step[0])
                BY <4>1 DEF ServedInv
            <4> QED
                BY <3>1, <4>1, <4>2, NextSync DEF SampledOk
        <3> QED
            BY <3>2, <3>3, <3>4
    <2> QED
        BY <1>1, <2>1, <2>2, <2>3 DEF SampledInv
<1>5. ASSUME NEW r \in Ranks, Alone(r), ~Fetch(r) PROVE SampledInv'
    <2>1. /\ sampled' = sampled /\ \E place : pc' = [pc EXCEPT ![r] = place]
          /\ \A q \in Ranks \ {r} : step'[q] = step[q]
          /\ pc'[r] \in Holding => pc[r] \in Holding /\ step'[r] = step[r]
        <3>1. CASE OpenEpoch(r) \/ RunOut(r)
            BY <1>1, <3>1 DEF OpenEpoch, RunOut, Goto, Holding, sourceVars, LockTypes
        <3>2. CASE SortBatch(r) \/ CloseSplit(r)
            BY <1>1, <3>2 DEF SortBatch, CloseSplit, Goto, Holding, sourceVars, LockTypes
        <3>3. CASE PlaceItem(r)
            BY <1>1, <3>3 DEF PlaceItem, Holding, sourceVars, LockTypes
        <3>4. CASE CollateChunk(r)
            BY <1>1, <3>4 DEF CollateChunk, Goto, Holding, sourceVars, LockTypes
        <3>5. CASE Backward(r)
            <4>1. /\ pc[r] = "backward" /\ sampled' = sampled /\ step' = step
                  /\ \E place : pc' = [pc EXCEPT ![r] = place]
                BY <3>5 DEF Backward, Goto, sourceVars
            <4> QED
                BY <4>1 DEF Holding
        <3>6. CASE Update(r)
            <4>1. /\ sampled' = sampled /\ step' = [step EXCEPT ![r] = @ + 1]
                  /\ pc' = [pc EXCEPT ![r] = Onward(0, step[r] + 1)]
                BY <3>6 DEF Update, Goto, sourceVars
            <4>2. step[r] + 1 \in Nat /\ pc'[r] = Onward(0, step[r] + 1)
                BY <1>1, <4>1 DEF LockTypes
            <4>3. pc'[r] \notin Holding
                BY <1>3, <4>2
            <4> QED
                BY <1>1, <4>1, <4>3 DEF LockTypes
        <3> QED
            BY <1>5, <3>1, <3>2, <3>3, <3>4, <3>5, <3>6 DEF Alone
    <2>2. ASSUME NEW q \in Ranks \ {r} PROVE SampledOk(q)'
        BY <1>1, <1>2, <2>1 DEF LockTypes
    <2>3. SampledOk(r)'
        BY <1>2, <2>1 DEF SampledOk
    <2> QED
        BY <1>1, <2>1, <2>2, <2>3 DEF SampledInv
<1>6. ASSUME sampled' = sampled, step' = step,
             \A r \in Ranks : pc'[r] \in Holding => pc[r] \in Holding
      PROVE  SampledInv'
    BY <1>1, <1>2, <1>6 DEF SampledInv
<1>7. CASE Primary
    <2>1. sampled' = sampled /\ step' = step
        BY <1>7 DEF Primary, Publish, WriteModel, WriteRest, Evaluate, sourceVars
    <2>2. \E place : place \notin Holding /\ pc' = [pc EXCEPT ![0] = place]
        <3>1. CASE Publish
            <4>1. pc' = [pc EXCEPT ![0] = Onward(1, step[0])] /\ Onward(1, step[0]) \notin Holding
                BY <1>1, <1>3, <3>1 DEF Publish, Goto, LockTypes
            <4> QED
                BY <4>1
        <3>2. ASSUME Evaluate \/ \E save \in {Saving, SavingLast} : WriteModel(save)
              PROVE  \E place : place \notin Holding /\ pc' = [pc EXCEPT ![0] = place]
            <4>1. \E place \in {"leave", "optimizer", "last_optimizer"} :
                     pc' = [pc EXCEPT ![0] = place]
                BY <3>2 DEF Evaluate, WriteModel, Saving, SavingLast, Goto
            <4>2. \A place \in {"leave", "optimizer", "last_optimizer"} : place \notin Holding
                BY DEF Holding
            <4> QED
                BY <4>1, <4>2
        <3>3. ASSUME NEW save \in {Saving, SavingLast}, WriteRest(save)
              PROVE  \E place : place \notin Holding /\ pc' = [pc EXCEPT ![0] = place]
            <4>1. pc' = [pc EXCEPT ![0] = Saved(save, 0)]
                BY <3>3 DEF WriteRest, Goto
            <4>2. Saved(save, 0) \notin Holding
                BY <1>1, <1>3 DEF Saved, Holding, LockTypes
            <4> QED
                BY <4>1, <4>2
        <3> QED
            BY <1>7, <3>1, <3>2, <3>3 DEF Primary
    <2> QED
        BY <1>1, <1>6, <2>1, <2>2 DEF LockTypes
<1>8. CASE Collective
    <2>1. sampled' = sampled /\ step' = step /\ \A r \in Ranks : step[r] \in Nat
        BY <1>1, <1>8 DEF Collective, Forward, ReduceGradients, ReduceNorm, GatherState,
           GatherModel, GatherOptimizer, ReduceStats, EnterEval, LeaveEval, sourceVars, LockTypes
    <2>2. CASE Forward \/ ReduceGradients \/ ReduceNorm
        BY <1>6, <2>1, <2>2 DEF Forward, ReduceGradients, ReduceNorm, AllAt, Holding
    <2>3. CASE GatherState \/ ReduceStats \/ LeaveEval
        BY <1>3, <1>6, <2>1, <2>3 DEF GatherState, ReduceStats, LeaveEval, Holding
    <2>4. CASE EnterEval
        BY <1>6, <2>1, <2>4 DEF EnterEval, Holding
    <2>5. ASSUME NEW save \in {Saving, SavingLast}, GatherModel(save) PROVE SampledInv'
        BY <1>6, <2>1, <2>5 DEF GatherModel, Saving, SavingLast, Holding
    <2>6. ASSUME NEW save \in {Saving, SavingLast}, GatherOptimizer(save) PROVE SampledInv'
        <3>1. /\ \A r \in Ranks : Saved(save, r) \notin Holding
              /\ save.rest \notin Holding
            BY <1>3, <2>1 DEF Saved, Saving, SavingLast, Holding
        <3> QED
            BY <1>6, <2>1, <2>6, <3>1 DEF GatherOptimizer
    <2> QED
        BY <1>8, <2>2, <2>3, <2>4, <2>5, <2>6 DEF Collective
<1> QED
    BY <1>4, <1>5, <1>7, <1>8 DEF Next

(* Both, for every step. *)
LEMMA SyncNext ==
    LockInv /\ ServedInv /\ SampledInv /\ [Next]_vars => ServedInv' /\ SampledInv'
<1>1. ASSUME ServedInv, SampledInv, UNCHANGED vars PROVE ServedInv' /\ SampledInv'
    <2>1. UNCHANGED <<conf, pc, step, served, sampled>> /\ Ranks' = Ranks
        BY <1>1 DEF vars, sourceVars, Ranks
    <2> QED
        BY <1>1, <2>1 DEF ServedInv, SampledInv, SampledOk, Due
<1> QED
    BY <1>1, ServedNext, SampledNext

(* Rank 0 trains on samples of the latest policy it has published; the other *)
(* ranks, which do not wait for the publish, on samples of that one or of    *)
(* the one before: for any number of ranks and any period.                   *)
THEOREM SyncKept == Spec => []AtMostOneSyncBehind
<1>1. SampledInv => AtMostOneSyncBehind
    BY DEF SampledInv, SampledOk, AtMostOneSyncBehind, Holding
<1> QED
    BY LockStep, SyncInit, SyncNext, <1>1, PTL DEF Spec

-----------------------------------------------------------------------------
(* Positions *)

(* A set of numbers up to n that is not empty has one whose predecessor is   *)
(* not in it.                                                                *)
LEMMA FirstOf ==
    ASSUME NEW n \in Nat, NEW S \in SUBSET (0 .. n), S # {}
    PROVE  \E m \in S : m - 1 \notin S
<1> DEFINE Bad == {0 .. m : m \in S}
<1>1. IsFiniteSet(0 .. n) /\ Bad \in SUBSET SUBSET (0 .. n) /\ Bad # {}
    <2>1. IsFiniteSet(0 .. n)
        BY FS_Interval
    <2>2. \A m \in S : 0 .. m \in SUBSET (0 .. n)
        OBVIOUS
    <2> QED
        BY <2>1, <2>2
<1>2. PICK T \in Bad : \A x \in T : T \ {x} \notin Bad
    <2> HIDE DEF Bad
    <2> QED
        BY <1>1, SmallestException
<1>3. PICK m \in S : T = 0 .. m
    OBVIOUS
<1>4. m \in T /\ T \ {m} = 0 .. m - 1
    BY <1>3
<1>5. 0 .. m - 1 \notin Bad
    BY <1>2, <1>4
<1> QED
    BY <1>5

(* Along a finite set of positions, UpTo counts from 1 to their number. *)
LEMMA UpToCounts ==
    ASSUME NEW S, S \subseteq Nat, IsFiniteSet(S)
    PROVE  /\ \A k \in S : UpTo(S, k) \in 1 .. Cardinality(S)
           /\ \A j, k \in S : j < k => UpTo(S, j) < UpTo(S, k)
<1> DEFINE low(k) == {j \in S : j <= k}
<1>1. \A k \in S : k \in low(k) /\ low(k) \in SUBSET S
    OBVIOUS
<1>2. \A k \in S : UpTo(S, k) = Cardinality(low(k))
    BY DEF UpTo
<1>3. ASSUME NEW j \in S, NEW k \in S, j < k
      PROVE  low(j) \in SUBSET low(k) /\ k \notin low(j) /\ k \in low(k)
    <2>1. \A i \in S : i \in Nat
        OBVIOUS
    <2>2. \A i \in S : i <= j => i <= k
        BY <1>3, <2>1
    <2>3. ~(k <= j) /\ k <= k
        BY <1>3, <2>1
    <2> QED
        BY <2>2, <2>3
<1> HIDE DEF low
<1>4. \A k \in S : IsFiniteSet(low(k)) /\ Cardinality(low(k)) \in Nat
    BY <1>1, FS_Subset, FS_CardinalityType
<1>5. ASSUME NEW k \in S PROVE UpTo(S, k) \in 1 .. Cardinality(S)
    <2>1. Cardinality(low(k)) <= Cardinality(S) /\ Cardinality(S) \in Nat
        BY <1>1, FS_Subset, FS_CardinalityType
    <2>2. Cardinality(low(k)) # 0
        BY <1>1, <1>4, FS_EmptySet
    <2> QED
        BY <1>2, <1>4, <2>1, <2>2
<1>6. ASSUME NEW j \in S, NEW k \in S, j < k PROVE UpTo(S, j) < UpTo(S, k)
    <2>1. Cardinality(low(j)) <= Cardinality(low(k)) /\ Cardinality(low(j)) # Cardinality(low(k))
        BY <1>3, <1>4, <1>6, FS_Subset
    <2> QED
        BY <1>2, <1>4, <2>1
<1> QED
    BY <1>5, <1>6

(* The n-th position is one, and its count is n. *)
LEMMA NthIs ==
    ASSUME NEW S, S \subseteq Nat, IsFiniteSet(S)
    PROVE  /\ \A n \in 1 .. Cardinality(S) : Nth(S, n) \in S /\ UpTo(S, Nth(S, n)) = n
           /\ \A k \in S : Nth(S, UpTo(S, k)) = k
<1> DEFINE N == Cardinality(S)
           f == [k \in S |-> UpTo(S, k)]
<1>1. N \in Nat /\ IsFiniteSet(1 .. N) /\ Cardinality(1 .. N) = N
    BY FS_CardinalityType, FS_Interval
<1>2. \A k \in S : UpTo(S, k) \in 1 .. N
    BY UpToCounts
<1>3. \A j, k \in S : UpTo(S, j) = UpTo(S, k) => j = k
    <2> SUFFICES ASSUME NEW j \in S, NEW k \in S, j # k PROVE UpTo(S, j) # UpTo(S, k)
        OBVIOUS
    <2>1. j < k \/ k < j
        OBVIOUS
    <2>2. UpTo(S, j) < UpTo(S, k) \/ UpTo(S, k) < UpTo(S, j)
        BY <2>1, UpToCounts
    <2> QED
        BY <1>2, <2>2
<1>4. f \in Injection(S, 1 .. N)
    BY <1>2, <1>3 DEF Injection, IsInjective
<1>5. f \in Surjection(S, 1 .. N)
    BY <1>1, <1>4, FS_Injection
<1>6. \A n \in 1 .. N : \E k \in S : UpTo(S, k) = n
    BY <1>5 DEF Surjection
<1>7. \A n \in 1 .. N : Nth(S, n) \in S /\ UpTo(S, Nth(S, n)) = n
    BY <1>6 DEF Nth
<1> QED
    BY <1>2, <1>3, <1>7

(* What is selected. *)
LEMMA Selected1 ==
    ASSUME NEW s, NEW S, S \subseteq Nat, IsFiniteSet(S), NEW T, \A k \in S : s[k] \in T
    PROVE  /\ Select(s, S) \in Seq(T) /\ Len(Select(s, S)) = Cardinality(S)
           /\ \A k \in S : /\ UpTo(S, k) \in 1 .. Cardinality(S)
                           /\ Select(s, S)[UpTo(S, k)] = s[k]
<1>1. Cardinality(S) \in Nat
    BY FS_CardinalityType
<1>2. Select(s, S) = [n \in 1 .. Cardinality(S) |-> s[Nth(S, n)]]
    BY DEF Select
<1>3. \A n \in 1 .. Cardinality(S) : s[Nth(S, n)] \in T
    BY NthIs
<1>4. Select(s, S) \in Seq(T) /\ Len(Select(s, S)) = Cardinality(S)
    BY <1>1, <1>2, <1>3
<1>5. \A k \in S : UpTo(S, k) \in 1 .. Cardinality(S) /\ Nth(S, UpTo(S, k)) = k
    BY NthIs, UpToCounts
<1> QED
    BY <1>2, <1>4, <1>5

(* The positions of a sequence. *)
LEMMA PositionsFinite ==
    ASSUME NEW T, NEW s \in Seq(T), NEW S, S \subseteq DOMAIN s
    PROVE  S \subseteq Nat /\ IsFiniteSet(S)
<1>1. DOMAIN s = 1 .. Len(s) /\ Len(s) \in Nat
    OBVIOUS
<1>2. IsFiniteSet(DOMAIN s)
    BY <1>1, FS_Interval
<1> QED
    BY <1>1, <1>2, FS_Subset

-----------------------------------------------------------------------------
(* Sequences of sequences, one after the other *)

(* F is the function by which FlattenSeq(q) is defined. *)
IsFlat(F, q) ==
    F = [i \in 1 .. Len(q) |-> IF i = 1 THEN q[i] ELSE F[i - 1] \o q[i]]

(* There is such a function.  The prover knows FlattenSeq by nothing else. *)
LEMMA FlatExists ==
    ASSUME NEW q, Len(q) \in Nat
    PROVE  \E F : IsFlat(F, q)
<1> DEFINE Makes(F, m) == F = [i \in 1 .. m |-> IF i = 1 THEN q[i] ELSE F[i - 1] \o q[i]]
           Bad == {m \in 0 .. Len(q) : ~ \E F : Makes(F, m)}
<1> SUFFICES ASSUME Bad # {} PROVE FALSE
    <2>1. Len(q) \in 0 .. Len(q)
        OBVIOUS
    <2> QED
        BY <2>1 DEF IsFlat
<1>1. PICK m \in Bad : m - 1 \notin Bad
    <2>1. Bad \in SUBSET (0 .. Len(q))
        OBVIOUS
    <2> HIDE DEF Bad
    <2> QED
        BY <2>1, FirstOf
<1>2. m \in 0 .. Len(q) /\ \A F : ~Makes(F, m)
    OBVIOUS
<1>3. CASE m = 0
    <2> DEFINE F == [i \in 1 .. 0 |-> 0]
    <2>1. Makes(F, m)
        BY <1>3
    <2> QED
        BY <1>2, <2>1
<1>4. CASE m # 0
    <2>1. m - 1 \in 0 .. Len(q) /\ m \in 1 .. m
        BY <1>2, <1>4
    <2>2. PICK F : Makes(F, m - 1)
        BY <1>1, <2>1
    <2> DEFINE G == [i \in 1 .. m |-> IF i = 1 THEN q[i] ELSE F[i - 1] \o q[i]]
    <2>3. ASSUME NEW i \in 1 .. m, i # 1 PROVE G[i - 1] = F[i - 1]
        <3>1. i - 1 \in 1 .. m - 1 /\ i - 1 \in 1 .. m
            BY <1>2, <2>3
        <3>2. G[i - 1] = IF i - 1 = 1 THEN q[i - 1] ELSE F[(i - 1) - 1] \o q[i - 1]
            BY <3>1
        <3>3. F[i - 1] = IF i - 1 = 1 THEN q[i - 1] ELSE F[(i - 1) - 1] \o q[i - 1]
            BY <2>2, <3>1
        <3> QED
            BY <3>2, <3>3
    <2>4. Makes(G, m)
        <3>1. \A i \in 1 .. m : G[i] = IF i = 1 THEN q[i] ELSE G[i - 1] \o q[i]
            <4>1. \A i \in 1 .. m : G[i] = IF i = 1 THEN q[i] ELSE F[i - 1] \o q[i]
                OBVIOUS
            <4> HIDE DEF G
            <4> QED
                BY <2>3, <4>1
        <3>2. G = [i \in 1 .. m |-> G[i]]
            OBVIOUS
        <3> HIDE DEF G
        <3> QED
            BY <3>1, <3>2
    <2> HIDE DEF G, Makes
    <2> QED
        BY <1>2, <2>4
<1> QED
    BY <1>3, <1>4

(* The first part, and then the other ones. *)
LEMMA FlatIs ==
    ASSUME NEW q, Len(q) \in Nat \ {0}
    PROVE  \E F : IsFlat(F, q) /\ FlattenSeq(q) = F[Len(q)]
<1> DEFINE F == CHOOSE f : IsFlat(f, q)
<1>1. IsFlat(F, q)
    BY FlatExists
<1>2. FlattenSeq(q) = F[Len(q)]
    BY DEF FlattenSeq, IsFlat
<1> HIDE DEF F
<1> QED
    BY <1>1, <1>2

(* What is in the parts, and no more, is in the whole. *)
LEMMA FlattenTyped ==
    ASSUME NEW T, NEW q \in Seq(Seq(T))
    PROVE  FlattenSeq(q) \in Seq(T)
<1>1. CASE q = <<>>
    BY <1>1 DEF FlattenSeq
<1>2. CASE q # <<>>
    <2> DEFINE n == Len(q)
    <2>1. n \in Nat \ {0} /\ \A i \in 1 .. n : q[i] \in Seq(T)
        BY <1>2
    <2>2. PICK F : IsFlat(F, q) /\ FlattenSeq(q) = F[n]
        BY <2>1, FlatIs
    <2>3. \A i \in 1 .. n : F[i] = IF i = 1 THEN q[i] ELSE F[i - 1] \o q[i]
        BY <2>2 DEF IsFlat
    <2> HIDE DEF n
    <2> DEFINE Bad == {i \in 1 .. n : F[i] \notin Seq(T)}
    <2>4. ASSUME Bad # {} PROVE FALSE
        <3>1. Bad \in SUBSET (0 .. n)
            BY <2>1
        <3>2. PICK i \in Bad : i - 1 \notin Bad
            <4> HIDE DEF Bad
            <4> QED
                BY <2>1, <2>4, <3>1, FirstOf
        <3>3. i \in 1 .. n /\ F[i] \notin Seq(T)
            OBVIOUS
        <3>4. i # 1 /\ F[i] = F[i - 1] \o q[i] /\ q[i] \in Seq(T)
            BY <2>1, <2>3, <3>3
        <3>5. i - 1 \in 1 .. n
            BY <2>1, <3>3, <3>4
        <3>6. F[i - 1] \in Seq(T)
            BY <3>2, <3>5
        <3> QED
            BY <3>3, <3>4, <3>6
    <2>5. n \in 1 .. n
        BY <2>1
    <2>6. F[n] \in Seq(T)
        BY <2>4, <2>5
    <2> QED
        BY <2>2, <2>6
<1> QED
    BY <1>1, <1>2

-----------------------------------------------------------------------------
(* The log-probs of an item *)

Acts(tokens) == {t \in DOMAIN tokens : tokens[t].action = 1}

(* The log-probs are those of the action tokens, in their order. *)
Aligned(tokens, logps) ==
    /\ logps \in Seq(Int) /\ Len(logps) = Cardinality(Acts(tokens))
    /\ \A t \in Acts(tokens) :
         /\ UpTo(Acts(tokens), t) \in 1 .. Len(logps)
         /\ logps[UpTo(Acts(tokens), t)] = tokens[t].sampled

(* The action tokens are among the tokens. *)
LEMMA ActsFinite ==
    ASSUME NEW tokens \in Seq(Token)
    PROVE  /\ Acts(tokens) \subseteq 1 .. Len(tokens) /\ Acts(tokens) \subseteq Nat
           /\ IsFiniteSet(Acts(tokens)) /\ Cardinality(Acts(tokens)) \in Nat
<1>1. Acts(tokens) \subseteq DOMAIN tokens
    BY DEF Acts
<1>2. Acts(tokens) \subseteq Nat /\ IsFiniteSet(Acts(tokens))
    BY <1>1, PositionsFinite
<1> QED
    BY <1>1, <1>2, FS_CardinalityType

(* Positions shifted behind others. *)
LEMMA ShiftedCount ==
    ASSUME NEW B, B \subseteq Nat, IsFiniteSet(B), NEW m \in Nat
    PROVE  /\ IsFiniteSet({m + t : t \in B})
           /\ Cardinality({m + t : t \in B}) = Cardinality(B)
<1> DEFINE C == {m + t : t \in B}
           f == [t \in B |-> m + t]
<1>1. f \in Bijection(B, C)
    <2>1. \A s, t \in B : m + s = m + t => s = t
        OBVIOUS
    <2> QED
        BY <2>1 DEF Bijection, Injection, IsInjective, Surjection
<1> HIDE DEF C, f
<1>2. ExistsBijection(B, C)
    BY <1>1 DEF ExistsBijection
<1>3. IsFiniteSet(C) /\ Cardinality(C) = Cardinality(B)
    BY <1>2, FS_Bijection
<1> QED
    BY <1>3 DEF C

(* As many of the one as of the other, one behind the other. *)
LEMMA JoinedCount ==
    ASSUME NEW A, A \subseteq Nat, IsFiniteSet(A), NEW B, B \subseteq Nat, IsFiniteSet(B),
           NEW m \in Nat, \A a \in A : a <= m, \A b \in B : b > 0
    PROVE  Cardinality(A \union {m + t : t \in B}) = Cardinality(A) + Cardinality(B)
<1> DEFINE C == {m + t : t \in B}
<1>1. IsFiniteSet(C) /\ Cardinality(C) = Cardinality(B)
    BY ShiftedCount
<1>2. A \cap C = {}
    OBVIOUS
<1> HIDE DEF C
<1>3. Cardinality(A \union C) = Cardinality(A) + Cardinality(C) - Cardinality(A \cap C)
    BY <1>1, FS_Union
<1>4. Cardinality(A) \in Nat /\ Cardinality(C) \in Nat
    BY <1>1, FS_CardinalityType
<1> QED
    BY <1>1, <1>2, <1>3, <1>4, FS_EmptySet DEF C

(* One turn behind another: the action tokens of the second come after all   *)
(* of the first, and so do their log-probs.                                  *)
LEMMA AlignedConcat ==
    ASSUME NEW u \in Seq(Token), NEW v \in Seq(Token), NEW a, NEW b, Aligned(u, a), Aligned(v, b)
    PROVE  Aligned(u \o v, a \o b)
<1> DEFINE m == Len(u)
           A == Acts(u)
           B == Acts(v)
           U == Acts(u \o v)
<1>1. m \in Nat /\ Len(v) \in Nat /\ Len(u \o v) = m + Len(v) /\ DOMAIN (u \o v) = 1 .. m + Len(v)
    OBVIOUS
<1>2. /\ A \subseteq Nat /\ IsFiniteSet(A) /\ Cardinality(A) \in Nat /\ \A t \in A : t \in 1 .. m
      /\ B \subseteq Nat /\ IsFiniteSet(B) /\ Cardinality(B) \in Nat /\ \A t \in B : t \in 1 .. Len(v)
    BY ActsFinite
<1>3. /\ \A t \in 1 .. m : (u \o v)[t] = u[t]
      /\ \A t \in 1 .. Len(v) : (u \o v)[m + t] = v[t]
    OBVIOUS
<1>4. U = A \union {m + t : t \in B}
    <2>1. ASSUME NEW t \in 1 .. m + Len(v), ~(t \in 1 .. m)
          PROVE  \E w \in 1 .. Len(v) : t = m + w
        <3>1. t - m \in 1 .. Len(v) /\ t = m + (t - m)
            BY <1>1, <2>1
        <3> QED
            BY <3>1
    <2>2. \A t \in 1 .. m : t \in 1 .. m + Len(v) /\ t \in DOMAIN u
        BY <1>1
    <2>3. \A w \in 1 .. Len(v) : m + w \in 1 .. m + Len(v) /\ w \in DOMAIN v
        BY <1>1
    <2>4. \A t \in 1 .. m : t \in U <=> t \in A
        BY <1>1, <1>3, <2>2 DEF Acts
    <2>5. \A w \in 1 .. Len(v) : m + w \in U <=> w \in B
        BY <1>1, <1>3, <2>3 DEF Acts
    <2>6. U \subseteq 1 .. m + Len(v)
        BY <1>1 DEF Acts
    <2> HIDE DEF A, B, U, m
    <2>7. \A t \in U : t \in A \/ \E w \in B : t = m + w
        BY <2>1, <2>4, <2>5, <2>6
    <2>8. A \subseteq U /\ \A w \in B : m + w \in U
        BY <1>2, <2>4, <2>5
    <2> QED
        BY <2>7, <2>8
<1>5. /\ a \in Seq(Int) /\ Len(a) = Cardinality(A)
      /\ b \in Seq(Int) /\ Len(b) = Cardinality(B)
      /\ \A t \in A : UpTo(A, t) \in 1 .. Len(a) /\ a[UpTo(A, t)] = u[t].sampled
      /\ \A t \in B : UpTo(B, t) \in 1 .. Len(b) /\ b[UpTo(B, t)] = v[t].sampled
    BY DEF Aligned
<1> HIDE DEF A, B, U
<1>6. Cardinality(U) = Cardinality(A) + Cardinality(B)
    <2>1. \A t \in A : t <= m
        BY <1>2
    <2>2. \A t \in B : t > 0
        BY <1>2
    <2> HIDE DEF m
    <2> QED
        BY <1>1, <1>2, <1>4, <2>1, <2>2, JoinedCount
<1>7. ASSUME NEW t \in A PROVE UpTo(U, t) = UpTo(A, t)
    <2>1. {j \in U : j <= t} = {j \in A : j <= t}
        BY <1>1, <1>2, <1>4, <1>7
    <2> QED
        BY <2>1 DEF UpTo
<1>8. ASSUME NEW w \in B PROVE UpTo(U, m + w) = Cardinality(A) + UpTo(B, w)
    <2> DEFINE D == {j \in B : j <= w}
    <2>1. {j \in U : j <= m + w} = A \union {m + j : j \in D}
        <3>1. \A j \in A : j <= m + w
            BY <1>1, <1>2, <1>8
        <3>2. \A j \in B : m + j <= m + w <=> j <= w
            BY <1>1, <1>2, <1>8
        <3> QED
            BY <1>4, <3>1, <3>2
    <2>2. D \subseteq Nat /\ IsFiniteSet(D) /\ \A j \in D : j > 0
        <3>1. D \in SUBSET B
            OBVIOUS
        <3>2. IsFiniteSet(D)
            BY <1>2, <3>1, FS_Subset
        <3> HIDE DEF D
        <3> QED
            BY <1>2, <3>1, <3>2
    <2>3. \A j \in A : j <= m
        BY <1>2
    <2> HIDE DEF D, m
    <2>4. Cardinality(A \union {m + j : j \in D}) = Cardinality(A) + Cardinality(D)
        BY <1>1, <1>2, <2>2, <2>3, JoinedCount
    <2> QED
        BY <2>1, <2>4 DEF UpTo, D
<1>9. a \o b \in Seq(Int) /\ Len(a \o b) = Cardinality(U)
    <2>1. a \in Seq(Int) /\ b \in Seq(Int)
        BY <1>5
    <2>2. a \o b \in Seq(Int)
        BY <2>1
    <2>3. Len(a \o b) = Len(a) + Len(b)
        BY <2>1
    <2> QED
        BY <1>5, <1>6, <2>2, <2>3
<1>10. ASSUME NEW t \in U
       PROVE  /\ UpTo(U, t) \in 1 .. Len(a \o b)
              /\ (a \o b)[UpTo(U, t)] = (u \o v)[t].sampled
    <2>1. CASE t \in A
        <3>1. UpTo(U, t) \in 1 .. Len(a) /\ a[UpTo(U, t)] = u[t].sampled
            BY <1>5, <1>7, <2>1
        <3>2. (u \o v)[t] = u[t]
            BY <1>2, <1>3, <2>1
        <3> HIDE DEF m
        <3> QED
            BY <1>5, <3>1, <3>2
    <2>2. CASE t \notin A
        <3>1. PICK w \in B : t = m + w
            BY <1>4, <2>2
        <3>2. UpTo(B, w) \in 1 .. Len(b) /\ b[UpTo(B, w)] = v[w].sampled
            BY <1>5
        <3>3. UpTo(U, t) = Len(a) + UpTo(B, w)
            BY <1>5, <1>8, <3>1
        <3>4. (u \o v)[t] = v[w]
            BY <1>2, <1>3, <3>1
        <3>5. (a \o b)[Len(a) + UpTo(B, w)] = b[UpTo(B, w)]
            BY <1>5, <3>2
        <3>6. Len(a) + UpTo(B, w) \in 1 .. Len(a \o b)
            BY <1>5, <3>2
        <3> QED
            BY <3>2, <3>3, <3>4, <3>5, <3>6
    <2> QED
        BY <2>1, <2>2
<1> QED
    BY <1>9, <1>10 DEF Aligned, U

(* Nothing is aligned with nothing. *)
LEMMA AlignedEmpty == Aligned(<<>>, <<>>)
<1>1. Acts(<<>>) = {}
    BY DEF Acts
<1> QED
    BY <1>1, FS_EmptySet DEF Aligned

(* The steps of a turn, one after the other. *)
LEMMA AlignedFlatten ==
    ASSUME NEW q \in Seq(Seq(Token)), NEW p \in Seq(Seq(Int)), Len(p) = Len(q),
           \A k \in 1 .. Len(q) : Aligned(q[k], p[k])
    PROVE  Aligned(FlattenSeq(q), FlattenSeq(p))
<1>1. CASE q = <<>>
    <2>1. p = <<>>
        BY <1>1
    <2>2. FlattenSeq(q) = <<>> /\ FlattenSeq(p) = <<>>
        BY <1>1, <2>1 DEF FlattenSeq
    <2> QED
        BY <2>2, AlignedEmpty
<1>2. CASE q # <<>>
    <2> DEFINE n == Len(q)
    <2>1. n \in Nat \ {0} /\ \A i \in 1 .. n : q[i] \in Seq(Token)
        BY <1>2
    <2>2. PICK F : IsFlat(F, q) /\ FlattenSeq(q) = F[n]
        BY <2>1, FlatIs
    <2>3. PICK G : IsFlat(G, p) /\ FlattenSeq(p) = G[n]
        BY <2>1, FlatIs
    <2>4. \A i \in 1 .. n : /\ F[i] = IF i = 1 THEN q[i] ELSE F[i - 1] \o q[i]
                            /\ G[i] = IF i = 1 THEN p[i] ELSE G[i - 1] \o p[i]
        BY <2>2, <2>3 DEF IsFlat
    <2>5. \A i \in 1 .. n : Aligned(q[i], p[i])
        OBVIOUS
    <2> HIDE DEF n
    <2> DEFINE Good(i) == F[i] \in Seq(Token) /\ Aligned(F[i], G[i])
               Bad == {i \in 1 .. n : ~Good(i)}
    <2>6. ASSUME Bad # {} PROVE FALSE
        <3>1. Bad \in SUBSET (0 .. n)
            BY <2>1
        <3>2. PICK i \in Bad : i - 1 \notin Bad
            <4> HIDE DEF Bad
            <4> QED
                BY <2>1, <2>6, <3>1, FirstOf
        <3>3. i \in 1 .. n /\ ~Good(i)
            OBVIOUS
        <3>4. i # 1
            BY <2>1, <2>4, <2>5, <3>3
        <3>5. i - 1 \in 1 .. n
            BY <2>1, <3>3, <3>4
        <3>6. Good(i - 1)
            BY <3>2, <3>5
        <3>7. F[i] = F[i - 1] \o q[i] /\ G[i] = G[i - 1] \o p[i]
            BY <2>4, <3>3, <3>4
        <3>8. q[i] \in Seq(Token) /\ Aligned(q[i], p[i])
            BY <2>1, <2>5, <3>3
        <3>9. F[i] \in Seq(Token)
            BY <3>6, <3>7, <3>8
        <3>10. Aligned(F[i - 1] \o q[i], G[i - 1] \o p[i])
            BY <3>6, <3>8, AlignedConcat
        <3> QED
            BY <3>3, <3>7, <3>9, <3>10
    <2>7. n \in 1 .. n
        BY <2>1
    <2>8. Good(n)
        BY <2>6, <2>7
    <2> QED
        BY <2>2, <2>3, <2>8
<1> QED
    BY <1>1, <1>2

(* The log-probs of the action tokens of a step, as Traces takes them. *)
LEMMA AlignedSelect ==
    ASSUME NEW tokens \in Seq(Token)
    PROVE  Aligned(tokens, Select([t \in DOMAIN tokens |-> tokens[t].sampled], Acts(tokens)))
<1> DEFINE s == [t \in DOMAIN tokens |-> tokens[t].sampled]
           A == Acts(tokens)
<1>1. A \subseteq DOMAIN tokens /\ A \subseteq Nat /\ IsFiniteSet(A)
    BY ActsFinite DEF Acts
<1>2. \A t \in DOMAIN tokens : s[t] = tokens[t].sampled /\ s[t] \in Int
    <2>1. \A t \in DOMAIN tokens : tokens[t] \in Token
        OBVIOUS
    <2>2. \A t \in DOMAIN tokens : tokens[t].sampled \in Int
        BY <2>1 DEF Token
    <2> QED
        BY <2>2
<1> HIDE DEF s, A
<1>3. \A t \in A : s[t] \in Int /\ s[t] = tokens[t].sampled
    BY <1>1, <1>2
<1>4. /\ Select(s, A) \in Seq(Int) /\ Len(Select(s, A)) = Cardinality(A)
      /\ \A t \in A : UpTo(A, t) \in 1 .. Cardinality(A) /\ Select(s, A)[UpTo(A, t)] = s[t]
    BY <1>1, <1>3, Selected1
<1>5. Aligned(tokens, Select(s, A))
    BY <1>3, <1>4 DEF Aligned, A
<1> QED
    BY <1>5 DEF s, A

(* Cut off behind the m-th token, and the log-probs behind those that remain. *)
LEMMA AlignedCut ==
    ASSUME NEW tokens \in Seq(Token), NEW logps, Aligned(tokens, logps),
           NEW m \in Nat, m <= Len(tokens)
    PROVE  LET cut == SubSeq(tokens, 1, m)
           IN  /\ cut \in Seq(Token) /\ Len(cut) = m
               /\ \A t \in 1 .. m : cut[t] = tokens[t]
               /\ Aligned(cut, SubSeq(logps, 1, Cardinality(Acts(cut))))
<1> DEFINE cut == SubSeq(tokens, 1, m)
           A == Acts(tokens)
           B == Acts(cut)
           n == Cardinality(B)
           kept == SubSeq(logps, 1, n)
<1>1. cut \in Seq(Token) /\ Len(cut) = m /\ \A t \in 1 .. m : cut[t] = tokens[t]
    OBVIOUS
<1>2. /\ A \subseteq Nat /\ IsFiniteSet(A) /\ Cardinality(A) \in Nat
      /\ B \subseteq Nat /\ IsFiniteSet(B) /\ n \in Nat
    BY <1>1, ActsFinite
<1>3. B = {t \in A : t <= m}
    <2>1. DOMAIN cut = 1 .. m /\ DOMAIN tokens = 1 .. Len(tokens) /\ Len(tokens) \in Nat
        BY <1>1
    <2>2. \A t : t \in 1 .. m <=> t \in 1 .. Len(tokens) /\ t <= m
        BY <2>1
    <2> HIDE DEF cut
    <2> QED
        BY <1>1, <2>1, <2>2 DEF Acts
<1>4. /\ logps \in Seq(Int) /\ Len(logps) = Cardinality(A)
      /\ \A t \in A : UpTo(A, t) \in 1 .. Len(logps) /\ logps[UpTo(A, t)] = tokens[t].sampled
    BY DEF Aligned
<1>5. n <= Len(logps)
    <2>1. B \in SUBSET A
        BY <1>3
    <2> HIDE DEF A, B
    <2> QED
        BY <1>2, <1>4, <2>1, FS_Subset
<1>6. kept \in Seq(Int) /\ Len(kept) = n /\ \A k \in 1 .. n : kept[k] = logps[k]
    <2> HIDE DEF n
    <2> QED
        BY <1>2, <1>4, <1>5
<1>7. ASSUME NEW t \in B
      PROVE  UpTo(B, t) \in 1 .. Len(kept) /\ kept[UpTo(B, t)] = cut[t].sampled
    <2>1. t \in A /\ t \in 1 .. m
        <3>1. B \subseteq 1 .. m
            BY <1>1 DEF Acts
        <3> QED
            BY <1>3, <1>7, <3>1
    <2>2. {j \in B : j <= t} = {j \in A : j <= t}
        <3>1. \A j \in A : j <= t => j <= m
            BY <1>2, <2>1
        <3> HIDE DEF A, B
        <3> QED
            BY <1>3, <3>1
    <2>3. UpTo(B, t) = UpTo(A, t)
        BY <2>2 DEF UpTo
    <2>4. UpTo(B, t) \in 1 .. n
        BY <1>2, <1>7, UpToCounts
    <2> HIDE DEF A, B, n, kept, cut
    <2> QED
        BY <1>1, <1>4, <1>6, <2>1, <2>3, <2>4
<1>8. Aligned(cut, kept)
    <2> HIDE DEF kept, cut
    <2> QED
        BY <1>6, <1>7 DEF Aligned
<1> QED
    BY <1>1, <1>8

-----------------------------------------------------------------------------
(* Items *)

(* An item whose log-probs, if it has any, are those of its action tokens. *)
GoodItem == {i \in Item : i.logps # NoLogps => Aligned(i.tokens, i.logps)}

(* A sum of integers is one. *)
LEMMA SumOver ==
    ASSUME NEW f, IsFiniteSet(DOMAIN f), \A x \in DOMAIN f : f[x] \in Int
    PROVE  SumFunction(f) \in Int
BY SumInt DEF SumFunction

(* Every credit assigner gives integers. *)
LEMMA WeightInt ==
    ASSUME NEW data \in Seq(RolloutData), NEW assigner \in Assigners,
           NEW i \in DOMAIN data, NEW t \in DOMAIN data[i].steps
    PROVE  Weight(assigner, CreditView(data), i, t) \in Int
<1> DEFINE view == CreditView(data)
<1>1. /\ DOMAIN view = DOMAIN data /\ IsFiniteSet(DOMAIN data)
      /\ \A j \in DOMAIN data :
           /\ view[j].rewards = [k \in DOMAIN data[j].steps |-> data[j].steps[k].reward]
           /\ view[j].counted \subseteq DOMAIN data[j].steps
    <2>1. IsFiniteSet(DOMAIN data)
        BY PositionsFinite
    <2> QED
        BY <2>1 DEF CreditView
<1>2. \A j \in DOMAIN data : data[j].steps \in Seq(StepData)
    <2>1. \A j \in DOMAIN data : data[j] \in RolloutData
        OBVIOUS
    <2> QED
        BY <2>1 DEF RolloutData
<1>3. \A j \in DOMAIN data : view[j].rewards \in Seq(Int)
                             /\ DOMAIN view[j].rewards = DOMAIN data[j].steps
    <2> SUFFICES ASSUME NEW j \in DOMAIN data
                 PROVE  view[j].rewards \in Seq(Int)
                        /\ DOMAIN view[j].rewards = DOMAIN data[j].steps
        OBVIOUS
    <2> DEFINE s == data[j].steps
    <2>1. s \in Seq(StepData)
        BY <1>2
    <2>2. \A k \in DOMAIN s : s[k] \in StepData
        BY <2>1
    <2>3. \A k \in DOMAIN s : s[k].reward \in Int
        BY <2>2 DEF StepData
    <2>4. view[j].rewards = [k \in DOMAIN s |-> s[k].reward]
        BY <1>1
    <2>5. DOMAIN s = 1 .. Len(s) /\ Len(s) \in Nat
        BY <2>1
    <2> HIDE DEF s, view
    <2>6. [k \in DOMAIN s |-> s[k].reward] \in Seq(Int)
        BY <2>3, <2>5
    <2> QED
        BY <2>4, <2>6 DEF s
<1> HIDE DEF view
<1>4. \A j \in DOMAIN data : \A k \in DOMAIN view[j].rewards : view[j].rewards[k] \in Int
    BY <1>3
<1>5. ASSUME NEW j \in DOMAIN data PROVE TotalReturn(view[j]) \in Int
    <2>1. IsFiniteSet(DOMAIN view[j].rewards)
        BY <1>3, PositionsFinite
    <2>2. IsFiniteSet(view[j].counted)
        BY <1>1, <1>3, <2>1, FS_Subset
    <2>3. \A k \in view[j].counted : view[j].rewards[k] \in Int
        BY <1>1, <1>3, <1>4
    <2> QED
        BY <2>2, <2>3, SumInt DEF TotalReturn
<1>6. Centred(view, i) \in Int
    <2> DEFINE R == Returns(view)
               G == GroupOf(view, i)
    <2>1. \A j \in DOMAIN data : R[j] = TotalReturn(view[j])
        BY <1>1 DEF Returns
    <2>2. G \in SUBSET DOMAIN data
        BY <1>1 DEF GroupOf
    <2>3. IsFiniteSet(G)
        BY <1>1, <2>2, FS_Subset
    <2> HIDE DEF R, G
    <2>4. SumFunctionOnSet(R, G) \in Int
        BY <1>5, <2>1, <2>2, <2>3, SumInt
    <2>5. GroupSize * TotalReturn(view[i]) \in Int
        BY <1>5, CreditAssumption
    <2> QED
        BY <2>4, <2>5 DEF Centred, R, G
<1>7. ToGo(view[i].rewards, t) \in Int
    <2> DEFINE w == view[i].rewards
    <2>1. w \in Seq(Int) /\ t \in DOMAIN w /\ DOMAIN w = 1 .. Len(w) /\ Len(w) \in Nat
        BY <1>3
    <2> HIDE DEF w
    <2>2. IsFiniteSet(t .. Len(w))
        BY <2>1, FS_Interval
    <2>3. \A k \in t .. Len(w) : w[k] \in Int
        BY <2>1
    <2> QED
        BY <2>2, <2>3, SumInt DEF ToGo, w
<1>8. view[i].rewards[t] \in Int /\ TotalReturn(view[i]) \in Int
    BY <1>3, <1>4, <1>5
<1> QED
    BY <1>6, <1>7, <1>8 DEF Weight, Assigners, GroupAssigners, Positive, view

(* The item of a single step. *)
LEMMA StepItemGood ==
    ASSUME NEW data \in Seq(RolloutData), NEW i \in DOMAIN data, NEW t \in DOMAIN data[i].steps,
           NEW weight \in Int
    PROVE  StepItem(data, i, t, weight) \in GoodItem
<1>1. data[i] \in RolloutData /\ i \in Nat
    OBVIOUS
<1>2. data[i].steps \in Seq(StepData)
    BY <1>1 DEF RolloutData
<1>3. data[i].steps[t] \in StepData
    BY <1>2
<1>4. data[i].steps[t].tokens \in Seq(Token)
    BY <1>3 DEF StepData
<1> QED
    BY <1>1, <1>4 DEF StepItem, GoodItem, Item

(* The tokens and log-probs of a turn belong together, however many steps it *)
(* has and wherever their action tokens are.                                 *)
LEMMA TurnItemGood ==
    ASSUME NEW data, NEW i \in Nat, NEW turn \in Seq(StepData), NEW weight \in Int
    PROVE  TurnItem(data, i, turn, weight) \in GoodItem
<1> DEFINE agents == Select(turn, {t \in DOMAIN turn : turn[t].kind = "agent"})
           q == [k \in DOMAIN agents |-> agents[k].tokens]
           p == [k \in DOMAIN agents |->
                   Select([t \in DOMAIN agents[k].tokens |-> agents[k].tokens[t].sampled],
                          ActionPositions(agents[k]))]
<1>1. agents \in Seq(StepData)
    <2> DEFINE S == {t \in DOMAIN turn : turn[t].kind = "agent"}
    <2>1. S \subseteq DOMAIN turn /\ \A t \in S : turn[t] \in StepData
        OBVIOUS
    <2> HIDE DEF S
    <2>2. S \subseteq Nat /\ IsFiniteSet(S)
        BY <2>1, PositionsFinite
    <2>3. Select(turn, S) \in Seq(StepData)
        BY <2>1, <2>2, Selected1
    <2> QED
        BY <2>3 DEF S
<1>2. FlattenSeq(p) = Traces(agents)
    BY DEF Traces
<1>3. TurnItem(data, i, turn, weight) =
        [rollout |-> i, weight |-> weight, tokens |-> FlattenSeq(q),
         logps |-> IF agents[1].traced THEN Traces(agents) ELSE NoLogps]
    BY DEF TurnItem
<1> HIDE DEF agents
<1>4. \A k \in DOMAIN agents : agents[k].tokens \in Seq(Token)
    <2>1. \A k \in DOMAIN agents : agents[k] \in StepData
        BY <1>1
    <2> QED
        BY <2>1 DEF StepData
<1>5. DOMAIN agents = 1 .. Len(agents) /\ Len(agents) \in Nat
    BY <1>1
<1>6. q \in Seq(Seq(Token)) /\ Len(q) = Len(agents)
    BY <1>4, <1>5
<1>7. ASSUME NEW k \in DOMAIN agents PROVE Aligned(q[k], p[k])
    <2> DEFINE tokens == agents[k].tokens
    <2>1. tokens \in Seq(Token)
        BY <1>4
    <2>2. ActionPositions(agents[k]) = Acts(tokens)
        BY DEF ActionPositions, Acts
    <2>3. q[k] = tokens
             /\ p[k] = Select([t \in DOMAIN tokens |-> tokens[t].sampled], Acts(tokens))
        BY <2>2
    <2> HIDE DEF tokens, q, p
    <2> QED
        BY <2>1, <2>3, AlignedSelect
<1>8. p \in Seq(Seq(Int)) /\ Len(p) = Len(agents)
    <2>1. \A k \in DOMAIN agents : p[k] \in Seq(Int)
        <3> HIDE DEF p, q
        <3> QED
            BY <1>7 DEF Aligned
    <2>2. DOMAIN p = 1 .. Len(agents) /\ p = [k \in 1 .. Len(agents) |-> p[k]]
        BY <1>5
    <2> HIDE DEF p
    <2> QED
        BY <1>5, <2>1, <2>2
<1> HIDE DEF p, q
<1>9. FlattenSeq(q) \in Seq(Token)
    BY <1>6, FlattenTyped
<1>10. FlattenSeq(p) \in Seq(Int)
    BY <1>8, FlattenTyped
<1>11. Aligned(FlattenSeq(q), FlattenSeq(p))
    BY <1>5, <1>6, <1>7, <1>8, AlignedFlatten
<1> QED
    BY <1>2, <1>3, <1>9, <1>10, <1>11 DEF GoodItem, Item

(* The positions of a set come in their order. *)
LEMMA NthGrows ==
    ASSUME NEW S, S \subseteq Nat, IsFiniteSet(S), NEW n \in 2 .. Cardinality(S)
    PROVE  Nth(S, n - 1) < Nth(S, n)
<1>1. n - 1 \in 1 .. Cardinality(S) /\ n \in 1 .. Cardinality(S) /\ n \in Nat
    <2>1. Cardinality(S) \in Nat
        BY FS_CardinalityType
    <2> QED
        BY <2>1
<1>2. /\ Nth(S, n - 1) \in S /\ UpTo(S, Nth(S, n - 1)) = n - 1
      /\ Nth(S, n) \in S /\ UpTo(S, Nth(S, n)) = n
    BY <1>1, NthIs
<1>3. Nth(S, n) < Nth(S, n - 1) => n < n - 1
    <2>1. \A j, k \in S : j < k => UpTo(S, j) < UpTo(S, k)
        BY UpToCounts
    <2> QED
        BY <1>2, <2>1
<1>4. Nth(S, n) # Nth(S, n - 1)
    <2>1. n # n - 1
        BY <1>1
    <2> QED
        BY <1>2, <2>1
<1>5. Nth(S, n) \in Nat /\ Nth(S, n - 1) \in Nat
    BY <1>2
<1> QED
    BY <1>1, <1>3, <1>4, <1>5

(* The items of a rollout batch, one for each turn. *)
LEMMA OnlineGood ==
    ASSUME NEW data \in Seq(RolloutData), NEW assigner \in Assigners
    PROVE  OnlineItems(data, assigner) \in Seq(GoodItem)
<1> DEFINE steps(i) == data[i].steps
           ends(i) == {t \in DOMAIN steps(i) : steps(i)[t].final}
           from(i, n) == IF n = 1 THEN 1 ELSE Nth(ends(i), n - 1) + 1
           item(i, n) == TurnItem(data, i, SubSeq(steps(i), from(i, n), Nth(ends(i), n)),
                                  Weight(assigner, CreditView(data), i, Nth(ends(i), n)))
           q == [i \in DOMAIN data |-> [n \in 1 .. Cardinality(ends(i)) |-> item(i, n)]]
<1>1. OnlineItems(data, assigner) = FlattenSeq(q)
    BY DEF OnlineItems
<1>2. DOMAIN data = 1 .. Len(data) /\ Len(data) \in Nat
    OBVIOUS
<1>3. ASSUME NEW i \in DOMAIN data
      PROVE  /\ i \in Nat /\ steps(i) \in Seq(StepData)
             /\ ends(i) \subseteq DOMAIN steps(i) /\ ends(i) \subseteq Nat /\ IsFiniteSet(ends(i))
    <2>1. data[i] \in RolloutData
        OBVIOUS
    <2>2. steps(i) \in Seq(StepData)
        BY <2>1 DEF RolloutData
    <2>3. ends(i) \subseteq DOMAIN steps(i)
        OBVIOUS
    <2> HIDE DEF steps, ends
    <2> QED
        BY <1>2, <2>2, <2>3, PositionsFinite
<1>4. ASSUME NEW i \in DOMAIN data, NEW n \in 1 .. Cardinality(ends(i))
      PROVE  item(i, n) \in GoodItem
    <2> DEFINE s == steps(i)
               E == ends(i)
               t == Nth(E, n)
               f == from(i, n)
    <2>1. s \in Seq(StepData) /\ E \subseteq DOMAIN s /\ E \subseteq Nat /\ IsFiniteSet(E) /\ i \in Nat
        BY <1>3
    <2>2. Cardinality(E) \in Nat /\ n \in 1 .. Cardinality(E)
        BY <2>1, FS_CardinalityType
    <2>3. f = IF n = 1 THEN 1 ELSE Nth(E, n - 1) + 1
        OBVIOUS
    <2>4. Weight(assigner, CreditView(data), i, t) \in Int
        <3> HIDE DEF E, t
        <3>1. t \in E
            BY <2>1, <2>2, NthIs DEF t
        <3>2. t \in DOMAIN data[i].steps
            BY <2>1, <3>1
        <3> QED
            BY <3>2, WeightInt
    <2>5. item(i, n) = TurnItem(data, i, SubSeq(s, f, t), Weight(assigner, CreditView(data), i, t))
        OBVIOUS
    <2> HIDE DEF s, E, f, item
    <2>6. t \in E
        BY <2>1, <2>2, NthIs
    <2>7. f \in 1 .. t
        <3>1. CASE n = 1
            BY <2>1, <2>3, <2>6, <3>1
        <3>2. CASE n # 1
            <4>1. n \in 2 .. Cardinality(E) /\ n - 1 \in 1 .. Cardinality(E)
                BY <2>2, <3>2
            <4>2. Nth(E, n - 1) < t /\ Nth(E, n - 1) \in E
                BY <2>1, <4>1, NthGrows, NthIs
            <4> HIDE DEF t
            <4> QED
                BY <2>1, <2>3, <2>6, <3>2, <4>2
        <3> QED
            BY <3>1, <3>2
    <2>8. SubSeq(s, f, t) \in Seq(StepData)
        <3> HIDE DEF t
        <3>1. DOMAIN s = 1 .. Len(s) /\ t \in 1 .. Len(s) /\ Len(s) \in Nat
            BY <2>1, <2>6
        <3>2. \A k \in f .. t : s[k] \in StepData
            BY <2>1, <2>7, <3>1
        <3>3. f \in Int /\ t \in Int
            BY <2>7, <3>1
        <3> QED
            BY <3>2, <3>3, SubSeqProperties
    <2> HIDE DEF t
    <2> QED
        BY <2>1, <2>4, <2>5, <2>8, TurnItemGood
<1>5. ASSUME NEW i \in DOMAIN data PROVE q[i] \in Seq(GoodItem)
    <2>1. Cardinality(ends(i)) \in Nat
        BY <1>3, FS_CardinalityType
    <2>2. q[i] = [n \in 1 .. Cardinality(ends(i)) |-> item(i, n)]
        OBVIOUS
    <2> HIDE DEF ends, item, q
    <2> QED
        BY <1>4, <2>1, <2>2
<1>6. q \in Seq(Seq(GoodItem))
    <2>1. q = [i \in 1 .. Len(data) |-> q[i]]
        BY <1>2
    <2> HIDE DEF q
    <2> QED
        BY <1>2, <1>5, <2>1
<1> HIDE DEF q
<1> QED
    BY <1>1, <1>6, FlattenTyped

(* The items of an offline batch, one for each selected step. *)
LEMMA OfflineGood ==
    ASSUME NEW data \in Seq(RolloutData), NEW assigner \in Assigners
    PROVE  OfflineItems(data, assigner) \in Seq(GoodItem)
<1> DEFINE chosen(i) == {t \in DOMAIN data[i].steps : Selected(data[i].steps[t])}
           s(i) == [t \in DOMAIN data[i].steps |->
                      StepItem(data, i, t, Weight(assigner, CreditView(data), i, t))]
           q == [i \in DOMAIN data |-> Select(s(i), chosen(i))]
<1>1. OfflineItems(data, assigner) = FlattenSeq(q)
    BY DEF OfflineItems
<1>2. DOMAIN data = 1 .. Len(data) /\ Len(data) \in Nat
    OBVIOUS
<1>3. ASSUME NEW i \in DOMAIN data PROVE q[i] \in Seq(GoodItem)
    <2>1. data[i] \in RolloutData
        OBVIOUS
    <2>2. data[i].steps \in Seq(StepData)
        BY <2>1 DEF RolloutData
    <2>3. chosen(i) \subseteq DOMAIN data[i].steps
        OBVIOUS
    <2>4. \A t \in DOMAIN data[i].steps : s(i)[t] \in GoodItem
        BY WeightInt, StepItemGood
    <2>5. q[i] = Select(s(i), chosen(i))
        OBVIOUS
    <2> HIDE DEF chosen, s, q
    <2>6. chosen(i) \subseteq Nat /\ IsFiniteSet(chosen(i))
        BY <2>2, <2>3, PositionsFinite
    <2> QED
        BY <2>3, <2>4, <2>5, <2>6, Selected1
<1>4. q \in Seq(Seq(GoodItem))
    <2>1. q = [i \in 1 .. Len(data) |-> q[i]]
        BY <1>2
    <2> HIDE DEF q
    <2> QED
        BY <1>2, <1>3, <2>1
<1> HIDE DEF q
<1> QED
    BY <1>1, <1>4, FlattenTyped

-----------------------------------------------------------------------------
(* The row of an item *)

(* Truncation and collation give an item's row the log-probs that its action *)
(* tokens were sampled with.                                                 *)
LEMMA RowIsIdeal ==
    ASSUME NEW item \in GoodItem, NEW n \in Nat
    PROVE  Collate(Truncate(item), n) = IdealRow(item, n)
<1> DEFINE tokens == item.tokens
           m == Len(tokens)
           w == Width(item)
           row == Truncate(item)
<1>1. item \in Item /\ tokens \in Seq(Token) /\ m \in Nat /\ MaxSeqLen \in Nat \ {0}
    BY BudgetAssumption DEF GoodItem, Item
<1>2. w = IF m <= MaxSeqLen THEN m ELSE MaxSeqLen
    <2>1. DOMAIN tokens = 1 .. m
        BY <1>1
    <2>2. {t \in 1 .. MaxSeqLen : t \in DOMAIN tokens}
            = 1 .. (IF m <= MaxSeqLen THEN m ELSE MaxSeqLen)
        BY <1>1, <2>1
    <2> HIDE DEF m
    <2> DEFINE l == IF m <= MaxSeqLen THEN m ELSE MaxSeqLen
    <2>3. l \in Nat
        BY <1>1
    <2> HIDE DEF l
    <2>4. Cardinality(1 .. l) = l
        BY <2>3, FS_Interval
    <2> QED
        BY <2>2, <2>4 DEF Width, l
<1>3. /\ row.tokens \in Seq(Token) /\ DOMAIN row.tokens = 1 .. w
      /\ \A t \in 1 .. w : row.tokens[t] = tokens[t]
      /\ row.weight = item.weight
      /\ row.logps = NoLogps <=> item.logps = NoLogps
      /\ row.logps # NoLogps => Aligned(row.tokens, row.logps)
    <2>1. CASE m <= MaxSeqLen
        <3>1. row = item /\ w = m
            BY <1>2, <2>1 DEF Truncate
        <3> HIDE DEF row, w
        <3> QED
            BY <1>1, <3>1 DEF GoodItem
    <2>2. CASE ~(m <= MaxSeqLen)
        <3> DEFINE cut == SubSeq(tokens, 1, MaxSeqLen)
                   kept == SubSeq(item.logps, 1, Cardinality(Acts(cut)))
        <3>1. w = MaxSeqLen /\ MaxSeqLen <= m
            BY <1>1, <1>2, <2>2
        <3>2. row.tokens = cut /\ row.weight = item.weight
                /\ row.logps = IF item.logps = NoLogps THEN NoLogps ELSE kept
            BY <1>1, <2>2 DEF Truncate, ActionPositions, Acts, Item
        <3>3. cut \in Seq(Token) /\ Len(cut) = MaxSeqLen
              /\ \A t \in 1 .. MaxSeqLen : cut[t] = tokens[t]
            BY <1>1, <3>1
        <3>4. item.logps # NoLogps => Aligned(cut, kept)
            BY <1>1, <3>1, AlignedCut DEF GoodItem
        <3> HIDE DEF cut, kept, row, w
        <3>5. cut \in Seq(Token) /\ DOMAIN cut = 1 .. w /\ \A t \in 1 .. w : cut[t] = tokens[t]
            BY <3>1, <3>3
        <3>6. item.logps # NoLogps => kept # NoLogps
            BY LogpsAssumption, <3>4 DEF Aligned
        <3> QED
            BY <3>2, <3>4, <3>5, <3>6
    <2> QED
        BY <2>1, <2>2
<1>4. row.tokens \in Seq(Token) => Acts(row.tokens) = ActionPositions(row)
    BY DEF Acts, ActionPositions
<1> DEFINE c == Collate(row, n)
           shown == [t \in 1 .. w |-> tokens[t]]
           ideal == IdealRow(item, n)
<1>5. /\ c = [mask |-> c.mask, new |-> c.new, old |-> c.old, weight |-> row.weight]
      /\ c.mask = [t \in DOMAIN row.tokens |-> row.tokens[t].action]
      /\ c.new = [t \in DOMAIN row.tokens |-> row.tokens[t].sampled + n * row.tokens[t].drift]
      /\ c.old = [t \in DOMAIN row.tokens |->
                    IF row.logps # NoLogps /\ row.tokens[t].action = 1
                    THEN row.logps[UpTo(ActionPositions(row), t)] ELSE 0]
    BY DEF Collate
<1>6. /\ ideal = [mask |-> ideal.mask, new |-> ideal.new, old |-> ideal.old, weight |-> item.weight]
      /\ ideal.mask = [t \in 1 .. w |-> shown[t].action]
      /\ ideal.new = [t \in 1 .. w |-> shown[t].sampled + n * shown[t].drift]
      /\ ideal.old = [t \in 1 .. w |->
                    IF item.logps # NoLogps /\ shown[t].action = 1 THEN shown[t].sampled ELSE 0]
    BY DEF IdealRow
<1>7. \A t \in 1 .. w : shown[t] = row.tokens[t]
    BY <1>3
<1>8. ASSUME NEW t \in 1 .. w, row.logps # NoLogps, row.tokens[t].action = 1
      PROVE  row.logps[UpTo(ActionPositions(row), t)] = row.tokens[t].sampled
    <2>1. t \in Acts(row.tokens)
        BY <1>3, <1>8 DEF Acts
    <2>2. Aligned(row.tokens, row.logps)
        BY <1>3, <1>8
    <2> QED
        BY <1>3, <1>4, <2>1, <2>2 DEF Aligned
<1> HIDE DEF c, row, ideal, shown, w
<1>9. c.mask = ideal.mask /\ c.new = ideal.new
    BY <1>3, <1>5, <1>6, <1>7
<1>10. c.old = ideal.old
    BY <1>3, <1>5, <1>6, <1>7, <1>8
<1>11. c = ideal
    BY <1>3, <1>5, <1>6, <1>9, <1>10
<1> QED
    BY <1>11 DEF c, ideal, row

-----------------------------------------------------------------------------
(* Pushes *)

(* A power of two is positive, as the number of subsets is. *)
LEMMA TwoPow == \A n \in Nat : 2^n \in Nat \ {0}
<1> SUFFICES ASSUME NEW n \in Nat PROVE 2^n \in Nat \ {0}
    OBVIOUS
<1>1. IsFiniteSet(1 .. n) /\ Cardinality(1 .. n) = n
    BY FS_Interval
<1>2. IsFiniteSet(SUBSET (1 .. n)) /\ Cardinality(SUBSET (1 .. n)) = 2^n
    BY <1>1, FS_SUBSET
<1>3. SUBSET (1 .. n) # {}
    OBVIOUS
<1> HIDE DEF Cardinality
<1> QED
    BY <1>2, <1>3, FS_CardinalityType, FS_EmptySet

(* Products and quotients of integers. *)
LEMMA Products ==
    /\ \A a, b \in Nat : a * b \in Nat
    /\ \A a, b \in Int : a * b \in Int
    /\ \A a \in Int, b \in Nat \ {0} : a \div b \in Int
    /\ \A a \in Nat, b \in Nat \ {0} : a \div b \in Nat
    /\ \A a \in Int, b \in Nat \ {0} : a <= 0 => a \div b <= 0
    /\ \A b \in Nat \ {0} : 0 \div b = 0
OBVIOUS

(* The ratio of two probabilities is not negative. *)
LEMMA ExpNat ==
    ASSUME NEW num \in Int, NEW den \in Nat \ {0}
    PROVE  Exp(num, den) \in Nat
<1> DEFINE whole == num \div den
           mantissa == (Unit * (den + (num % den))) \div den
<1>1. whole \in Int
    OBVIOUS
<1>2. mantissa \in Nat
    <2>1. num % den \in Nat
        OBVIOUS
    <2>2. Unit * (den + (num % den)) \in Nat
        BY <2>1 DEF Unit
    <2> QED
        BY <2>2, Products
<1>3. Exp(num, den) = IF whole >= 0 THEN mantissa * 2^whole ELSE mantissa \div 2^(-whole)
    BY DEF Exp
<1> HIDE DEF whole, mantissa
<1>4. CASE whole >= 0
    <2>1. 2^whole \in Nat
        BY <1>1, <1>4, TwoPow
    <2> QED
        BY <1>2, <1>3, <1>4, <2>1, Products
<1>5. CASE ~(whole >= 0)
    <2>1. -whole \in Nat
        BY <1>1, <1>5
    <2>2. 2^(-whole) \in Nat \ {0}
        BY <2>1, TwoPow
    <2> QED
        BY <1>2, <1>3, <1>5, <2>2, Products
<1> QED
    BY <1>4, <1>5

(* A row of w tokens. *)
RowOf(w) ==
    [mask : [1 .. w -> {0, 1}], new : [1 .. w -> Int], old : [1 .. w -> Int], weight : Int]

(* The row of an item has its width, and its action tokens are those of the  *)
(* item.                                                                     *)
LEMMA IdealTyped ==
    ASSUME NEW item \in GoodItem, NEW n \in Nat
    PROVE  /\ Width(item) \in Nat /\ IdealRow(item, n) \in RowOf(Width(item))
           /\ IdealRow(item, n).weight = item.weight
           /\ ActionTokens(IdealRow(item, n)) \subseteq DOMAIN item.tokens
<1> DEFINE tokens == item.tokens
           w == Width(item)
           shown == [t \in 1 .. w |-> tokens[t]]
<1>1. tokens \in Seq(Token) /\ item.weight \in Int
    BY DEF GoodItem, Item
<1>2. w \in Nat /\ 1 .. w \subseteq DOMAIN tokens
    <2> DEFINE m == Len(tokens)
    <2>1. m \in Nat /\ DOMAIN tokens = 1 .. m /\ MaxSeqLen \in Nat
        BY <1>1, BudgetAssumption
    <2>2. {t \in 1 .. MaxSeqLen : t \in DOMAIN tokens}
            = 1 .. (IF m <= MaxSeqLen THEN m ELSE MaxSeqLen)
        BY <2>1
    <2> HIDE DEF m
    <2> DEFINE l == IF m <= MaxSeqLen THEN m ELSE MaxSeqLen
    <2>3. l \in Nat /\ l <= m
        BY <2>1
    <2> HIDE DEF l
    <2>4. Cardinality(1 .. l) = l
        BY <2>3, FS_Interval
    <2>5. w = l
        BY <2>2, <2>4 DEF Width, l
    <2> HIDE DEF w
    <2> QED
        BY <2>1, <2>3, <2>5
<1>3. \A t \in 1 .. w : shown[t].action \in {0, 1} /\ shown[t].sampled \in Int
                          /\ shown[t].drift \in Int
    <2>1. \A t \in 1 .. w : shown[t] = tokens[t] /\ tokens[t] \in Token
        BY <1>1, <1>2
    <2> QED
        BY <2>1 DEF Token
<1>4. IdealRow(item, n) =
        [mask |-> [t \in 1 .. w |-> shown[t].action],
         new  |-> [t \in 1 .. w |-> shown[t].sampled + n * shown[t].drift],
         old  |-> [t \in 1 .. w |->
                    IF item.logps # NoLogps /\ shown[t].action = 1 THEN shown[t].sampled ELSE 0],
         weight |-> item.weight]
    BY DEF IdealRow
<1> HIDE DEF w, shown, tokens
<1>5. \A t \in 1 .. w : shown[t].sampled + n * shown[t].drift \in Int
    BY <1>3
<1>6. IdealRow(item, n) \in RowOf(w)
    BY <1>1, <1>3, <1>4, <1>5 DEF RowOf
<1>7. ActionTokens(IdealRow(item, n)) \subseteq 1 .. w
    <2> DEFINE row == IdealRow(item, n)
    <2>1. row.mask \in [1 .. w -> {0, 1}]
        BY <1>6 DEF RowOf
    <2> HIDE DEF row
    <2>2. Len(row.mask) = w
        BY <1>2, <2>1
    <2> QED
        BY <1>2, <2>2 DEF ActionTokens, row
<1> QED
    BY <1>2, <1>4, <1>6, <1>7 DEF w, tokens

(* What the losses take from a row. *)
LEMMA RowFacts ==
    ASSUME NEW w \in Nat, NEW row \in RowOf(w)
    PROVE  /\ row.weight \in Int
           /\ ActionTokens(row) \subseteq 1 .. w /\ IsFiniteSet(ActionTokens(row))
           /\ TokenCount(row) \in Nat \ {0}
           /\ \A t \in 1 .. w : /\ row.new[t] \in Int /\ row.old[t] \in Int
                                /\ LogRatio(row, t) \in Int /\ Ratio(row, t) \in Nat
           /\ SeqLogRatio(row) \in Int
           /\ \A loss \in LossTerm : SeqRatio(loss, row) \in Nat
<1>1. /\ row.mask \in [1 .. w -> {0, 1}] /\ row.new \in [1 .. w -> Int]
      /\ row.old \in [1 .. w -> Int] /\ row.weight \in Int
    BY DEF RowOf
<1>2. Len(row.mask) = w /\ DOMAIN row.mask = 1 .. w
    BY <1>1
<1>3. ActionTokens(row) \subseteq 1 .. w
    BY <1>2 DEF ActionTokens
<1>4. IsFiniteSet(ActionTokens(row)) /\ IsFiniteSet({t \in DOMAIN row.mask : row.mask[t] = 1})
    <2>1. IsFiniteSet(1 .. w)
        BY FS_Interval
    <2>2. {t \in DOMAIN row.mask : row.mask[t] = 1} \in SUBSET (1 .. w)
        BY <1>2
    <2> QED
        BY <1>3, <2>1, <2>2, FS_Subset
<1>5. TokenCount(row) \in Nat \ {0}
    <2> DEFINE A == ActionTokens(row)
    <2> HIDE DEF A
    <2>1. IsFiniteSet(A) => Cardinality(A) \in Nat /\ (A # {} => Cardinality(A) # 0)
        BY FS_CardinalityType, FS_EmptySet
    <2> QED
        BY <1>4, <2>1 DEF TokenCount, A
<1>6. ASSUME NEW t \in 1 .. w
      PROVE  /\ row.new[t] \in Int /\ row.old[t] \in Int
             /\ LogRatio(row, t) \in Int /\ Ratio(row, t) \in Nat
    <2>1. row.new[t] \in Int /\ row.old[t] \in Int
        BY <1>1
    <2>2. LogRatio(row, t) \in Int
        BY <2>1 DEF LogRatio
    <2> QED
        BY <2>1, <2>2, ExpNat DEF Ratio
<1>7. SeqLogRatio(row) \in Int
    <2> DEFINE A == ActionTokens(row)
               B == {t \in DOMAIN row.mask : row.mask[t] = 1}
    <2>1. \A t \in A : row.new[t] \in Int
        BY <1>3, <1>6
    <2>2. \A t \in B : row.old[t] \in Int
        BY <1>2, <1>6
    <2> HIDE DEF A, B
    <2>3. SumFunctionOnSet(row.new, A) \in Int
        BY <1>4, <2>1, SumInt DEF A
    <2>4. SumFunctionOnSet(row.old, B) \in Int
        BY <1>4, <2>2, SumInt DEF B
    <2> QED
        BY <2>3, <2>4 DEF SeqLogRatio, A, B
<1>8. \A loss \in LossTerm : SeqRatio(loss, row) \in Nat
    BY <1>5, <1>7, ExpNat DEF SeqRatio
<1> QED
    BY <1>1, <1>3, <1>4, <1>5, <1>6, <1>7, <1>8

(* Dividing a push among tokens leaves it its sign. *)
LEMMA PerTokenSign ==
    ASSUME NEW w \in Nat, NEW row \in RowOf(w), NEW loss \in LossTerm, NEW push \in Int
    PROVE  /\ PerToken(loss, row, push) \in Int
           /\ push >= 0 => PerToken(loss, row, push) >= 0
           /\ push <= 0 => PerToken(loss, row, push) <= 0
<1>1. TokenCount(row) \in Nat \ {0}
    BY RowFacts
<1> DEFINE c == TokenCount(row)
<1> HIDE DEF c
<1>2. /\ push \div c \in Int /\ (push >= 0 => push \div c >= 0) /\ (push <= 0 => push \div c <= 0)
    BY <1>1, Products DEF c
<1> QED
    BY <1>2 DEF PerToken, c

(* A clipped integer is an integer. *)
LEMMA ClampInt ==
    ASSUME NEW x \in Int, NEW low \in Int, NEW high \in Int
    PROVE  Clamp(x, low, high) \in Int
BY DEF Clamp

(* The parameters of a loss. *)
LEMMA LossFields ==
    ASSUME NEW loss \in LossTerm
    PROVE  /\ loss.low \in Int /\ loss.high \in Int /\ loss.cap \in Int /\ loss.norm \in BOOLEAN
           /\ loss.tauPos \in Nat /\ loss.tauNeg \in Nat /\ loss.coeff \in Int
           /\ loss.kind \in {"reinforce", "baseline", "cross_entropy", "clipped", "token_clipped",
                             "cispo", "sapo", "gmpo", "token_kl"}
BY DEF LossTerm

(* The geometric mean of GMPO's clipped ratios. *)
LEMMA GmpoInt ==
    ASSUME NEW w \in Nat, NEW row \in RowOf(w), NEW loss \in LossTerm, NEW adv \in Int
    PROVE  /\ \A t \in 1 .. w : Signed(row, adv, t) \in Int /\ SignedMin(loss, row, adv, t) \in Int
           /\ GeometricRatio(loss, row, adv) \in Nat
<1>1. Sign(adv) \in {-1, 0, 1}
    BY DEF Sign
<1>2. ASSUME NEW t \in 1 .. w
      PROVE  Signed(row, adv, t) \in Int /\ SignedMin(loss, row, adv, t) \in Int
    <2>1. LogRatio(row, t) \in Int
        BY RowFacts
    <2>2. Signed(row, adv, t) \in Int
        BY <1>1, <2>1 DEF Signed
    <2>3. Clamp(Signed(row, adv, t), -loss.low, loss.high) \in Int
        <3>1. -loss.low \in Int /\ loss.high \in Int
            BY LossFields
        <3> QED
            BY <2>2, <3>1, ClampInt
    <2> QED
        BY <2>2, <2>3 DEF SignedMin, Smaller
<1>3. GeometricRatio(loss, row, adv) \in Nat
    <2> DEFINE A == ActionTokens(row)
               f == [t \in A |-> Sign(adv) * SignedMin(loss, row, adv, t)]
               den == 2 * (IF loss.norm THEN TokenCount(row) ELSE 1)
    <2>1. A \subseteq 1 .. w /\ IsFiniteSet(A) /\ TokenCount(row) \in Nat \ {0}
        BY RowFacts
    <2>2. DOMAIN f = A /\ \A t \in A : f[t] \in Int
        BY <1>1, <1>2, <2>1
    <2>3. den \in Nat \ {0}
        BY <2>1
    <2> HIDE DEF A, f, den
    <2>4. SumFunction(f) \in Int
        BY <2>1, <2>2, SumOver
    <2>5. Exp(SumFunction(f), den) \in Nat
        BY <2>3, <2>4, ExpNat
    <2> QED
        BY <2>5 DEF GeometricRatio, A, f, den
<1> QED
    BY <1>2, <1>3

(* The soft gate of SAPO. *)
LEMMA SapoInt ==
    ASSUME NEW w \in Nat, NEW row \in RowOf(w), NEW loss \in LossTerm, NEW adv \in Int,
           NEW t \in 1 .. w
    PROVE  SapoPush(loss, row, adv, t) \in Int
<1> DEFINE tau == IF adv > 0 THEN loss.tauPos ELSE loss.tauNeg
           ratio == Ratio(row, t)
           gate == Gate(tau, ratio)
           push == (gate * ratio * adv) \div Unit
<1>1. tau \in Nat /\ ratio \in Nat
    BY LossFields, RowFacts
<1>2. SapoPush(loss, row, adv, t) = PerToken(loss, row, push)
    BY DEF SapoPush
<1> HIDE DEF tau, ratio
<1>3. gate \in Nat
    <2>1. Distance(ratio, Unit) \in Nat
        BY <1>1 DEF Distance, Unit
    <2>2. tau * Distance(ratio, Unit) \in Nat
        BY <1>1, <2>1, Products
    <2>3. 10 * Unit + tau * Distance(ratio, Unit) \in Nat \ {0}
        BY <2>2 DEF Unit
    <2> QED
        BY <2>3, Products DEF Gate, Unit
<1> HIDE DEF gate
<1>4. gate * ratio \in Int /\ (gate * ratio) * adv \in Int
    BY <1>1, <1>3, Products
<1>5. push \in Int
    BY <1>4 DEF Unit
<1> HIDE DEF push
<1> QED
    BY <1>2, <1>5, PerTokenSign

(* Every loss pushes by an integer. *)
LEMMA PushInt ==
    ASSUME NEW w \in Nat, NEW row \in RowOf(w), NEW loss \in LossTerm, NEW adv \in Int,
           NEW t \in ActionTokens(row)
    PROVE  Push(loss, row, adv, t) \in Int
<1>1. t \in 1 .. w
    BY RowFacts
<1>2. \A p \in Int : PerToken(loss, row, p) \in Int
    BY PerTokenSign
<1>3. SeqRatio(loss, row) \in Nat /\ Ratio(row, t) \in Nat
    BY <1>1, RowFacts
<1>4. loss.low \in Int /\ loss.high \in Int /\ loss.coeff \in Int
    BY LossFields
<1>5. ReinforcePush(loss, row, adv, t) \in Int
    BY <1>2, <1>3, Products DEF ReinforcePush
<1>6. CrossEntropyPush(loss, row, adv, t) \in Int
    BY <1>2, Products DEF CrossEntropyPush, Unit
<1>7. \A ratio \in Nat : SurrogatePush(loss, ratio, adv) \in Int
    BY Products DEF SurrogatePush
<1>8. SequenceClippedPush(loss, row, adv, t) \in Int /\ TokenClippedPush(loss, row, adv, t) \in Int
    BY <1>2, <1>3, <1>7 DEF SequenceClippedPush, TokenClippedPush
<1>9. CispoPush(loss, row, adv, t) \in Int
    <2>1. Clamp(Ratio(row, t), loss.low, loss.high) \in Int
        <3>1. Ratio(row, t) \in Int
            BY <1>3
        <3> QED
            BY <1>4, <3>1, ClampInt
    <2> QED
        BY <1>2, <2>1, Products DEF CispoPush
<1>10. SapoPush(loss, row, adv, t) \in Int
    BY <1>1, SapoInt
<1>11. GmpoPush(loss, row, adv, t) \in Int
    <2>1. GeometricRatio(loss, row, adv) * adv \in Int
        BY GmpoInt, Products
    <2> QED
        BY <1>2, <2>1 DEF GmpoPush
<1>12. KlPush(loss, row, adv, t) \in Int
    <2>1. -Unit * loss.coeff \in Int
        BY <1>4 DEF Unit
    <2> QED
        BY <1>2, <2>1 DEF KlPush
<1> QED
    BY <1>5, <1>6, <1>8, <1>9, <1>10, <1>11, <1>12, LossFields DEF Push

-----------------------------------------------------------------------------
(* Positions, steps and places *)

(* The positions of the items. *)
Spots == DOMAIN items

SplitOfSpots == [chunks : Seq(Seq(Spots)), current : Seq(Spots), widest : Nat]

(* The places in a step that is not counted yet; those of a rank that has a  *)
(* batch; that has cut it; and that is at one of its micro-batches.          *)
Stepping == {"fetch", "split", "place", "collate", "forward", "backward", "reduce", "norm",
             "update"}
WithChunks == {"collate", "forward", "backward", "reduce", "norm", "update", "state", "publish",
               "save", "model", "optimizer", "rest", "stats"}
WithBatch == {"split", "place"} \union WithChunks
AtChunk == {"collate", "forward", "backward"}

(* What holds of a rank at a place, with its step, what is left, its batch,  *)
(* what is to be placed, its split and the micro-batch it is at.             *)
Sound(place, n, l, b, t, s, a) ==
    /\ place \in Places /\ n \in 0 .. NumSteps
    /\ l \in Seq(Spots) /\ b \in Seq(Spots) /\ t \in Seq(Spots)
    /\ s \in SplitOfSpots /\ a \in 0 .. Len(s.chunks)
    /\ place \in Stepping => n < NumSteps
    /\ place \in WithBatch => b # <<>>
    /\ place = "place" => s.chunks # <<>> \/ s.current # <<>> \/ t # <<>>
    /\ place \in WithChunks => s.chunks # <<>>
    /\ place \in AtChunk => a # 0

SoundRank(r) == Sound(pc[r], step[r], left[r], batch[r], todo[r], split[r], at[r])

(* One value for each rank. *)
ByRank ==
    /\ pc = [r \in Ranks |-> pc[r]] /\ step = [r \in Ranks |-> step[r]]
    /\ left = [r \in Ranks |-> left[r]] /\ batch = [r \in Ranks |-> batch[r]]
    /\ todo = [r \in Ranks |-> todo[r]] /\ split = [r \in Ranks |-> split[r]]
    /\ at = [r \in Ranks |-> at[r]] /\ epoch \in [Ranks -> Nat]
    /\ grad = [r \in Ranks |-> grad[r]]

SoundInv ==
    /\ conf \in Confs /\ items \in Seq(GoodItem) /\ served \in 0 .. NumSteps /\ reported \in Int
    /\ ByRank
    /\ orders \in Seq(Seq(Spots)) /\ \A r \in Ranks : epoch[r] <= Len(orders)
    /\ \A r \in Ranks : SoundRank(r)

(* What is configured. *)
LEMMA ConfFacts ==
    ASSUME conf \in Confs
    PROVE  /\ conf.world \in Nat \ {0} /\ conf.size \in Nat \ {0}
           /\ conf.dropLast \in BOOLEAN /\ conf.data \in Seq(RolloutData)
           /\ conf.algo.assigner \in Assigners /\ conf.algo.terms \in Seq(LossTerm)
           /\ 0 \in Ranks /\ IsFiniteSet(Ranks) /\ Ranks \subseteq Nat
<1>1. /\ conf.world \in Nat \ {0} /\ conf.size \in Nat \ {0}
      /\ conf.dropLast \in BOOLEAN /\ conf.data \in Seq(RolloutData)
      /\ conf.algo.assigner \in Assigners /\ conf.algo.terms \in Seq(LossTerm)
    BY TrainerAssumption
<1>2. Ranks = 0 .. conf.world - 1 /\ conf.world - 1 \in Int
    BY <1>1 DEF Ranks
<1>3. IsFiniteSet(Ranks)
    BY <1>2, FS_Interval
<1> QED
    BY <1>1, <1>2, <1>3

(* After the last step no rank fetches again. *)
LEMMA OnwardSteps ==
    ASSUME NEW k \in 0 .. 4, NEW n \in 0 .. NumSteps
    PROVE  /\ Onward(k, n) \in {"state", "save", "stats", "eval", "fetch", "final"}
           /\ Onward(k, n) = "fetch" => n < NumSteps
           /\ k >= 3 => Onward(k, n) \in {"eval", "fetch", "final"}
BY DEF Onward

(* A rank that only goes to another place. *)
LEMMA MoveSound ==
    ASSUME NEW p, NEW n, NEW l, NEW b, NEW t, NEW s, NEW a, Sound(p, n, l, b, t, s, a),
           NEW q \in Places \ {"place"},
           q \in Stepping => p \in Stepping \/ n < NumSteps,
           q \in WithBatch => p \in WithBatch, q \in WithChunks => p \in WithChunks,
           q \in AtChunk => p \in AtChunk
    PROVE  Sound(q, n, l, b, t, s, a)
BY DEF Sound

(* What a rank is dealt of an order is of that order. *)
LEMMA ShardTyped ==
    ASSUME NEW S, NEW order \in Seq(S), NEW rank \in Nat, NEW world \in Nat \ {0},
           NEW dropLast \in BOOLEAN
    PROVE  Shard(order, rank, world, dropLast) \in Seq(S)
<1> DEFINE len == Len(order)
           share == IF dropLast THEN len \div world ELSE (len + world - 1) \div world
           spot(k) == ((rank + (k - 1) * world) % len) + 1
<1>1. len \in Nat /\ DOMAIN order = 1 .. len
    OBVIOUS
<1>2. Shard(order, rank, world, dropLast) = [k \in 1 .. share |-> order[spot(k)]]
    BY DEF Shard
<1> HIDE DEF len
<1>3. share \in Nat
    <2>1. len + world - 1 \in Nat
        BY <1>1
    <2> QED
        BY <1>1, <2>1, Products
<1>4. len = 0 => share = 0
    <2>1. (0 + world - 1) \div world = 0
        OBVIOUS
    <2> QED
        BY <2>1, Products
<1>5. ASSUME NEW k \in 1 .. share PROVE order[spot(k)] \in S
    <2>1. len \in Nat \ {0}
        BY <1>1, <1>4
    <2>2. (k - 1) * world \in Int
        BY <1>3, Products
    <2>3. rank + (k - 1) * world \in Int
        BY <2>2
    <2>4. (rank + (k - 1) * world) % len \in 0 .. len - 1
        BY <2>1, <2>3
    <2>5. spot(k) \in 1 .. len
        BY <2>1, <2>4
    <2> HIDE DEF spot
    <2> QED
        BY <1>1, <2>5
<1> HIDE DEF share, spot
<1> QED
    BY <1>2, <1>3, <1>5

(* What is left of it without an incomplete batch is. *)
LEMMA WholeTyped ==
    ASSUME NEW S, NEW shard \in Seq(S), NEW size \in Nat \ {0}, NEW dropLast \in BOOLEAN
    PROVE  Whole(shard, size, dropLast) \in Seq(S)
<1> DEFINE m == size * (Len(shard) \div size)
<1>1. Len(shard) \in Nat
    OBVIOUS
<1>2. m \in Nat /\ m <= Len(shard)
    <2> DEFINE q == Len(shard) \div size
    <2>1. q \in Nat /\ Len(shard) = size * q + (Len(shard) % size) /\ Len(shard) % size \in Nat
        BY <1>1
    <2> HIDE DEF q
    <2>2. size * q \in Nat
        BY <2>1, Products
    <2> QED
        BY <1>1, <2>1, <2>2 DEF q
<1> HIDE DEF m
<1>3. SubSeq(shard, 1, m) \in Seq(S)
    BY <1>1, <1>2
<1> QED
    BY <1>3 DEF Whole, m

(* An order of an epoch is one of positions. *)
LEMMA OrderTyped ==
    ASSUME items \in Seq(GoodItem), NEW shuffle, NEW order \in EpochOrders(items, shuffle)
    PROVE  order \in Seq(Spots)
<1>1. Spots = 1 .. Len(items) /\ Len(items) \in Nat
    BY DEF Spots
<1>2. order \in [Spots -> Spots]
    BY DEF EpochOrders, Positions, Spots
<1> QED
    BY <1>1, <1>2

(* What is selected of a sequence of positions. *)
LEMMA SelectSpots ==
    ASSUME NEW S, NEW s \in Seq(S), NEW T, T \subseteq DOMAIN s
    PROVE  Select(s, T) \in Seq(S)
<1>1. T \subseteq Nat /\ IsFiniteSet(T)
    BY PositionsFinite
<1>2. \A k \in T : s[k] \in S
    OBVIOUS
<1> QED
    BY <1>1, <1>2, Selected1

(* The ranks begin soundly. *)
LEMMA SoundInit == Init => SoundInv
<1> SUFFICES ASSUME Init PROVE SoundInv
    OBVIOUS
<1>1. conf \in Confs
    BY DEF Init
<1>2. items \in Seq(GoodItem)
    BY <1>1, ConfFacts, OnlineGood, OfflineGood DEF Init
<1>3. served \in 0 .. NumSteps /\ reported \in Int /\ 0 \in 0 .. NumSteps
    BY TrainerAssumption DEF Init
<1>4. ByRank
    BY DEF Init, ByRank
<1>5. orders \in Seq(Seq(Spots)) /\ \A r \in Ranks : epoch[r] <= Len(orders)
    BY DEF Init
<1>6. ASSUME NEW r \in Ranks PROVE SoundRank(r)
    <2>1. pc[r] \in {"eval", "fetch", "final"} /\ (pc[r] = "fetch" => 0 < NumSteps)
        BY <1>3, OnwardSteps DEF Init
    <2>2. left[r] \in Seq(Spots)
        <3> DEFINE T == {i \in DOMAIN items : Group(i) % conf.world = r}
                   s == Positions(items)
        <3>1. left[r] = IF conf.source = "offline" THEN <<>> ELSE Select(s, T)
            BY DEF Init
        <3>2. s \in Seq(Spots) /\ DOMAIN s = Spots
            <4>1. Spots = 1 .. Len(items) /\ Len(items) \in Nat
                BY <1>2 DEF Spots
            <4>2. s = [k \in Spots |-> k]
                BY DEF Positions, Spots
            <4> HIDE DEF s
            <4> QED
                BY <4>1, <4>2
        <3>3. T \subseteq Spots
            BY DEF Spots
        <3> HIDE DEF s, T
        <3> QED
            BY <3>1, <3>2, <3>3, SelectSpots
    <2>3. step[r] = 0 /\ batch[r] = <<>> /\ todo[r] = <<>> /\ split[r] = EmptySplit /\ at[r] = 0
        BY DEF Init
    <2>4. EmptySplit \in SplitOfSpots /\ EmptySplit.chunks = <<>>
        BY DEF EmptySplit, SplitOfSpots
    <2> QED
        BY <1>3, <2>1, <2>2, <2>3, <2>4 DEF SoundRank, Sound, Places, Stepping, WithBatch,
           WithChunks, AtChunk
<1> QED
    BY <1>1, <1>2, <1>3, <1>4, <1>5, <1>6 DEF SoundInv

-----------------------------------------------------------------------------
(* What a rank does on its own keeps it sound. *)

(* What is sound depends on nothing but the rank and what is trained on. *)
LEMMA SpotsSame ==
    ASSUME UNCHANGED <<conf, items>>
    PROVE  /\ Spots' = Spots /\ Ranks' = Ranks
           /\ \A p, n, l, b, t, s, a : Sound(p, n, l, b, t, s, a)' <=> Sound(p, n, l, b, t, s, a)
BY DEF Spots, Ranks, Sound, SplitOfSpots

(* Only rank r moves, and it stays sound. *)
LEMMA OneSound ==
    ASSUME SoundInv, UNCHANGED <<conf, items, served, reported>>, NEW r \in Ranks, ByRank',
           \A q \in Ranks \ {r} : /\ pc'[q] = pc[q] /\ step'[q] = step[q] /\ left'[q] = left[q]
                                  /\ batch'[q] = batch[q] /\ todo'[q] = todo[q]
                                  /\ split'[q] = split[q] /\ at'[q] = at[q],
           \/ UNCHANGED <<orders, epoch>>
           \/ /\ orders' \in Seq(Seq(Spots)) /\ Len(orders) <= Len(orders')
              /\ epoch' = [epoch EXCEPT ![r] = epoch'[r]] /\ epoch'[r] <= Len(orders'),
           Sound(pc'[r], step'[r], left'[r], batch'[r], todo'[r], split'[r], at'[r])
    PROVE  SoundInv'
<1>1. Spots' = Spots /\ Ranks' = Ranks
    BY SpotsSame
<1>2. \A q \in Ranks : SoundRank(q)'
    <2>1. \A q \in Ranks \ {r} :
             Sound(pc'[q], step'[q], left'[q], batch'[q], todo'[q], split'[q], at'[q])
        BY DEF SoundInv, SoundRank
    <2>2. \A q \in Ranks :
             Sound(pc'[q], step'[q], left'[q], batch'[q], todo'[q], split'[q], at'[q])
        BY <2>1
    <2> QED
        BY <2>2 DEF SoundRank, Sound, SplitOfSpots, Spots
<1>3. orders' \in Seq(Seq(Spots)) /\ \A q \in Ranks : epoch'[q] <= Len(orders')
    <2>1. orders \in Seq(Seq(Spots)) /\ epoch \in [Ranks -> Nat]
          /\ \A q \in Ranks : epoch[q] <= Len(orders)
        BY DEF SoundInv, ByRank
    <2>2. CASE UNCHANGED <<orders, epoch>>
        BY <2>1, <2>2
    <2>3. CASE ~UNCHANGED <<orders, epoch>>
        <3>1. Len(orders) \in Nat /\ Len(orders') \in Nat
            BY <2>1, <2>3
        <3> QED
            BY <2>1, <2>3, <3>1
    <2> QED
        BY <2>2, <2>3
<1> QED
    BY <1>1, <1>2, <1>3 DEF SoundInv

(* An epoch gives a rank positions of its own. *)
LEMMA OpenSound ==
    ASSUME SoundInv, NEW r \in Ranks, OpenEpoch(r)
    PROVE  SoundInv'
<1>0. /\ conf \in Confs /\ items \in Seq(GoodItem) /\ ByRank /\ SoundRank(r)
      /\ orders \in Seq(Seq(Spots)) /\ epoch[r] <= Len(orders) /\ epoch[r] \in Nat
    BY DEF SoundInv, ByRank
<1>1. PICK order \in EpochOrders(items, conf.shuffle) :
         LET drawn == Append(orders, order)
             known == IF epoch[r] < Len(orders) THEN orders ELSE drawn
             shard == Whole(Shard(known[epoch[r] + 1], r, conf.world, conf.dropLast),
                            conf.size, conf.dropLast)
         IN  /\ orders' = known
             /\ left' = [left EXCEPT ![r] = shard]
             /\ Goto(r, IF shard = <<>> THEN "raised" ELSE "fetch")
    BY DEF OpenEpoch
<1> DEFINE known == IF epoch[r] < Len(orders) THEN orders ELSE Append(orders, order)
           shard == Whole(Shard(known[epoch[r] + 1], r, conf.world, conf.dropLast),
                          conf.size, conf.dropLast)
           place == IF shard = <<>> THEN "raised" ELSE "fetch"
<1>2. /\ orders' = known /\ left' = [left EXCEPT ![r] = shard] /\ pc' = [pc EXCEPT ![r] = place]
      /\ pc[r] = "fetch" /\ epoch' = [epoch EXCEPT ![r] = @ + 1]
      /\ UNCHANGED <<conf, items, served, step, batch, todo, split, at, grad, reported>>
    BY <1>1 DEF OpenEpoch, splitVars, Goto
<1>3. order \in Seq(Spots)
    BY <1>0, OrderTyped
<1>4. /\ known \in Seq(Seq(Spots)) /\ epoch[r] + 1 \in 1 .. Len(known)
      /\ Len(orders) <= Len(known)
    <2>1. Len(orders) \in Nat
        BY <1>0
    <2>2. Append(orders, order) \in Seq(Seq(Spots)) /\ Len(Append(orders, order)) = Len(orders) + 1
        BY <1>0, <1>3
    <2>3. CASE epoch[r] < Len(orders)
        BY <1>0, <2>1, <2>3
    <2>4. CASE ~(epoch[r] < Len(orders))
        <3>1. epoch[r] = Len(orders)
            BY <1>0, <2>1, <2>4
        <3> QED
            BY <2>1, <2>2, <2>4, <3>1
    <2> QED
        BY <2>3, <2>4
<1> HIDE DEF known
<1>5. shard \in Seq(Spots)
    <2>1. known[epoch[r] + 1] \in Seq(Spots)
        BY <1>4
    <2>2. r \in Nat /\ conf.world \in Nat \ {0} /\ conf.size \in Nat \ {0} /\ conf.dropLast \in BOOLEAN
        BY <1>0, ConfFacts
    <2>3. Shard(known[epoch[r] + 1], r, conf.world, conf.dropLast) \in Seq(Spots)
        BY <2>1, <2>2, ShardTyped
    <2> QED
        BY <2>2, <2>3, WholeTyped
<1> HIDE DEF shard
<1>6. place \in {"raised", "fetch"}
    OBVIOUS
<1> HIDE DEF place
<1>7. ByRank'
    <2>1. Ranks' = Ranks
        BY <1>2 DEF Ranks
    <2>2. epoch' \in [Ranks -> Nat]
        <3>1. epoch \in [Ranks -> Nat] /\ epoch[r] + 1 \in Nat
            BY <1>0 DEF ByRank
        <3> QED
            BY <1>2, <3>1
    <2> QED
        BY <1>0, <1>2, <2>1, <2>2 DEF ByRank
<1>8. pc'[r] = place /\ left'[r] = shard /\ epoch'[r] = epoch[r] + 1
    BY <1>0, <1>2 DEF ByRank
<1>9. Sound(pc'[r], step'[r], left'[r], batch'[r], todo'[r], split'[r], at'[r])
    BY <1>0, <1>2, <1>5, <1>6, <1>8 DEF SoundRank, Sound, Places, Stepping, WithBatch, WithChunks,
       AtChunk
<1>10. \A q \in Ranks \ {r} :
          /\ pc'[q] = pc[q] /\ step'[q] = step[q] /\ left'[q] = left[q]
          /\ batch'[q] = batch[q] /\ todo'[q] = todo[q]
          /\ split'[q] = split[q] /\ at'[q] = at[q]
    BY <1>0, <1>2 DEF ByRank
<1>11. /\ orders' \in Seq(Seq(Spots)) /\ Len(orders) <= Len(orders')
       /\ epoch' = [epoch EXCEPT ![r] = epoch'[r]] /\ epoch'[r] <= Len(orders')
    <2>1. Len(known) \in Nat /\ epoch[r] + 1 <= Len(known)
        BY <1>4
    <2>2. epoch' = [epoch EXCEPT ![r] = epoch[r] + 1]
        BY <1>2
    <2> QED
        BY <1>2, <1>4, <1>8, <2>1, <2>2
<1> QED
    BY <1>2, <1>7, <1>9, <1>10, <1>11, OneSound

(* A rank that only changes places, and perhaps its gradient. *)
LEMMA WalkSound ==
    ASSUME SoundInv, NEW r \in Ranks, NEW place, pc' = [pc EXCEPT ![r] = place],
           UNCHANGED <<conf, items, served, reported, step, left, orders, epoch, batch, todo, split,
                       at>>,
           grad' = [q \in Ranks |-> grad'[q]],
           place \in Places \ {"place"},
           place \in Stepping => pc[r] \in Stepping \/ step[r] < NumSteps,
           place \in WithBatch => pc[r] \in WithBatch,
           place \in WithChunks => pc[r] \in WithChunks,
           place \in AtChunk => pc[r] \in AtChunk
    PROVE  SoundInv'
<1>1. ByRank /\ SoundRank(r)
    BY DEF SoundInv
<1>2. ByRank'
    <2>1. Ranks' = Ranks
        BY DEF Ranks
    <2> QED
        BY <1>1, <2>1 DEF ByRank
<1>3. pc'[r] = place
    BY <1>1 DEF ByRank
<1>4. Sound(place, step[r], left[r], batch[r], todo[r], split[r], at[r])
    BY <1>1, MoveSound DEF SoundRank
<1>5. \A q \in Ranks \ {r} : pc'[q] = pc[q]
    BY <1>1 DEF ByRank
<1> QED
    BY <1>2, <1>3, <1>4, <1>5, OneSound

(* A batch is no longer than what is left. *)
LEMMA BatchLenBounded ==
    ASSUME SoundInv, NEW r \in Ranks
    PROVE  BatchLen(r) \in 0 .. Len(left[r])
<1> DEFINE l == left[r]
           K == {k \in DOMAIN l : Cardinality({Group(l[j]) : j \in 1 .. k}) <= conf.size}
<1>1. l \in Seq(Spots) /\ conf.size \in Nat
    BY ConfFacts DEF SoundInv, SoundRank, Sound
<1>2. BatchLen(r) = IF conf.source = "offline" THEN Smaller(conf.size, Len(l)) ELSE Cardinality(K)
    BY DEF BatchLen
<1>3. K \in SUBSET DOMAIN l
    OBVIOUS
<1> HIDE DEF K, l
<1>4. DOMAIN l = 1 .. Len(l) /\ Len(l) \in Nat
    BY <1>1
<1>5. IsFiniteSet(DOMAIN l) /\ Cardinality(DOMAIN l) = Len(l)
    <2> DEFINE m == Len(l)
    <2>1. m \in Nat /\ DOMAIN l = 1 .. m
        BY <1>4
    <2> HIDE DEF m
    <2>2. IsFiniteSet(1 .. m) /\ Cardinality(1 .. m) = m
        BY <2>1, FS_Interval
    <2> QED
        BY <2>1, <2>2 DEF m
<1>6. Cardinality(K) <= Len(l) /\ Cardinality(K) \in Nat
    BY <1>3, <1>5, FS_Subset, FS_CardinalityType
<1>7. Smaller(conf.size, Len(l)) \in 0 .. Len(l)
    BY <1>1, <1>4 DEF Smaller
<1> QED
    BY <1>2, <1>4, <1>6, <1>7 DEF l

(* A batch is of positions. *)
LEMMA FetchSound ==
    ASSUME SoundInv, NEW r \in Ranks, Fetch(r)
    PROVE  SoundInv'
<1> DEFINE n == BatchLen(r)
           drawn == SubSeq(left[r], 1, n)
           kept == Preprocessed(drawn)
           rest == SubSeq(left[r], n + 1, Len(left[r]))
           place == IF conf.algo.validates /\ \E k \in DOMAIN kept : Invalid(kept[k])
                    THEN "raised" ELSE IF kept = <<>> THEN "fetch" ELSE "split"
<1>0. conf \in Confs /\ ByRank /\ SoundRank(r) /\ left[r] \in Seq(Spots)
    BY DEF SoundInv, SoundRank, Sound
<1>1. /\ pc[r] = "fetch" /\ left' = [left EXCEPT ![r] = rest]
      /\ batch' = [batch EXCEPT ![r] = kept] /\ pc' = [pc EXCEPT ![r] = place]
      /\ UNCHANGED <<conf, items, served, step, epoch, orders, todo, split, at, grad, reported>>
    BY <1>0 DEF Fetch, Goto, ByRank
<1>2. n \in 0 .. Len(left[r]) /\ Len(left[r]) \in Nat
    BY <1>0, BatchLenBounded
<1> HIDE DEF n
<1>3. drawn \in Seq(Spots) /\ rest \in Seq(Spots)
    BY <1>0, <1>2
<1>4. kept \in Seq(Spots)
    <2> DEFINE T == {k \in DOMAIN drawn : items[drawn[k]].weight # 0}
    <2>1. T \subseteq DOMAIN drawn
        OBVIOUS
    <2>2. kept = IF conf.algo.drops THEN Select(drawn, T) ELSE drawn
        BY DEF Preprocessed
    <2> HIDE DEF drawn, T
    <2> QED
        BY <1>3, <2>1, <2>2, SelectSpots
<1>5. place \in {"raised", "fetch", "split"} /\ (place = "split" => kept # <<>>)
    OBVIOUS
<1> HIDE DEF kept, rest, place
<1>6. ByRank'
    <2>1. Ranks' = Ranks
        BY <1>1 DEF Ranks
    <2> QED
        BY <1>0, <1>1, <2>1 DEF ByRank
<1>7. pc'[r] = place /\ left'[r] = rest /\ batch'[r] = kept
    BY <1>0, <1>1 DEF ByRank
<1>8. Sound(pc'[r], step'[r], left'[r], batch'[r], todo'[r], split'[r], at'[r])
    BY <1>0, <1>1, <1>3, <1>4, <1>5, <1>7 DEF SoundRank, Sound, Places, Stepping, WithBatch,
       WithChunks, AtChunk
<1>9. \A q \in Ranks \ {r} :
          /\ pc'[q] = pc[q] /\ step'[q] = step[q] /\ left'[q] = left[q]
          /\ batch'[q] = batch[q] /\ todo'[q] = todo[q]
          /\ split'[q] = split[q] /\ at'[q] = at[q]
    BY <1>0, <1>1 DEF ByRank
<1> QED
    BY <1>1, <1>6, <1>8, <1>9, OneSound

(* What is to be placed is the batch in another order. *)
LEMMA SortSound ==
    ASSUME SoundInv, NEW r \in Ranks, SortBatch(r)
    PROVE  SoundInv'
<1> DEFINE widths == [k \in DOMAIN batch[r] |-> Width(items[batch[r][k]])]
<1>0. conf \in Confs /\ ByRank /\ SoundRank(r) /\ batch[r] \in Seq(Spots)
    BY DEF SoundInv, SoundRank, Sound
<1>1. PICK p \in Orders(widths) :
         todo' = [todo EXCEPT ![r] = [k \in DOMAIN batch[r] |-> batch[r][p[k]]]]
    BY DEF SortBatch
<1> DEFINE sorted == [k \in DOMAIN batch[r] |-> batch[r][p[k]]]
<1>2. /\ pc[r] = "split" /\ todo' = [todo EXCEPT ![r] = sorted]
      /\ split' = [split EXCEPT ![r] = EmptySplit] /\ at' = [at EXCEPT ![r] = 0]
      /\ pc' = [pc EXCEPT ![r] = "place"]
      /\ UNCHANGED <<conf, items, served, step, left, epoch, orders, batch, grad, reported>>
    BY <1>1 DEF SortBatch, Goto, sourceVars
<1>3. sorted \in Seq(Spots) /\ (batch[r] # <<>> => sorted # <<>>)
    <2> DEFINE b == batch[r]
    <2>1. p \in [DOMAIN b -> DOMAIN b]
        BY DEF Orders
    <2>2. b \in Seq(Spots) /\ sorted = [k \in DOMAIN b |-> b[p[k]]]
        BY <1>0
    <2> HIDE DEF b, sorted
    <2>3. DOMAIN b = 1 .. Len(b) /\ Len(b) \in Nat /\ \A k \in DOMAIN b : b[k] \in Spots
        BY <2>2
    <2>4. sorted \in Seq(Spots)
        BY <2>1, <2>2, <2>3
    <2>5. b # <<>> => 1 \in DOMAIN sorted
        BY <2>2, <2>3
    <2>6. sorted = <<>> => DOMAIN sorted = {}
        OBVIOUS
    <2> QED
        BY <2>4, <2>5, <2>6 DEF b
<1> HIDE DEF sorted
<1>4. ByRank'
    <2>1. Ranks' = Ranks
        BY <1>2 DEF Ranks
    <2> QED
        BY <1>0, <1>2, <2>1 DEF ByRank
<1>5. pc'[r] = "place" /\ todo'[r] = sorted /\ split'[r] = EmptySplit /\ at'[r] = 0
    BY <1>0, <1>2 DEF ByRank
<1>6. EmptySplit \in SplitOfSpots /\ EmptySplit.chunks = <<>>
    BY DEF EmptySplit, SplitOfSpots
<1>7. Sound(pc'[r], step'[r], left'[r], batch'[r], todo'[r], split'[r], at'[r])
    BY <1>0, <1>2, <1>3, <1>5, <1>6 DEF SoundRank, Sound, Places, Stepping, WithBatch,
       WithChunks, AtChunk
<1>8. \A q \in Ranks \ {r} :
          /\ pc'[q] = pc[q] /\ step'[q] = step[q] /\ left'[q] = left[q]
          /\ batch'[q] = batch[q] /\ todo'[q] = todo[q]
          /\ split'[q] = split[q] /\ at'[q] = at[q]
    BY <1>0, <1>2 DEF ByRank
<1> QED
    BY <1>2, <1>4, <1>7, <1>8, OneSound

(* A sequence and one more. *)
LEMMA AppendIn ==
    ASSUME NEW S, NEW s \in Seq(S), NEW e \in S
    PROVE  /\ Append(s, e) \in Seq(S) /\ Append(s, e) # <<>>
           /\ Len(Append(s, e)) = Len(s) + 1 /\ Len(s) \in Nat
OBVIOUS

(* The parts of a split. *)
LEMMA SplitFacts ==
    ASSUME NEW s \in SplitOfSpots
    PROVE  /\ s.chunks \in Seq(Seq(Spots)) /\ s.current \in Seq(Spots) /\ s.widest \in Nat
           /\ Len(s.chunks) \in Nat /\ Len(s.current) \in Nat
           /\ DOMAIN s.chunks = 1 .. Len(s.chunks)
           /\ \A k \in DOMAIN s.chunks : s.chunks[k] \in Seq(Spots)
<1>1. s.chunks \in Seq(Seq(Spots)) /\ s.current \in Seq(Spots) /\ s.widest \in Nat
    BY DEF SplitOfSpots
<1>2. \A S : \A q \in Seq(S) : /\ Len(q) \in Nat /\ DOMAIN q = 1 .. Len(q)
                               /\ \A k \in DOMAIN q : q[k] \in S
    OBVIOUS
<1> QED
    BY <1>1, <1>2

(* The item placed, and what stays of the split. *)
LEMMA PlaceIs ==
    ASSUME NEW s \in SplitOfSpots, NEW i \in Spots, NEW width \in Nat
    PROVE  /\ Place(s, i, width) \in SplitOfSpots
           /\ \/ /\ s.current # <<>>
                 /\ Place(s, i, width).chunks = Append(s.chunks, s.current)
                 /\ Place(s, i, width).current = <<i>>
              \/ /\ Place(s, i, width).chunks = s.chunks
                 /\ Place(s, i, width).current = Append(s.current, i)
<1>1. s.chunks \in Seq(Seq(Spots)) /\ s.current \in Seq(Spots) /\ s.widest \in Nat
    BY SplitFacts
<1>2. Wider(s, width) \in Nat
    BY <1>1 DEF Wider
<1>3. CASE s.current # <<>> /\ Wider(s, width) * (Len(s.current) + 1) > TokenBudget
    <2>1. Place(s, i, width) =
            [chunks |-> Append(s.chunks, s.current), current |-> <<i>>, widest |-> width]
        BY <1>3 DEF Place
    <2>2. Append(s.chunks, s.current) \in Seq(Seq(Spots))
        BY <1>1, AppendIn
    <2>3. <<i>> \in Seq(Spots)
        OBVIOUS
    <2> QED
        BY <1>3, <2>1, <2>2, <2>3 DEF SplitOfSpots
<1>4. CASE ~(s.current # <<>> /\ Wider(s, width) * (Len(s.current) + 1) > TokenBudget)
    <2>1. Place(s, i, width) =
            [chunks |-> s.chunks, current |-> Append(s.current, i), widest |-> Wider(s, width)]
        BY <1>4 DEF Place, SplitOfSpots
    <2>2. Append(s.current, i) \in Seq(Spots)
        BY <1>1, AppendIn
    <2> QED
        BY <1>1, <1>2, <2>1, <2>2 DEF SplitOfSpots
<1> QED
    BY <1>3, <1>4

(* An item placed comes from what is to be placed. *)
LEMMA PlaceSound ==
    ASSUME SoundInv, NEW r \in Ranks, PlaceItem(r)
    PROVE  SoundInv'
<1> DEFINE i == Head(todo[r])
           placed == Place(split[r], i, Width(items[i]))
<1>0. /\ conf \in Confs /\ ByRank /\ SoundRank(r) /\ todo[r] \in Seq(Spots)
      /\ split[r] \in SplitOfSpots
    BY DEF SoundInv, SoundRank, Sound
<1>1. /\ pc[r] = "place" /\ todo[r] # <<>>
      /\ split' = [split EXCEPT ![r] = placed]
      /\ todo' = [todo EXCEPT ![r] = Tail(todo[r])]
      /\ UNCHANGED <<conf, items, served, pc, step, left, epoch, orders, batch, at, grad, reported>>
    BY <1>0 DEF PlaceItem, sourceVars, ByRank
<1>2. i \in Spots /\ Tail(todo[r]) \in Seq(Spots) /\ Width(items[i]) \in Nat
    <2>1. Width(items[i]) \in Nat
        BY WidthBounded, BudgetAssumption
    <2> QED
        BY <1>0, <1>1, <2>1
<1>3. /\ placed \in SplitOfSpots
      /\ \/ /\ split[r].current # <<>>
            /\ placed.chunks = Append(split[r].chunks, split[r].current) /\ placed.current = <<i>>
         \/ /\ placed.chunks = split[r].chunks
            /\ placed.current = Append(split[r].current, i)
    <2> HIDE DEF i
    <2> QED
        BY <1>0, <1>2, PlaceIs
<1> HIDE DEF placed, i
<1>4. placed.current # <<>> /\ Len(split[r].chunks) <= Len(placed.chunks)
    <2> DEFINE c == split[r].chunks
               u == split[r].current
    <2>1. c \in Seq(Seq(Spots)) /\ u \in Seq(Spots)
        BY <1>0, SplitFacts
    <2>2. \/ placed.chunks = Append(c, u) /\ placed.current = <<i>>
          \/ placed.chunks = c /\ placed.current = Append(u, i)
        BY <1>3
    <2> HIDE DEF c, u
    <2>3. Len(Append(c, u)) = Len(c) + 1 /\ Len(c) \in Nat
        BY <2>1, AppendIn
    <2>4. Append(u, i) # <<>> /\ <<i>> # <<>>
        BY <1>2, <2>1
    <2>5. placed.current # <<>>
        BY <2>2, <2>4
    <2>6. Len(c) <= Len(placed.chunks)
        BY <2>2, <2>3
    <2> QED
        BY <2>5, <2>6 DEF c
<1>5. ByRank'
    <2>1. Ranks' = Ranks
        BY <1>1 DEF Ranks
    <2> QED
        BY <1>0, <1>1, <2>1 DEF ByRank
<1>6. split'[r] = placed /\ todo'[r] = Tail(todo[r])
    BY <1>0, <1>1 DEF ByRank
<1>7. at[r] \in 0 .. Len(placed.chunks)
    <2>1. at[r] \in 0 .. Len(split[r].chunks) /\ Len(split[r].chunks) \in Nat
          /\ Len(placed.chunks) \in Nat
        BY <1>0, <1>3, SplitFacts DEF SoundRank, Sound
    <2> QED
        BY <1>4, <2>1
<1>8. Sound(pc'[r], step'[r], left'[r], batch'[r], todo'[r], split'[r], at'[r])
    BY <1>0, <1>1, <1>2, <1>3, <1>4, <1>6, <1>7 DEF SoundRank, Sound, Places, Stepping, WithBatch,
       WithChunks, AtChunk
<1>9. \A q \in Ranks \ {r} :
          /\ pc'[q] = pc[q] /\ step'[q] = step[q] /\ left'[q] = left[q]
          /\ batch'[q] = batch[q] /\ todo'[q] = todo[q]
          /\ split'[q] = split[q] /\ at'[q] = at[q]
    BY <1>0, <1>1 DEF ByRank
<1> QED
    BY <1>1, <1>5, <1>8, <1>9, OneSound

(* A batch that is not empty leaves micro-batches. *)
LEMMA CloseSound ==
    ASSUME SoundInv, NEW r \in Ranks, CloseSplit(r)
    PROVE  SoundInv'
<1> DEFINE s == split[r]
           closed == [EmptySplit EXCEPT !.chunks = Close(s)]
<1>0. conf \in Confs /\ ByRank /\ SoundRank(r) /\ s \in SplitOfSpots
    BY DEF SoundInv, SoundRank, Sound
<1>1. /\ pc[r] = "place" /\ todo[r] = <<>>
      /\ split' = [split EXCEPT ![r] = closed] /\ at' = [at EXCEPT ![r] = 1]
      /\ pc' = [pc EXCEPT ![r] = "collate"]
      /\ UNCHANGED <<conf, items, served, step, left, epoch, orders, batch, todo, grad, reported>>
    BY DEF CloseSplit, Goto, sourceVars
<1>2. closed = [chunks |-> Close(s), current |-> <<>>, widest |-> 0]
    BY DEF EmptySplit
<1>3. s.chunks # <<>> \/ s.current # <<>>
    BY <1>0, <1>1 DEF SoundRank, Sound
<1>4. Close(s) \in Seq(Seq(Spots)) /\ Close(s) # <<>>
    <2>1. s.chunks \in Seq(Seq(Spots)) /\ s.current \in Seq(Spots)
        BY <1>0, SplitFacts
    <2> HIDE DEF s
    <2>2. Append(s.chunks, s.current) \in Seq(Seq(Spots)) /\ Append(s.chunks, s.current) # <<>>
        BY <2>1, AppendIn
    <2> QED
        BY <1>3, <2>1, <2>2 DEF Close
<1>5. closed \in SplitOfSpots /\ closed.chunks # <<>> /\ 1 \in 0 .. Len(closed.chunks)
    <2>1. closed.chunks = Close(s)
        BY <1>2
    <2>2. closed \in SplitOfSpots
        <3> DEFINE c == Close(s)
        <3>1. c \in Seq(Seq(Spots)) /\ <<>> \in Seq(Spots)
            BY <1>4
        <3>2. closed = [chunks |-> c, current |-> <<>>, widest |-> 0]
            BY <1>2
        <3> HIDE DEF c, closed
        <3> QED
            BY <3>1, <3>2 DEF SplitOfSpots
    <2>3. Len(Close(s)) \in Nat /\ Len(Close(s)) # 0
        <3> DEFINE c == Close(s)
        <3> HIDE DEF c
        <3>1. \A S : \A q \in Seq(S) : Len(q) \in Nat /\ (q # <<>> => Len(q) # 0)
            OBVIOUS
        <3>2. c \in Seq(Seq(Spots)) /\ c # <<>>
            BY <1>4 DEF c
        <3> QED
            BY <3>1, <3>2 DEF c
    <2> HIDE DEF closed
    <2> QED
        BY <1>4, <2>1, <2>2, <2>3
<1> HIDE DEF closed
<1>6. ByRank'
    <2>1. Ranks' = Ranks
        BY <1>1 DEF Ranks
    <2> QED
        BY <1>0, <1>1, <2>1 DEF ByRank
<1>7. pc'[r] = "collate" /\ split'[r] = closed /\ at'[r] = 1
    BY <1>0, <1>1 DEF ByRank
<1>8. Sound(pc'[r], step'[r], left'[r], batch'[r], todo'[r], split'[r], at'[r])
    <2>1. /\ step[r] \in 0 .. NumSteps /\ left[r] \in Seq(Spots) /\ batch[r] \in Seq(Spots)
          /\ todo[r] \in Seq(Spots) /\ step[r] < NumSteps /\ batch[r] # <<>>
        BY <1>0, <1>1 DEF SoundRank, Sound, Stepping, WithBatch
    <2>2. step'[r] = step[r] /\ left'[r] = left[r] /\ batch'[r] = batch[r] /\ todo'[r] = todo[r]
        BY <1>1
    <2> QED
        BY <1>5, <1>7, <2>1, <2>2 DEF Sound, Places
<1>9. \A q \in Ranks \ {r} :
          /\ pc'[q] = pc[q] /\ step'[q] = step[q] /\ left'[q] = left[q]
          /\ batch'[q] = batch[q] /\ todo'[q] = todo[q]
          /\ split'[q] = split[q] /\ at'[q] = at[q]
    BY <1>0, <1>1 DEF ByRank
<1> QED
    BY <1>1, <1>6, <1>8, <1>9, OneSound

(* After a micro-batch the next one, if there is one. *)
LEMMA BackwardSound ==
    ASSUME SoundInv, NEW r \in Ranks, Backward(r)
    PROVE  SoundInv'
<1> DEFINE last == at[r] = Len(Chunks(r))
<1>0. /\ conf \in Confs /\ ByRank /\ SoundRank(r)
      /\ at[r] \in 0 .. Len(Chunks(r)) /\ Len(Chunks(r)) \in Nat
    BY DEF SoundInv, SoundRank, Sound, SplitOfSpots, Chunks
<1>1. pc[r] = "backward"
        /\ UNCHANGED <<conf, items, served, step, left, epoch, orders, batch, todo, split, reported>>
    BY DEF Backward, sourceVars
<1>2. \/ pc' = [pc EXCEPT ![r] = "raised"] /\ UNCHANGED <<grad, at>>
      \/ /\ grad' = [grad EXCEPT ![r] = grad'[r]]
         /\ at' = [at EXCEPT ![r] = IF last THEN at[r] ELSE at[r] + 1]
         /\ pc' = [pc EXCEPT ![r] = IF last THEN "reduce" ELSE "collate"]
    <2> DEFINE more == Scaled(grad[r], Chunk(r), Rows(Chunk(r), step[r]), Len(batch[r]))
    <2>1. \/ pc' = [pc EXCEPT ![r] = "raised"] /\ UNCHANGED <<grad, at>>
          \/ /\ grad' = [grad EXCEPT ![r] = more]
             /\ at' = [at EXCEPT ![r] = IF last THEN at[r] ELSE at[r] + 1]
             /\ pc' = [pc EXCEPT ![r] = IF last THEN "reduce" ELSE "collate"]
        BY Zenon DEF Backward, Goto
    <2> HIDE DEF last, more
    <2>2. grad = [q \in Ranks |-> grad[q]]
        BY <1>0 DEF ByRank
    <2> QED
        BY <2>1, <2>2
<1> HIDE DEF last
<1>3. ByRank'
    <2>1. Ranks' = Ranks
        BY <1>1 DEF Ranks
    <2> QED
        BY <1>0, <1>1, <1>2, <2>1 DEF ByRank
<1>4. \/ pc'[r] = "raised" /\ at'[r] = at[r]
      \/ pc'[r] = "reduce" /\ at'[r] = at[r]
      \/ pc'[r] = "collate" /\ at'[r] = at[r] + 1 /\ at[r] # Len(Chunks(r))
    BY <1>0, <1>2 DEF ByRank, last
<1>5. at'[r] \in 0 .. Len(Chunks(r)) /\ (pc'[r] = "collate" => at'[r] # 0)
    BY <1>0, <1>4
<1>6. Sound(pc'[r], step'[r], left'[r], batch'[r], todo'[r], split'[r], at'[r])
    BY <1>0, <1>1, <1>4, <1>5 DEF SoundRank, Sound, Places, Stepping, WithBatch, WithChunks,
       AtChunk, Chunks
<1>7. \A q \in Ranks \ {r} :
          /\ pc'[q] = pc[q] /\ step'[q] = step[q] /\ left'[q] = left[q]
          /\ batch'[q] = batch[q] /\ todo'[q] = todo[q]
          /\ split'[q] = split[q] /\ at'[q] = at[q]
    BY <1>0, <1>1, <1>2 DEF ByRank
<1> QED
    BY <1>1, <1>3, <1>6, <1>7, OneSound

(* A step counts once. *)
LEMMA UpdateSound ==
    ASSUME SoundInv, NEW r \in Ranks, Update(r)
    PROVE  SoundInv'
<1> DEFINE place == Onward(0, step[r] + 1)
<1>0. conf \in Confs /\ ByRank /\ SoundRank(r) /\ step[r] \in 0 .. NumSteps
    BY DEF SoundInv, SoundRank, Sound
<1>1. /\ pc[r] = "update" /\ step' = [step EXCEPT ![r] = step[r] + 1]
      /\ grad' = [grad EXCEPT ![r] = NoGrad] /\ pc' = [pc EXCEPT ![r] = place]
      /\ UNCHANGED <<conf, items, served, left, epoch, orders, batch, todo, split, at, reported>>
    BY <1>0 DEF Update, Goto, sourceVars, splitVars, ByRank
<1>2. step[r] + 1 \in 0 .. NumSteps
    BY <1>0, <1>1, TrainerAssumption DEF SoundRank, Sound, Stepping
<1>3. /\ place \in {"state", "save", "stats", "eval", "fetch", "final"}
      /\ place = "fetch" => step[r] + 1 < NumSteps
    BY <1>2, OnwardSteps
<1> HIDE DEF place
<1>4. ByRank'
    <2>1. Ranks' = Ranks
        BY <1>1 DEF Ranks
    <2> QED
        BY <1>0, <1>1, <2>1 DEF ByRank
<1>5. pc'[r] = place /\ step'[r] = step[r] + 1
    BY <1>0, <1>1 DEF ByRank
<1>6. Sound(pc'[r], step'[r], left'[r], batch'[r], todo'[r], split'[r], at'[r])
    BY <1>0, <1>1, <1>2, <1>3, <1>5 DEF SoundRank, Sound, Places, Stepping, WithBatch, WithChunks,
       AtChunk
<1>7. \A q \in Ranks \ {r} :
          /\ pc'[q] = pc[q] /\ step'[q] = step[q] /\ left'[q] = left[q]
          /\ batch'[q] = batch[q] /\ todo'[q] = todo[q]
          /\ split'[q] = split[q] /\ at'[q] = at[q]
    BY <1>0, <1>1 DEF ByRank
<1> QED
    BY <1>1, <1>4, <1>6, <1>7, OneSound

(* Whatever a rank does on its own. *)
LEMMA AloneSound ==
    ASSUME SoundInv, NEW r \in Ranks, Alone(r)
    PROVE  SoundInv'
<1>1. grad = [q \in Ranks |-> grad[q]]
    BY DEF SoundInv, ByRank
<1>2. CASE RunOut(r)
    <2>1. /\ pc' = [pc EXCEPT ![r] = "final"]
          /\ UNCHANGED <<conf, items, served, reported, step, left, orders, epoch, batch, todo,
                         split, at, grad>>
        BY <1>2 DEF RunOut, Goto, sourceVars, splitVars
    <2>2. /\ "final" \in Places \ {"place"} /\ "final" \notin Stepping
          /\ "final" \notin WithBatch /\ "final" \notin WithChunks /\ "final" \notin AtChunk
        BY DEF Places, Stepping, WithBatch, WithChunks, AtChunk
    <2>3. grad' = [q \in Ranks |-> grad'[q]]
        BY <1>1, <2>1
    <2> QED
        BY <2>1, <2>2, <2>3, WalkSound
<1>3. CASE CollateChunk(r)
    <2> DEFINE place == IF CollateRaises(Truncated(Chunk(r))) THEN "raised" ELSE "forward"
    <2>1. /\ pc[r] = "collate" /\ pc' = [pc EXCEPT ![r] = place]
          /\ UNCHANGED <<conf, items, served, reported, step, left, orders, epoch, batch, todo,
                         split, at, grad>>
        BY <1>3 DEF CollateChunk, Goto, sourceVars, splitVars
    <2>2. place \in {"raised", "forward"}
        OBVIOUS
    <2> HIDE DEF place
    <2>3. /\ place \in Places \ {"place"} /\ pc[r] \in Stepping
          /\ pc[r] \in WithBatch /\ pc[r] \in WithChunks /\ pc[r] \in AtChunk
        BY <2>1, <2>2 DEF Places, Stepping, WithBatch, WithChunks, AtChunk
    <2>4. grad' = [q \in Ranks |-> grad'[q]]
        BY <1>1, <2>1
    <2> QED
        BY <2>1, <2>3, <2>4, WalkSound
<1> QED
    BY <1>2, <1>3, OpenSound, FetchSound, SortSound, PlaceSound, CloseSound, BackwardSound,
       UpdateSound DEF Alone

-----------------------------------------------------------------------------
(* Sums over sequences *)

(* What C gives for the positions in q, in all. *)
Total(C, q) == SumFunction([k \in DOMAIN q |-> C[q[k]]])

SpotFunctions == [Spots -> Int]

(* It is an integer. *)
LEMMA TotalInt ==
    ASSUME NEW S, NEW C \in [S -> Int], NEW q \in Seq(S)
    PROVE  Total(C, q) \in Int
<1>1. DOMAIN q = 1 .. Len(q) /\ Len(q) \in Nat /\ \A k \in DOMAIN q : q[k] \in S
    OBVIOUS
<1>2. IsFiniteSet(DOMAIN q)
    BY <1>1, FS_Interval
<1> DEFINE f == [k \in DOMAIN q |-> C[q[k]]]
<1>3. DOMAIN f = DOMAIN q /\ \A k \in DOMAIN f : f[k] \in Int
    BY <1>1
<1> HIDE DEF f
<1>4. SumFunction(f) \in Int
    BY <1>2, <1>3, SumOver
<1> QED
    BY <1>4 DEF Total, f

(* A sum of positive numbers is positive. *)
LEMMA SumUnits ==
    ASSUME NEW f, NEW S, IsFiniteSet(S), S # {}, \A x \in S : f[x] \in Nat \ {0}
    PROVE  SumFunctionOnSet(f, S) \in Nat \ {0}
<1> DEFINE Bad == {T \in SUBSET S : T # {} /\ SumFunctionOnSet(f, T) \notin Nat \ {0}}
<1> SUFFICES ASSUME Bad # {} PROVE FALSE
    OBVIOUS
<1>1. PICK T \in Bad : IsFiniteSet(T) /\ \A x \in T : T \ {x} \notin Bad
    <2>1. Bad \in SUBSET SUBSET S
        OBVIOUS
    <2> HIDE DEF Bad
    <2> QED
        BY <2>1, SmallestException
<1>2. T \in SUBSET S /\ T # {} /\ SumFunctionOnSet(f, T) \notin Nat \ {0}
    OBVIOUS
<1>3. PICK x \in T : TRUE
    BY <1>2
<1>4. SumFunctionOnSet(f, T) = f[x] + SumFunctionOnSet(f, T \ {x})
    BY <1>1, <1>2, SumRemove
<1>5. SumFunctionOnSet(f, T \ {x}) \in Nat
    <2>1. CASE T \ {x} = {}
        BY <2>1, SumEmpty
    <2>2. CASE T \ {x} # {}
        BY <1>1, <1>2, <2>2
    <2> QED
        BY <2>1, <2>2
<1>6. f[x] \in Nat \ {0}
    BY <1>2
<1> QED
    BY <1>2, <1>4, <1>5, <1>6

-----------------------------------------------------------------------------
(* The other steps keep the ranks sound. *)

(* Ranks that only change places. *)
LEMMA AllSound ==
    ASSUME SoundInv, UNCHANGED <<conf, items, step, left, orders, epoch, batch, todo, split, at>>,
           served' \in 0 .. NumSteps, reported' \in Int,
           pc' = [r \in Ranks |-> pc'[r]], grad' = [r \in Ranks |-> grad'[r]],
           \A r \in Ranks :
              \/ pc'[r] = pc[r]
              \/ /\ pc'[r] \in Places \ {"place"}
                 /\ pc'[r] \in Stepping => pc[r] \in Stepping \/ step[r] < NumSteps
                 /\ pc'[r] \in WithBatch => pc[r] \in WithBatch
                 /\ pc'[r] \in WithChunks => pc[r] \in WithChunks
                 /\ pc'[r] \in AtChunk => pc[r] \in AtChunk
    PROVE  SoundInv'
<1>1. Spots' = Spots /\ Ranks' = Ranks
    BY SpotsSame
<1>2. ByRank'
    BY <1>1 DEF SoundInv, ByRank
<1>3. ASSUME NEW r \in Ranks PROVE SoundRank(r)'
    <2>1. Sound(pc'[r], step[r], left[r], batch[r], todo[r], split[r], at[r])
        <3>1. Sound(pc[r], step[r], left[r], batch[r], todo[r], split[r], at[r])
            BY DEF SoundInv, SoundRank
        <3> QED
            BY <3>1, MoveSound
    <2> QED
        BY <2>1 DEF SoundRank, Sound, SplitOfSpots, Spots
<1> QED
    BY <1>1, <1>2, <1>3 DEF SoundInv

(* The places a rank may go on to after n steps. *)
LEMMA OnwardSound ==
    ASSUME SoundInv, NEW r \in Ranks, NEW k \in 0 .. 4, pc[r] \in WithChunks \/ k >= 3,
           NEW q, q = Onward(k, step[r])
    PROVE  /\ q \in Places \ {"place"}
           /\ q \in Stepping => step[r] < NumSteps
           /\ q \in WithBatch => pc[r] \in WithBatch
           /\ q \in WithChunks => pc[r] \in WithChunks
           /\ q \notin AtChunk
<1>1. step[r] \in 0 .. NumSteps
    BY DEF SoundInv, SoundRank, Sound
<1> QED
    BY <1>1, OnwardSteps DEF Places, Stepping, WithBatch, WithChunks, AtChunk

(* Whatever only rank 0 does. *)
LEMMA PrimarySound ==
    ASSUME SoundInv, Primary
    PROVE  SoundInv'
<1>0. /\ conf \in Confs /\ 0 \in Ranks /\ pc = [r \in Ranks |-> pc[r]]
      /\ grad = [r \in Ranks |-> grad[r]] /\ served \in 0 .. NumSteps /\ reported \in Int
      /\ step[0] \in 0 .. NumSteps
    <2>1. conf \in Confs /\ 0 \in Ranks
        BY ConfFacts DEF SoundInv
    <2> QED
        BY <2>1 DEF SoundInv, ByRank, SoundRank, Sound
<1>1. /\ UNCHANGED <<conf, items, step, left, orders, epoch, batch, todo, split, at, grad, reported>>
      /\ served' = served \/ served' = step[0]
    BY DEF Primary, Publish, WriteModel, WriteRest, Evaluate, sourceVars, splitVars
<1>2. \E q \in Places \ {"place"} :
         /\ pc' = [pc EXCEPT ![0] = q]
         /\ q \in Stepping => step[0] < NumSteps
         /\ q \in WithBatch => pc[0] \in WithBatch
         /\ q \in WithChunks => pc[0] \in WithChunks
         /\ q \notin AtChunk
    <2>1. CASE Publish
        <3> DEFINE q == Onward(1, step[0])
        <3>1. pc[0] = "publish" /\ pc' = [pc EXCEPT ![0] = q]
            BY <2>1 DEF Publish, Goto
        <3>2. pc[0] \in WithChunks /\ 1 \in 0 .. 4
            BY <3>1 DEF WithChunks
        <3>3. q = Onward(1, step[0])
            OBVIOUS
        <3> HIDE DEF q
        <3>4. /\ q \in Places \ {"place"}
              /\ q \in Stepping => step[0] < NumSteps
              /\ q \in WithBatch => pc[0] \in WithBatch
              /\ q \in WithChunks => pc[0] \in WithChunks
              /\ q \notin AtChunk
            BY <1>0, <3>2, <3>3, OnwardSound
        <3> QED
            BY <3>1, <3>4
    <2>2. CASE Evaluate
        <3>1. pc' = [pc EXCEPT ![0] = "leave"]
            BY <2>2 DEF Evaluate, Goto
        <3>2. /\ "leave" \in Places \ {"place"} /\ "leave" \notin Stepping
              /\ "leave" \notin WithBatch /\ "leave" \notin WithChunks /\ "leave" \notin AtChunk
            BY DEF Places, Stepping, WithBatch, WithChunks, AtChunk
        <3> QED
            BY <3>1, <3>2
    <2>3. ASSUME NEW save \in {Saving, SavingLast}, WriteModel(save)
          PROVE  \E q \in Places \ {"place"} :
                    /\ pc' = [pc EXCEPT ![0] = q]
                    /\ q \in Stepping => step[0] < NumSteps
                    /\ q \in WithBatch => pc[0] \in WithBatch
                    /\ q \in WithChunks => pc[0] \in WithChunks
                    /\ q \notin AtChunk
        <3>1. pc[0] = save.model /\ pc' = [pc EXCEPT ![0] = save.optimizer]
            BY <2>3 DEF WriteModel, Goto
        <3>2. \/ save.model = "model" /\ save.optimizer = "optimizer"
              \/ save.optimizer = "last_optimizer"
            BY DEF Saving, SavingLast
        <3> QED
            BY <3>1, <3>2 DEF Places, Stepping, WithBatch, WithChunks, AtChunk
    <2>4. ASSUME NEW save \in {Saving, SavingLast}, WriteRest(save)
          PROVE  \E q \in Places \ {"place"} :
                    /\ pc' = [pc EXCEPT ![0] = q]
                    /\ q \in Stepping => step[0] < NumSteps
                    /\ q \in WithBatch => pc[0] \in WithBatch
                    /\ q \in WithChunks => pc[0] \in WithChunks
                    /\ q \notin AtChunk
        <3>1. pc[0] = save.rest /\ pc' = [pc EXCEPT ![0] = Saved(save, 0)]
            BY <2>4 DEF WriteRest, Goto
        <3>2. CASE save = Saving
            <4> DEFINE q == Saved(save, 0)
            <4>1. pc[0] = "rest" /\ q = Onward(2, step[0])
                BY <3>1, <3>2 DEF Saved, Saving
            <4>2. pc[0] \in WithChunks /\ 2 \in 0 .. 4
                BY <4>1 DEF WithChunks
            <4>3. pc' = [pc EXCEPT ![0] = q]
                BY <3>1
            <4> HIDE DEF q
            <4>4. /\ q \in Places \ {"place"}
                  /\ q \in Stepping => step[0] < NumSteps
                  /\ q \in WithBatch => pc[0] \in WithBatch
                  /\ q \in WithChunks => pc[0] \in WithChunks
                  /\ q \notin AtChunk
                BY <1>0, <4>1, <4>2, OnwardSound
            <4> QED
                BY <4>3, <4>4
        <3>3. CASE save = SavingLast
            <4>1. Saved(save, 0) = "returned"
                BY <3>3 DEF Saved, Saving, SavingLast
            <4> QED
                BY <3>1, <4>1 DEF Places, Stepping, WithBatch, WithChunks, AtChunk
        <3> QED
            BY <3>2, <3>3
    <2> QED
        BY <2>1, <2>2, <2>3, <2>4 DEF Primary
<1>3. PICK q \in Places \ {"place"} :
         /\ pc' = [pc EXCEPT ![0] = q]
         /\ q \in Stepping => step[0] < NumSteps
         /\ q \in WithBatch => pc[0] \in WithBatch
         /\ q \in WithChunks => pc[0] \in WithChunks
         /\ q \notin AtChunk
    BY <1>2
<1>4. pc' = [r \in Ranks |-> pc'[r]] /\ grad' = [r \in Ranks |-> grad'[r]]
    BY <1>0, <1>1, <1>3
<1>5. \A r \in Ranks : pc'[r] = pc[r] \/ (r = 0 /\ pc'[r] = q)
    BY <1>0, <1>3
<1>6. served' \in 0 .. NumSteps /\ reported' \in Int
    BY <1>0, <1>1
<1> QED
    BY <1>1, <1>3, <1>4, <1>5, <1>6, AllSound

(* Numbers of items: a batch that is not empty has some, and so have the     *)
(* micro-batches of a rank.                                                  *)
LEMMA StatsSound ==
    ASSUME SoundInv, BudgetInv, AllAt("stats")
    PROVE  ReducedMean \in Int
<1>0. /\ conf \in Confs /\ 0 \in Ranks /\ IsFiniteSet(Ranks) /\ items \in Seq(GoodItem)
    BY ConfFacts DEF SoundInv
<1>1. ASSUME NEW r \in Ranks
      PROVE  /\ batch[r] \in Seq(Spots) /\ batch[r] # <<>> /\ Len(batch[r]) \in Nat \ {0}
             /\ Chunks(r) \in Seq(Seq(Spots)) /\ Chunks(r) # <<>>
             /\ \A k \in DOMAIN Chunks(r) : Chunks(r)[k] # <<>>
    <2>1. pc[r] \in WithChunks /\ pc[r] \in WithBatch
        BY <1>1 DEF AllAt, WithChunks, WithBatch
    <2>2. batch[r] \in Seq(Spots) /\ batch[r] # <<>> /\ split[r] \in SplitOfSpots
          /\ Chunks(r) # <<>>
        BY <2>1 DEF SoundInv, SoundRank, Sound, Chunks
    <2>3. Len(batch[r]) \in Nat \ {0}
        <3> DEFINE b == batch[r]
        <3>1. b \in Seq(Spots) /\ b # <<>>
            BY <2>2
        <3> HIDE DEF b
        <3>2. Len(b) \in Nat \ {0}
            BY <3>1
        <3> QED
            BY <3>2 DEF b
    <2>4. Chunks(r) \in Seq(Seq(Spots))
        BY <2>2, SplitFacts DEF Chunks
    <2>5. \A k \in DOMAIN Chunks(r) : Chunks(r)[k] # <<>>
        BY DEF BudgetInv, WithinBudget, Fits, Chunks
    <2> QED
        BY <2>2, <2>3, <2>4, <2>5
<1>2. ASSUME NEW seq \in Seq(Spots) PROVE WeightSum(seq) \in Int
    <2> DEFINE f == [k \in DOMAIN seq |-> items[seq[k]].weight]
    <2>1. \A i \in Spots : items[i].weight \in Int
        <3>1. \A i \in Spots : items[i] \in GoodItem
            BY <1>0 DEF Spots
        <3> QED
            BY <3>1 DEF GoodItem, Item
    <2>2. DOMAIN seq = 1 .. Len(seq) /\ Len(seq) \in Nat /\ \A k \in DOMAIN seq : seq[k] \in Spots
        OBVIOUS
    <2>3. IsFiniteSet(DOMAIN seq)
        BY <2>2, FS_Interval
    <2>4. DOMAIN f = DOMAIN seq /\ \A k \in DOMAIN f : f[k] \in Int
        BY <2>1, <2>2
    <2> HIDE DEF f
    <2>5. SumFunction(f) \in Int
        BY <2>3, <2>4, SumOver
    <2> QED
        BY <2>5 DEF WeightSum, f
<1>3. ASSUME NEW r \in Ranks PROVE LocalMean(r) \in Int
    <2> DEFINE c == Chunks(r)
               f == [k \in DOMAIN c |->
                       ((Fine * WeightSum(c[k])) \div Len(c[k])) * Len(c[k])]
               g == [k \in DOMAIN c |-> Len(c[k])]
    <2>1. LocalMean(r) = SumFunction(f) \div SumFunction(g)
        BY DEF LocalMean
    <2>2. /\ c \in Seq(Seq(Spots)) /\ c # <<>>
          /\ \A k \in DOMAIN c : c[k] # <<>>
        BY <1>1
    <2> HIDE DEF c
    <2>3. DOMAIN c = 1 .. Len(c) /\ Len(c) \in Nat /\ Len(c) # 0
          /\ \A k \in DOMAIN c : c[k] \in Seq(Spots)
        <3>1. \A S : \A q \in Seq(S) : /\ DOMAIN q = 1 .. Len(q) /\ Len(q) \in Nat
                                       /\ (q # <<>> => Len(q) # 0)
                                       /\ \A k \in DOMAIN q : q[k] \in S
            OBVIOUS
        <3> QED
            BY <2>2, <3>1
    <2>4. DOMAIN c # {} /\ IsFiniteSet(DOMAIN c)
        <3> DEFINE m == Len(c)
        <3>1. m \in Nat /\ m # 0 /\ DOMAIN c = 1 .. m
            BY <2>3
        <3> HIDE DEF m
        <3>2. IsFiniteSet(1 .. m) /\ 1 \in 1 .. m
            BY <3>1, FS_Interval
        <3> QED
            BY <3>1, <3>2
    <2>5. ASSUME NEW k \in DOMAIN c
          PROVE  /\ Len(c[k]) \in Nat \ {0}
                 /\ ((Fine * WeightSum(c[k])) \div Len(c[k])) * Len(c[k]) \in Int
        <3> DEFINE n == Len(c[k])
                   w == WeightSum(c[k])
        <3>1. n \in Nat \ {0}
            <4>1. c[k] \in Seq(Spots) /\ c[k] # <<>>
                BY <2>2, <2>3
            <4> QED
                BY <4>1
        <3>2. w \in Int
            BY <1>2, <2>3
        <3> HIDE DEF n, w
        <3>3. (Fine * w) \div n \in Int
            BY <3>1, <3>2, Products DEF Fine
        <3>4. ((Fine * w) \div n) * n \in Int
            BY <3>1, <3>3, Products
        <3> QED
            BY <3>1, <3>4 DEF n, w
    <2>6. /\ DOMAIN f = DOMAIN c /\ \A k \in DOMAIN f : f[k] \in Int
          /\ DOMAIN g = DOMAIN c /\ \A k \in DOMAIN g : g[k] \in Nat \ {0}
        BY <2>5
    <2> HIDE DEF f, g
    <2>7. SumFunction(f) \in Int
        BY <2>4, <2>6, SumOver
    <2>8. SumFunction(g) \in Nat \ {0}
        <3>1. SumFunctionOnSet(g, DOMAIN c) \in Nat \ {0}
            BY <2>4, <2>6, SumUnits
        <3> QED
            BY <2>6, <3>1 DEF SumFunction
    <2> QED
        BY <2>1, <2>7, <2>8, Products
<1>4. ReducedMean \in Int
    <2> DEFINE f == [r \in Ranks |-> LocalMean(r) * Len(batch[r])]
               g == [r \in Ranks |-> Len(batch[r])]
    <2>1. /\ DOMAIN f = Ranks /\ DOMAIN g = Ranks
          /\ \A r \in Ranks : f[r] \in Int /\ g[r] \in Nat \ {0}
        <3>1. \A r \in Ranks : LocalMean(r) * Len(batch[r]) \in Int
            BY <1>1, <1>3, Products
        <3> QED
            BY <1>1, <3>1
    <2>2. ReducedMean = SumFunction(f) \div SumFunction(g)
        BY DEF ReducedMean
    <2> HIDE DEF f, g
    <2>3. SumFunction(f) \in Int
        BY <1>0, <2>1, SumOver
    <2>4. SumFunction(g) \in Nat \ {0}
        <3>1. SumFunctionOnSet(g, Ranks) \in Nat \ {0}
            BY <1>0, <2>1, SumUnits
        <3> QED
            BY <2>1, <3>1 DEF SumFunction
    <2> QED
        BY <2>2, <2>3, <2>4, Products
<1> QED
    BY <1>4

(* Whatever the ranks do together. *)
LEMMA CollectiveSound ==
    ASSUME SoundInv, BudgetInv, Collective
    PROVE  SoundInv'
<1>0. /\ conf \in Confs /\ 0 \in Ranks /\ grad = [r \in Ranks |-> grad[r]]
      /\ served \in 0 .. NumSteps /\ reported \in Int
      /\ \A r \in Ranks : step[r] \in 0 .. NumSteps
    BY ConfFacts DEF SoundInv, ByRank, SoundRank, Sound
<1>1. UNCHANGED <<conf, items, served, step, left, orders, epoch, batch, todo, split, at>>
    BY DEF Collective, Forward, ReduceGradients, ReduceNorm, GatherState, GatherModel,
       GatherOptimizer, ReduceStats, EnterEval, LeaveEval, sourceVars, splitVars
<1>2. grad' = [r \in Ranks |-> grad'[r]]
    <2>1. grad' = grad \/ grad' = [r \in Ranks |->
                    [token \in Tokens |-> SumFunction([s \in Ranks |-> grad[s][token]])]]
        BY DEF Collective, Forward, ReduceGradients, ReduceNorm, GatherState, GatherModel,
           GatherOptimizer, ReduceStats, EnterEval, LeaveEval
    <2> QED
        BY <1>0, <2>1
<1>3. reported' \in Int
    <2>1. reported' = reported \/ (AllAt("stats") /\ reported' = ReducedMean)
        BY DEF Collective, Forward, ReduceGradients, ReduceNorm, GatherState, GatherModel,
           GatherOptimizer, ReduceStats, EnterEval, LeaveEval
    <2> QED
        BY <1>0, <2>1, StatsSound
<1> DEFINE On(r) == /\ pc'[r] \in Places \ {"place"}
                    /\ pc'[r] \in Stepping => pc[r] \in Stepping \/ step[r] < NumSteps
                    /\ pc'[r] \in WithBatch => pc[r] \in WithBatch
                    /\ pc'[r] \in WithChunks => pc[r] \in WithChunks
                    /\ pc'[r] \in AtChunk => pc[r] \in AtChunk
<1>4. pc' = [r \in Ranks |-> pc'[r]] /\ \A r \in Ranks : On(r)
    <2>1. ASSUME NEW k \in 0 .. 4, NEW r \in Ranks, pc[r] \in WithChunks \/ k >= 3,
                 pc'[r] = Onward(k, step[r])
          PROVE  On(r)
        <3> DEFINE q == Onward(k, step[r])
        <3>1. q = Onward(k, step[r])
            OBVIOUS
        <3> HIDE DEF q
        <3>2. /\ q \in Places \ {"place"} /\ (q \in Stepping => step[r] < NumSteps)
              /\ (q \in WithBatch => pc[r] \in WithBatch)
              /\ (q \in WithChunks => pc[r] \in WithChunks) /\ q \notin AtChunk
            BY <2>1, <3>1, OnwardSound
        <3>3. pc'[r] = q
            BY <2>1, <3>1
        <3> QED
            BY <3>2, <3>3
    <2>2. ASSUME NEW kind, NEW next, AllAt(kind), pc' = [r \in Ranks |-> next],
                 \/ kind = "forward" /\ next = "backward"
                 \/ kind = "reduce" /\ next = "norm"
                 \/ kind = "norm" /\ next = "update"
          PROVE  pc' = [r \in Ranks |-> pc'[r]] /\ \A r \in Ranks : On(r)
        <3>1. \A r \in Ranks : pc[r] = kind /\ pc'[r] = next
            BY <2>2 DEF AllAt
        <3> QED
            BY <2>2, <3>1 DEF Places, Stepping, WithBatch, WithChunks, AtChunk
    <2>3. ASSUME NEW kind, NEW first, NEW k \in 0 .. 4, NEW rest, AllAt(kind),
                 pc' = [r \in Ranks |-> IF r = 0 THEN first ELSE rest[r]],
                 \A r \in Ranks : rest[r] = Onward(k, step[r]),
                 \/ kind = "state" /\ first = "publish"
                 \/ kind = "optimizer" /\ first = "rest"
          PROVE  pc' = [r \in Ranks |-> pc'[r]] /\ \A r \in Ranks : On(r)
        <3>1. \A r \in Ranks : pc[r] = kind /\ pc'[r] = IF r = 0 THEN first ELSE rest[r]
            BY <2>3 DEF AllAt
        <3>2. \A r \in Ranks : pc[r] \in WithChunks
            BY <2>3, <3>1 DEF WithChunks
        <3>3. On(0)
            BY <1>0, <2>3, <3>1 DEF Places, Stepping, WithBatch, WithChunks, AtChunk
        <3>4. ASSUME NEW r \in Ranks, r # 0 PROVE On(r)
            <4>1. pc'[r] = Onward(k, step[r])
                BY <2>3, <3>1, <3>4
            <4> HIDE DEF On
            <4> QED
                BY <2>1, <3>2, <4>1
        <3> HIDE DEF On
        <3> QED
            BY <2>3, <3>3, <3>4
    <2>4. CASE Forward \/ ReduceGradients \/ ReduceNorm
        <3>1. \E kind, next : /\ AllAt(kind) /\ pc' = [r \in Ranks |-> next]
                              /\ \/ kind = "forward" /\ next = "backward"
                                 \/ kind = "reduce" /\ next = "norm"
                                 \/ kind = "norm" /\ next = "update"
            BY <2>4 DEF Forward, ReduceGradients, ReduceNorm
        <3> HIDE DEF On
        <3> QED
            BY <3>1, <2>2
    <2>5. CASE GatherState
        <3> DEFINE rest == [r \in Ranks |-> Onward(1, step[r])]
        <3>1. AllAt("state") /\ pc' = [r \in Ranks |-> IF r = 0 THEN "publish" ELSE rest[r]]
            BY <2>5 DEF GatherState
        <3>2. \A r \in Ranks : rest[r] = Onward(1, step[r])
            OBVIOUS
        <3> HIDE DEF On, rest
        <3>3. 1 \in 0 .. 4
            OBVIOUS
        <3> QED
            BY <3>1, <3>2, <3>3, <2>3
    <2>6. CASE GatherOptimizer(Saving)
        <3> DEFINE rest == [r \in Ranks |-> Onward(2, step[r])]
        <3>1. AllAt("optimizer") /\ pc' = [r \in Ranks |-> IF r = 0 THEN "rest" ELSE rest[r]]
            BY <2>6 DEF GatherOptimizer, Saving, Saved
        <3>2. \A r \in Ranks : rest[r] = Onward(2, step[r])
            OBVIOUS
        <3> HIDE DEF On, rest
        <3>3. 2 \in 0 .. 4
            OBVIOUS
        <3> QED
            BY <3>1, <3>2, <3>3, <2>3
    <2>7. CASE GatherOptimizer(SavingLast)
        <3>1. Saving # SavingLast
            <4>1. Saving.start = "save" /\ SavingLast.start = "final"
                BY DEF Saving, SavingLast
            <4> QED
                BY <4>1
        <3>2. /\ AllAt("last_optimizer")
              /\ pc' = [r \in Ranks |-> IF r = 0 THEN "last_rest" ELSE "returned"]
            BY <2>7, <3>1 DEF GatherOptimizer, SavingLast, Saved
        <3> QED
            BY <3>2 DEF AllAt, Places, Stepping, WithBatch, WithChunks, AtChunk
    <2>8. CASE GatherModel(Saving)
        <3>1. /\ AllAt("save")
              /\ pc' = [r \in Ranks |-> IF r = 0 THEN "model" ELSE "optimizer"]
            BY <2>8 DEF GatherModel, Saving
        <3> QED
            BY <3>1 DEF AllAt, Places, Stepping, WithBatch, WithChunks, AtChunk
    <2>9. CASE GatherModel(SavingLast)
        <3>1. /\ AllAt("final")
              /\ pc' = [r \in Ranks |-> IF r = 0 THEN "last_model" ELSE "last_optimizer"]
            BY <2>9 DEF GatherModel, SavingLast
        <3> QED
            BY <3>1 DEF AllAt, Places, Stepping, WithBatch, WithChunks, AtChunk
    <2>10. CASE EnterEval
        <3>1. /\ AllAt("eval")
              /\ pc' = [r \in Ranks |-> IF r = 0 THEN "evaluate" ELSE "leave"]
            BY <2>10 DEF EnterEval
        <3> QED
            BY <3>1 DEF AllAt, Places, Stepping, WithBatch, WithChunks, AtChunk
    <2>11. CASE ReduceStats
        <3>1. pc' = [r \in Ranks |-> Onward(3, step[r])] /\ 3 \in 0 .. 4
            BY <2>11 DEF ReduceStats
        <3>2. \A r \in Ranks : pc'[r] = Onward(3, step[r])
            BY <3>1
        <3> HIDE DEF On
        <3>3. \A r \in Ranks : On(r)
            BY <3>1, <3>2, <2>1
        <3> QED
            BY <3>1, <3>3
    <2>12. CASE LeaveEval
        <3>1. pc' = [r \in Ranks |-> Onward(4, step[r])] /\ 4 \in 0 .. 4
            BY <2>12 DEF LeaveEval
        <3>2. \A r \in Ranks : pc'[r] = Onward(4, step[r])
            BY <3>1
        <3> HIDE DEF On
        <3>3. \A r \in Ranks : On(r)
            BY <3>1, <3>2, <2>1
        <3> QED
            BY <3>1, <3>3
    <2> HIDE DEF On
    <2> QED
        BY <2>4, <2>5, <2>6, <2>7, <2>8, <2>9, <2>10, <2>11, <2>12 DEF Collective
<1>5. \A r \in Ranks :
          \/ pc'[r] = pc[r]
          \/ /\ pc'[r] \in Places \ {"place"}
             /\ pc'[r] \in Stepping => pc[r] \in Stepping \/ step[r] < NumSteps
             /\ pc'[r] \in WithBatch => pc[r] \in WithBatch
             /\ pc'[r] \in WithChunks => pc[r] \in WithChunks
             /\ pc'[r] \in AtChunk => pc[r] \in AtChunk
    BY <1>4
<1>6. served' \in 0 .. NumSteps
    BY <1>0, <1>1
<1> QED
    BY <1>1, <1>2, <1>3, <1>4, <1>5, <1>6, AllSound

(* Every step keeps every rank sound. *)
LEMMA SoundNext == SoundInv /\ BudgetInv /\ [Next]_vars => SoundInv'
<1> SUFFICES ASSUME SoundInv, BudgetInv, [Next]_vars PROVE SoundInv'
    OBVIOUS
<1>1. CASE UNCHANGED vars
    <2>1. SoundInv' = SoundInv
        BY <1>1 DEF vars, sourceVars, splitVars, SoundInv, ByRank, SoundRank, Sound, SplitOfSpots,
           Spots, Ranks
    <2> QED
        BY <2>1
<1> QED
    BY <1>1, AloneSound, PrimarySound, CollectiveSound DEF Next

-----------------------------------------------------------------------------
(* Sums over a batch and over its micro-batches *)

(* A total by any function that gives the same. *)
LEMMA TotalBy ==
    ASSUME NEW C, NEW q, NEW D, IsFiniteSet(D), DOMAIN q = D,
           NEW f, \A k \in D : f[k] = C[q[k]]
    PROVE  Total(C, q) = SumFunctionOnSet(f, D)
<1> DEFINE g == [k \in D |-> C[q[k]]]
<1>1. Total(C, q) = SumFunctionOnSet(g, D)
    BY DEF Total, SumFunction
<1>2. \A k \in D : g[k] = f[k]
    OBVIOUS
<1> HIDE DEF g
<1>3. SumFunctionOnSet(g, D) = SumFunctionOnSet(f, D)
    BY <1>2, SumSame
<1> QED
    BY <1>1, <1>3

(* A sum without one of its terms, as a sum over what stays. *)
LEMMA SumWithout ==
    ASSUME NEW f, NEW D, IsFiniteSet(D), \A k \in D : f[k] \in Int, NEW x \in D,
           NEW E, E = D \ {x}
    PROVE  /\ SumFunctionOnSet(f, D) = f[x] + SumFunctionOnSet(f, E)
           /\ SumFunctionOnSet(f, D) \in Int /\ SumFunctionOnSet(f, E) \in Int
<1>1. IsFiniteSet(E) /\ \A k \in E : f[k] \in Int
    BY FS_Subset
<1> QED
    BY <1>1, SumRemove, SumInt

(* A sum over the images of a one-to-one function. *)
LEMMA SumOnto ==
    ASSUME NEW D, NEW E, NEW h \in [D -> E], IsFiniteSet(D),
           \A k, l \in D : h[k] = h[l] => k = l, \A e \in E : \E k \in D : h[k] = e,
           NEW f, \A e \in E : f[e] \in Int, NEW g, \A k \in D : g[k] = f[h[k]]
    PROVE  SumFunctionOnSet(f, E) = SumFunctionOnSet(g, D)
<1> DEFINE G == [k \in D |-> f[h[k]]]
<1>1. SumFunctionOnSet(f, {h[k] : k \in D}) = SumFunctionOnSet([k \in D |-> f[h[k]]], D)
    BY SumImage
<1>2. \A k \in D : G[k] = g[k]
    OBVIOUS
<1>3. {h[k] : k \in D} = E
    OBVIOUS
<1>4. SumFunctionOnSet(f, E) = SumFunctionOnSet(G, D)
    BY <1>1, <1>3
<1> HIDE DEF G
<1>5. SumFunctionOnSet(G, D) = SumFunctionOnSet(g, D)
    BY <1>2, SumSame
<1> QED
    BY <1>4, <1>5

(* One number more. *)
LEMMA Ranges ==
    ASSUME NEW m \in Nat
    PROVE  /\ IsFiniteSet(1 .. m) /\ IsFiniteSet(1 .. m + 1)
           /\ 1 .. m = (1 .. m + 1) \ {m + 1} /\ m + 1 \in 1 .. m + 1
<1>1. \A n \in Nat : IsFiniteSet(1 .. n)
    BY FS_Interval
<1>2. m + 1 \in Nat
    OBVIOUS
<1> QED
    BY <1>1, <1>2

(* One term more. *)
LEMMA SumStep ==
    ASSUME NEW m \in Nat, NEW f, \A k \in 1 .. m + 1 : f[k] \in Int
    PROVE  /\ SumFunctionOnSet(f, 1 .. m + 1) = SumFunctionOnSet(f, 1 .. m) + f[m + 1]
           /\ SumFunctionOnSet(f, 1 .. m) \in Int
<1> DEFINE l == m + 1
           D == 1 .. m
           E == 1 .. l
<1>1. l \in E /\ E \ {l} = D /\ IsFiniteSet(E) /\ IsFiniteSet(D) /\ D \subseteq E
    BY Ranges
<1>2. \A k \in E : f[k] \in Int
    OBVIOUS
<1> HIDE DEF l, D, E
<1>3. SumFunctionOnSet(f, E) = f[l] + SumFunctionOnSet(f, E \ {l})
    BY <1>1, <1>2, SumRemove
<1>4. SumFunctionOnSet(f, D) \in Int
    BY <1>1, <1>2, SumInt
<1>5. f[l] \in Int
    BY <1>1, <1>2
<1>6. E \ {l} = D
    BY <1>1
<1>7. SumFunctionOnSet(f, E) = f[l] + SumFunctionOnSet(f, D)
    BY <1>3, <1>6, Zenon
<1>8. SumFunctionOnSet(f, E) = SumFunctionOnSet(f, D) + f[l]
    BY <1>4, <1>5, <1>7
<1> QED
    BY <1>4, <1>8 DEF l, D, E

(* A sum in another order. *)
LEMMA SumPermuted ==
    ASSUME NEW D, IsFiniteSet(D), NEW p \in [D -> D], \A k, l \in D : p[k] = p[l] => k = l,
           NEW f, \A k \in D : f[k] \in Int, NEW g, \A k \in D : g[k] = f[p[k]]
    PROVE  SumFunctionOnSet(f, D) = SumFunctionOnSet(g, D)
<1>1. p \in Injection(D, D)
    BY Fun_IsInj
<1>2. p \in Surjection(D, D)
    BY <1>1, FS_Injection
<1>3. \A t \in D : \E k \in D : p[k] = t
    BY <1>2 DEF Surjection
<1> QED
    BY <1>3, SumOnto

(* The total over nothing. *)
LEMMA TotalEmpty == ASSUME NEW C PROVE Total(C, <<>>) = 0
<1>1. DOMAIN <<>> = {}
    OBVIOUS
<1>2. DOMAIN [k \in DOMAIN <<>> |-> C[<<>>[k]]] = {}
    BY <1>1
<1> QED
    BY <1>2, SumEmpty DEF Total, SumFunction

(* The total with one more at the end. *)
LEMMA TotalAppend ==
    ASSUME NEW S, NEW C \in [S -> Int], NEW q \in Seq(S), NEW x \in S
    PROVE  Total(C, Append(q, x)) = Total(C, q) + C[x]
<1> DEFINE m == Len(q)
           a == Append(q, x)
           f == [k \in 1 .. m + 1 |-> C[a[k]]]
<1>1. /\ m \in Nat /\ DOMAIN q = 1 .. m /\ a \in Seq(S) /\ DOMAIN a = 1 .. m + 1
      /\ a[m + 1] = x /\ \A k \in 1 .. m : a[k] = q[k]
    OBVIOUS
<1>2. \A k \in 1 .. m + 1 : f[k] = C[a[k]]
    OBVIOUS
<1> HIDE DEF m, a, f
<1>3. 1 .. m \subseteq 1 .. m + 1 /\ m + 1 \in 1 .. m + 1
    BY <1>1
<1>4. \A k \in 1 .. m + 1 : f[k] \in Int
    BY <1>1, <1>2
<1>5. f[m + 1] = C[x] /\ \A k \in 1 .. m : f[k] = C[q[k]]
    BY <1>1, <1>2, <1>3
<1>6. Total(C, a) = SumFunctionOnSet(f, 1 .. m + 1)
    <2>1. IsFiniteSet(1 .. m + 1)
        BY <1>1, Ranges
    <2> QED
        BY <1>1, <1>2, <2>1, TotalBy
<1>7. Total(C, q) = SumFunctionOnSet(f, 1 .. m)
    <2>1. IsFiniteSet(1 .. m)
        BY <1>1, Ranges
    <2> QED
        BY <1>1, <1>5, <2>1, TotalBy
<1>8. SumFunctionOnSet(f, 1 .. m + 1) = SumFunctionOnSet(f, 1 .. m) + f[m + 1]
    BY <1>1, <1>4, SumStep
<1> QED
    BY <1>5, <1>6, <1>7, <1>8 DEF a

(* The total over one. *)
LEMMA TotalOne ==
    ASSUME NEW S, NEW C \in [S -> Int], NEW x \in S
    PROVE  Total(C, <<x>>) = C[x]
<1>1. <<x>> = Append(<<>>, x) /\ <<>> \in Seq(S)
    OBVIOUS
<1>2. Total(C, <<x>>) = Total(C, <<>>) + C[x]
    BY <1>1, TotalAppend
<1> QED
    BY <1>2, TotalEmpty

(* The total from its first on. *)
LEMMA TotalTail ==
    ASSUME NEW S, NEW C \in [S -> Int], NEW q \in Seq(S), q # <<>>
    PROVE  Total(C, q) = C[Head(q)] + Total(C, Tail(q))
<1> DEFINE n == Len(q) - 1
           t == Tail(q)
           D == 1 .. n
           E == 1 .. n + 1
           F == 2 .. n + 1
           f == [k \in E |-> C[q[k]]]
           h == [k \in D |-> k + 1]
           g == [k \in D |-> f[h[k]]]
<1>1. /\ n \in Nat /\ DOMAIN q = E /\ Head(q) = q[1] /\ t \in Seq(S) /\ DOMAIN t = D
      /\ \A k \in D : t[k] = q[k + 1]
    OBVIOUS
<1>2. /\ F = E \ {1} /\ 1 \in E /\ IsFiniteSet(E) /\ IsFiniteSet(D)
      /\ \A k \in D : k + 1 \in E
    <2>1. IsFiniteSet(E) /\ IsFiniteSet(D)
        BY <1>1, Ranges
    <2> QED
        BY <1>1, <2>1
<1>3. \A k \in E : f[k] = C[q[k]]
    OBVIOUS
<1>4. /\ \A k \in D : h[k] = k + 1
      /\ \A k, l \in D : h[k] = h[l] => k = l
    BY <1>1
<1>5. h \in [D -> F] /\ \A e \in F : \E k \in D : h[k] = e
    <2>1. \A k \in D : k + 1 \in F
        BY <1>1
    <2>2. \A j \in F : j - 1 \in D /\ (j - 1) + 1 = j
        BY <1>1
    <2>3. h = [k \in D |-> k + 1]
        OBVIOUS
    <2> HIDE DEF D, F, h, n
    <2> QED
        BY <1>4, <2>1, <2>2, <2>3
<1>6. g = [k \in D |-> f[h[k]]]
    OBVIOUS
<1> HIDE DEF n, t, D, E, F, f, h, g
<1>7. \A k \in E : f[k] \in Int
    BY <1>1, <1>3
<1>8. \A k \in D : g[k] = C[t[k]] /\ f[h[k]] \in Int
    BY <1>1, <1>2, <1>3, <1>4, <1>6, <1>7
<1>9. Total(C, q) = SumFunctionOnSet(f, E)
    BY <1>1, <1>2, <1>3, TotalBy
<1>10. Total(C, t) = SumFunctionOnSet(g, D)
    BY <1>1, <1>2, <1>8, TotalBy
<1>11. SumFunctionOnSet(f, E) = f[1] + SumFunctionOnSet(f, F)
    BY <1>2, <1>7, SumWithout
<1>12. SumFunctionOnSet(f, F) = SumFunctionOnSet(g, D)
    <2>1. \A k \in D : g[k] = f[h[k]]
        BY <1>6
    <2>2. \A e \in F : f[e] \in Int
        BY <1>2, <1>7
    <2> QED
        BY <1>2, <1>4, <1>5, <2>1, <2>2, SumOnto
<1>13. f[1] = C[Head(q)]
    BY <1>1, <1>2, <1>3
<1> QED
    BY <1>9, <1>10, <1>11, <1>12, <1>13 DEF t

(* The total in another order: sorting a batch by length does not matter. *)
LEMMA TotalPermuted ==
    ASSUME NEW D, IsFiniteSet(D), NEW b, DOMAIN b = D, NEW C, \A k \in D : C[b[k]] \in Int,
           NEW p \in [D -> D], \A i, j \in D : p[i] = p[j] => i = j,
           NEW q, DOMAIN q = D, \A k \in D : q[k] = b[p[k]]
    PROVE  Total(C, q) = Total(C, b)
<1> DEFINE f == [k \in D |-> C[b[k]]]
           g == [k \in D |-> f[p[k]]]
<1>1. \A k \in D : f[k] = C[b[k]]
    OBVIOUS
<1>2. \A k \in D : g[k] = f[p[k]]
    OBVIOUS
<1>3. \A k \in D : f[k] \in Int
    OBVIOUS
<1> HIDE DEF f, g
<1>4. \A k \in D : g[k] = C[q[k]]
    BY <1>1, <1>2
<1>5. Total(C, b) = SumFunctionOnSet(f, D)
    BY <1>1, TotalBy
<1>6. Total(C, q) = SumFunctionOnSet(g, D)
    BY <1>4, TotalBy
<1>7. SumFunctionOnSet(f, D) = SumFunctionOnSet(g, D)
    BY <1>2, <1>3, SumPermuted
<1> QED
    BY <1>5, <1>6, <1>7

(* An order of the positions repeats none. *)
LEMMA OrdersPermute ==
    ASSUME NEW D, D \subseteq Int, NEW widths, DOMAIN widths = D, \A k \in D : widths[k] \in Int,
           NEW p \in Orders(widths)
    PROVE  p \in [D -> D] /\ \A i, j \in D : p[i] = p[j] => i = j
<1>1. /\ p \in [D -> D]
      /\ \A i, j \in D : i < j => \/ widths[p[i]] < widths[p[j]]
                                  \/ widths[p[i]] = widths[p[j]] /\ p[i] < p[j]
    BY DEF Orders
<1>2. \A i, j \in D : p[i] = p[j] => i = j
    <2> SUFFICES ASSUME NEW i \in D, NEW j \in D, i < j, p[i] = p[j] PROVE FALSE
        OBVIOUS
    <2>1. p[i] \in D /\ widths[p[i]] \in Int /\ p[i] \in Int
        BY <1>1
    <2>2. \/ widths[p[i]] < widths[p[i]] \/ p[i] < p[i]
        BY <1>1
    <2> QED
        BY <2>1, <2>2
<1> QED
    BY <1>1, <1>2

(* What C gives for the first m of a sequence of micro-batches. *)
ChunkTotal(C, cs, m) == SumFunctionOnSet([k \in DOMAIN cs |-> Total(C, cs[k])], 1 .. m)

(* One micro-batch after the other. *)
LEMMA ChunkSums ==
    ASSUME NEW S, NEW C \in [S -> Int], NEW cs \in Seq(Seq(S))
    PROVE  /\ Len(cs) \in Nat /\ DOMAIN cs = 1 .. Len(cs)
           /\ \A k \in DOMAIN cs : cs[k] \in Seq(S) /\ Total(C, cs[k]) \in Int
           /\ \A m \in 0 .. Len(cs) : ChunkTotal(C, cs, m) \in Int
           /\ ChunkTotal(C, cs, 0) = 0
           /\ \A m \in 0 .. Len(cs) - 1 :
                 ChunkTotal(C, cs, m + 1) = ChunkTotal(C, cs, m) + Total(C, cs[m + 1])
<1> DEFINE n == Len(cs)
           f == [k \in DOMAIN cs |-> Total(C, cs[k])]
<1>1. n \in Nat /\ DOMAIN cs = 1 .. n /\ \A k \in DOMAIN cs : cs[k] \in Seq(S)
    <2>1. \A T : \A q \in Seq(T) : /\ Len(q) \in Nat /\ DOMAIN q = 1 .. Len(q)
                                   /\ \A k \in DOMAIN q : q[k] \in T
        OBVIOUS
    <2> QED
        BY <2>1
<1> HIDE DEF n
<1>2. \A k \in 1 .. n : f[k] = Total(C, cs[k]) /\ f[k] \in Int
    BY <1>1, TotalInt
<1>3. \A m : ChunkTotal(C, cs, m) = SumFunctionOnSet(f, 1 .. m)
    BY DEF ChunkTotal
<1> HIDE DEF f
<1>4. ASSUME NEW m \in 0 .. n PROVE ChunkTotal(C, cs, m) \in Int
    <2>1. IsFiniteSet(1 .. m) /\ \A k \in 1 .. m : f[k] \in Int
        BY <1>1, <1>2, FS_Interval
    <2> QED
        BY <1>3, <2>1, SumInt
<1>5. ChunkTotal(C, cs, 0) = 0
    <2>1. 1 .. 0 = {}
        OBVIOUS
    <2> QED
        BY <1>3, <2>1, SumEmpty
<1>6. ASSUME NEW m \in 0 .. n - 1
      PROVE  ChunkTotal(C, cs, m + 1) = ChunkTotal(C, cs, m) + Total(C, cs[m + 1])
    <2>1. m \in Nat /\ m + 1 \in 1 .. n /\ 1 .. m + 1 \subseteq 1 .. n
        BY <1>1
    <2>2. \A k \in 1 .. m + 1 : f[k] \in Int
        BY <1>2, <2>1
    <2>3. SumFunctionOnSet(f, 1 .. m + 1) = SumFunctionOnSet(f, 1 .. m) + f[m + 1]
        BY <2>1, <2>2, SumStep
    <2>4. f[m + 1] = Total(C, cs[m + 1])
        BY <1>2, <2>1
    <2> QED
        BY <1>3, <2>3, <2>4
<1> QED
    BY <1>1, <1>2, <1>4, <1>5, <1>6 DEF n

(* With one more micro-batch. *)
LEMMA ChunkAppend ==
    ASSUME NEW S, NEW C \in [S -> Int], NEW cs \in Seq(Seq(S)), NEW c \in Seq(S)
    PROVE  ChunkTotal(C, Append(cs, c), Len(Append(cs, c)))
             = ChunkTotal(C, cs, Len(cs)) + Total(C, c)
<1> DEFINE n == Len(cs)
           a == Append(cs, c)
<1>1. /\ n \in Nat /\ DOMAIN cs = 1 .. n /\ a \in Seq(Seq(S)) /\ Len(a) = n + 1
      /\ DOMAIN a = 1 .. n + 1 /\ a[n + 1] = c /\ \A k \in 1 .. n : a[k] = cs[k]
    <2>1. \A T : \A s \in Seq(T) : \A e \in T :
             /\ Len(s) \in Nat /\ DOMAIN s = 1 .. Len(s)
             /\ Append(s, e) \in Seq(T) /\ Len(Append(s, e)) = Len(s) + 1
             /\ DOMAIN Append(s, e) = 1 .. Len(s) + 1 /\ Append(s, e)[Len(s) + 1] = e
             /\ \A k \in 1 .. Len(s) : Append(s, e)[k] = s[k]
        OBVIOUS
    <2> QED
        BY <2>1
<1> HIDE DEF n, a
<1>2. ChunkTotal(C, a, n + 1) = ChunkTotal(C, a, n) + Total(C, c)
    <2>1. n \in 0 .. Len(a) - 1
        BY <1>1
    <2> QED
        BY <1>1, <2>1, ChunkSums
<1>3. ChunkTotal(C, a, n) = ChunkTotal(C, cs, n)
    <2> DEFINE f == [k \in DOMAIN a |-> Total(C, a[k])]
               g == [k \in DOMAIN cs |-> Total(C, cs[k])]
    <2>1. ChunkTotal(C, a, n) = SumFunctionOnSet(f, 1 .. n)
          /\ ChunkTotal(C, cs, n) = SumFunctionOnSet(g, 1 .. n)
        BY DEF ChunkTotal
    <2>2. \A k \in 1 .. n : f[k] = g[k]
        <3>1. \A k \in 1 .. n : k \in DOMAIN a /\ k \in DOMAIN cs
            BY <1>1
        <3> QED
            BY <1>1, <3>1
    <2> HIDE DEF f, g
    <2>3. IsFiniteSet(1 .. n)
        BY <1>1, FS_Interval
    <2>4. SumFunctionOnSet(f, 1 .. n) = SumFunctionOnSet(g, 1 .. n)
        BY <2>2, <2>3, SumSame
    <2> QED
        BY <2>1, <2>4
<1>4. Len(a) = n + 1
    BY <1>1
<1> QED
    BY <1>2, <1>3, <1>4 DEF n, a

-----------------------------------------------------------------------------
(* The gradient of a micro-batch *)

(* The rows of the items at the positions in q, after n steps. *)
IdealRows(q, n) == [k \in DOMAIN q |-> IdealRow(items[q[k]], n)]

(* The items at the positions are good. *)
LEMMA SpotGood ==
    ASSUME items \in Seq(GoodItem), NEW i \in Spots
    PROVE  items[i] \in GoodItem /\ i \in Nat
BY DEF Spots

(* The rows that are collated are those that training reckons with. *)
LEMMA RowsIdeal ==
    ASSUME items \in Seq(GoodItem), NEW q \in Seq(Spots), NEW n \in Nat
    PROVE  Rows(q, n) = IdealRows(q, n)
<1>1. \A k \in DOMAIN q : q[k] \in Spots
    OBVIOUS
<1>2. \A k \in DOMAIN q : Collate(Truncate(items[q[k]]), n) = IdealRow(items[q[k]], n)
    BY <1>1, SpotGood, RowIsIdeal
<1> QED
    BY <1>2, Zenon DEF Rows, IdealRows

(* A sequence. *)
LEMMA SeqFacts ==
    ASSUME NEW S, NEW q \in Seq(S)
    PROVE  /\ Len(q) \in Nat /\ DOMAIN q = 1 .. Len(q) /\ IsFiniteSet(DOMAIN q)
           /\ \A k \in DOMAIN q : q[k] \in S
           /\ \A k \in DOMAIN q : Len(q) \in Nat \ {0}
<1>1. Len(q) \in Nat /\ DOMAIN q = 1 .. Len(q) /\ \A k \in DOMAIN q : q[k] \in S
    OBVIOUS
<1>2. IsFiniteSet(DOMAIN q)
    BY <1>1, FS_Interval
<1>3. \A k \in DOMAIN q : Len(q) \in Nat \ {0}
    BY <1>1
<1> QED
    BY <1>1, <1>2, <1>3

(* The rows of a micro-batch. *)
LEMMA RowsFacts ==
    ASSUME items \in Seq(GoodItem), NEW q \in Seq(Spots), NEW n \in Nat
    PROVE  /\ DOMAIN IdealRows(q, n) = DOMAIN q /\ Len(IdealRows(q, n)) = Len(q)
           /\ \A k \in DOMAIN q : /\ IdealRows(q, n)[k] = IdealRow(items[q[k]], n)
                                  /\ IdealRows(q, n)[k].weight = items[q[k]].weight
                                  /\ items[q[k]].weight \in Int
                                  /\ items[q[k]] \in GoodItem
<1> DEFINE rows == IdealRows(q, n)
<1>1. Len(q) \in Nat /\ DOMAIN q = 1 .. Len(q) /\ \A k \in DOMAIN q : q[k] \in Spots
    BY SeqFacts
<1>2. DOMAIN rows = DOMAIN q /\ \A k \in DOMAIN q : rows[k] = IdealRow(items[q[k]], n)
    BY DEF IdealRows
<1> HIDE DEF rows
<1>3. rows = [k \in 1 .. Len(q) |-> rows[k]]
    BY <1>1 DEF rows, IdealRows
<1>4. Len(rows) = Len(q)
    BY <1>1, <1>3
<1>5. \A k \in DOMAIN q : items[q[k]] \in GoodItem
    BY <1>1, SpotGood
<1>6. \A k \in DOMAIN q : items[q[k]].weight \in Int
    BY <1>5 DEF GoodItem, Item
<1>7. \A k \in DOMAIN q : rows[k].weight = items[q[k]].weight
    BY <1>2, <1>5, IdealTyped
<1> QED
    BY <1>2, <1>4, <1>5, <1>6, <1>7 DEF rows

(* The terms of a loss. *)
LEMMA TermsFacts ==
    ASSUME conf \in Confs
    PROVE  /\ IsFiniteSet(DOMAIN conf.algo.terms)
           /\ \A k \in DOMAIN conf.algo.terms : conf.algo.terms[k] \in LossTerm
BY ConfFacts, SeqFacts

(* A product of positive numbers is positive. *)
LEMMA ProductPositive == \A a, b \in Nat \ {0} : a * b \in Nat \ {0}
<1> SUFFICES ASSUME NEW a \in Int, NEW b \in Int, a > 0, b > 0 PROVE a * b > 0
    BY Products
<1> QED
    OBVIOUS

(* An advantage, with or without a baseline, is an integer. *)
LEMMA AdvantageInt ==
    ASSUME items \in Seq(GoodItem), NEW q \in Seq(Spots), NEW n \in Nat, NEW b \in DOMAIN q,
           NEW loss
    PROVE  /\ Advantage(loss, IdealRows(q, n), b) \in Int
           /\ Divisor(loss, IdealRows(q, n)) \in Nat \ {0}
           /\ loss.kind # "baseline" =>
                 /\ Advantage(loss, IdealRows(q, n), b) = items[q[b]].weight
                 /\ Divisor(loss, IdealRows(q, n)) = Len(q)
<1> DEFINE rows == IdealRows(q, n)
<1>1. /\ DOMAIN rows = DOMAIN q /\ Len(rows) = Len(q)
      /\ \A k \in DOMAIN q : rows[k].weight = items[q[k]].weight /\ rows[k].weight \in Int
    BY RowsFacts
<1>2. Len(q) \in Nat \ {0} /\ IsFiniteSet(DOMAIN q)
    BY SeqFacts
<1> DEFINE l == Len(q)
           f == [i \in DOMAIN rows |-> rows[i].weight]
<1>3. SumFunction(f) \in Int
    <2>1. DOMAIN f = DOMAIN q /\ \A k \in DOMAIN f : f[k] \in Int
        BY <1>1
    <2> HIDE DEF f
    <2> QED
        BY <1>2, <2>1, SumOver
<1>4. /\ Advantage(loss, rows, b) = IF loss.kind = "baseline"
                                    THEN Len(rows) * rows[b].weight - SumFunction(f)
                                    ELSE rows[b].weight
      /\ Divisor(loss, rows) = IF loss.kind = "baseline" THEN Len(rows) * Len(rows) ELSE Len(rows)
    BY DEF Advantage, Divisor
<1> HIDE DEF rows, f, l
<1>5. l * rows[b].weight \in Int /\ l * l \in Nat \ {0}
    <2>1. l \in Nat \ {0} /\ l \in Int /\ rows[b].weight \in Int
        BY <1>1, <1>2 DEF l
    <2>2. l * l \in Nat \ {0}
        BY <2>1, ProductPositive
    <2> QED
        BY <2>1, <2>2, Products
<1>6. Len(rows) = l /\ rows[b].weight = items[q[b]].weight /\ rows[b].weight \in Int
    BY <1>1 DEF l
<1>7. Advantage(loss, rows, b) \in Int /\ Divisor(loss, rows) \in Nat \ {0}
    <2>1. l \in Nat \ {0}
        BY <1>2 DEF l
    <2> QED
        BY <1>3, <1>4, <1>5, <1>6, <2>1
<1> QED
    BY <1>4, <1>6, <1>7 DEF rows, l

(* The mean of what the terms push is an integer. *)
LEMMA MeanPushInt ==
    ASSUME conf \in Confs, items \in Seq(GoodItem), NEW q \in Seq(Spots), NEW n \in Nat,
           NEW b \in DOMAIN q, NEW t \in ActionTokens(IdealRow(items[q[b]], n)),
           NEW share \in Nat, NEW total \in Nat \ {0}
    PROVE  MeanPush(IdealRows(q, n), b, t, share, total) \in Int
<1> DEFINE rows == IdealRows(q, n)
           terms == conf.algo.terms
           push(k) == Push(terms[k], rows[b], Advantage(terms[k], rows, b), t)
           f == [k \in DOMAIN terms |-> (Fine * share * push(k)) \div (Divisor(terms[k], rows) * total)]
<1>1. IsFiniteSet(DOMAIN terms) /\ \A k \in DOMAIN terms : terms[k] \in LossTerm
    BY TermsFacts
<1>2. rows[b] = IdealRow(items[q[b]], n) /\ items[q[b]] \in GoodItem
    BY RowsFacts
<1>3. Width(items[q[b]]) \in Nat /\ rows[b] \in RowOf(Width(items[q[b]]))
    BY <1>2, IdealTyped
<1>4. MeanPush(rows, b, t, share, total) = SumFunction(f)
    BY Zenon DEF MeanPush
<1>5. ASSUME NEW k \in DOMAIN terms
      PROVE  (Fine * share * push(k)) \div (Divisor(terms[k], rows) * total) \in Int
    <2>1. Advantage(terms[k], rows, b) \in Int /\ Divisor(terms[k], rows) \in Nat \ {0}
        BY AdvantageInt
    <2>2. push(k) \in Int
        BY <1>1, <1>2, <1>3, <2>1, PushInt
    <2> HIDE DEF push
    <2> DEFINE d == Divisor(terms[k], rows)
    <2> HIDE DEF d
    <2>3. d * total \in Nat \ {0}
        BY <2>1 DEF d
    <2>4. Fine * share * push(k) \in Int
        BY <2>2, Products DEF Fine
    <2> QED
        BY <2>3, <2>4, Products DEF d
<1>6. DOMAIN f = DOMAIN terms /\ \A k \in DOMAIN f : f[k] \in Int
    BY <1>5
<1> HIDE DEF f
<1>7. SumFunction(f) \in Int
    BY <1>1, <1>6, SumOver
<1> QED
    BY <1>4, <1>7

(* What the b-th item of a micro-batch adds to the gradient at a token. *)
Added(q, rows, share, total, token, b) ==
    IF token[1] = q[b] /\ token[2] \in ActionTokens(rows[b])
    THEN MeanPush(rows, b, token[2], share, total) ELSE 0

(* Adding a micro-batch to a gradient leaves it one of integers. *)
LEMMA AccumulatedTyped ==
    ASSUME conf \in Confs, items \in Seq(GoodItem), NEW q \in Seq(Spots), NEW n \in Nat,
           NEW share \in Nat, NEW total \in Nat \ {0}, NEW sum \in [Tokens -> Int]
    PROVE  Accumulated(sum, q, IdealRows(q, n), share, total) \in [Tokens -> Int]
<1> DEFINE rows == IdealRows(q, n)
           f(token) == [b \in DOMAIN q |-> Added(q, rows, share, total, token, b)]
<1>1. Accumulated(sum, q, rows, share, total)
        = [token \in Tokens |-> sum[token] + SumFunction(f(token))]
    BY Zenon DEF Accumulated, Added
<1>2. ASSUME NEW token \in Tokens PROVE SumFunction(f(token)) \in Int
    <2>1. IsFiniteSet(DOMAIN q)
        BY SeqFacts
    <2>2. \A b \in DOMAIN q : Added(q, rows, share, total, token, b) \in Int
        <3> SUFFICES ASSUME NEW b \in DOMAIN q
                     PROVE  Added(q, rows, share, total, token, b) \in Int
            OBVIOUS
        <3>1. rows[b] = IdealRow(items[q[b]], n)
            BY RowsFacts
        <3>2. token[2] \in ActionTokens(rows[b]) => MeanPush(rows, b, token[2], share, total) \in Int
            BY <3>1, MeanPushInt
        <3> QED
            BY <3>2 DEF Added
    <2> DEFINE g == f(token)
    <2>3. DOMAIN g = DOMAIN q /\ \A b \in DOMAIN g : g[b] \in Int
        BY <2>2
    <2> HIDE DEF g
    <2>4. SumFunction(g) \in Int
        BY <2>1, <2>3, SumOver
    <2> QED
        BY <2>4 DEF g
<1> HIDE DEF f
<1> QED
    BY <1>1, <1>2

-----------------------------------------------------------------------------
(* The gradient is one of integers. *)

GradInv == grad \in [Ranks -> [Tokens -> Int]]

(* What is trained on stays as it is. *)
LEMMA ConfStays == [Next]_vars => UNCHANGED <<conf, items>>
BY DEF Next, vars, Alone, Primary, Collective, OpenEpoch, RunOut, Fetch, SortBatch, PlaceItem,
   CloseSplit, CollateChunk, Backward, Update, Publish, WriteModel, WriteRest, Evaluate, Forward,
   ReduceGradients, ReduceNorm, GatherState, GatherModel, GatherOptimizer, ReduceStats, EnterEval,
   LeaveEval

(* The steps that touch the gradient. *)
LEMMA GradSteps ==
    ASSUME [Next]_vars
    PROVE  \/ UNCHANGED grad
           \/ \E r \in Ranks : Backward(r)
           \/ \E r \in Ranks : Update(r)
           \/ ReduceGradients
BY DEF Next, vars, Alone, Primary, Collective, OpenEpoch, RunOut, Fetch, SortBatch, PlaceItem,
   CloseSplit, CollateChunk, Publish, WriteModel, WriteRest, Evaluate, Forward,
   ReduceNorm, GatherState, GatherModel, GatherOptimizer, ReduceStats, EnterEval,
   LeaveEval

(* There is no gradient at first. *)
LEMMA GradInit == Init => GradInv
BY DEF Init, GradInv, NoGrad

(* The micro-batch that a rank is at. *)
LEMMA ChunkFacts ==
    ASSUME SoundInv, NEW r \in Ranks, pc[r] \in AtChunk
    PROVE  /\ at[r] \in 1 .. Len(Chunks(r)) /\ Chunks(r) \in Seq(Seq(Spots))
           /\ Chunk(r) \in Seq(Spots) /\ Chunk(r) = Chunks(r)[at[r]]
           /\ batch[r] \in Seq(Spots) /\ Len(batch[r]) \in Nat \ {0}
           /\ step[r] \in Nat
<1>1. SoundRank(r)
    BY DEF SoundInv
<1>2. /\ split[r] \in SplitOfSpots /\ at[r] \in 0 .. Len(Chunks(r)) /\ at[r] # 0
      /\ step[r] \in Nat /\ batch[r] \in Seq(Spots) /\ batch[r] # <<>>
    BY <1>1 DEF SoundRank, Sound, Chunks, AtChunk, WithBatch, WithChunks
<1>3. Chunks(r) \in Seq(Seq(Spots)) /\ Len(Chunks(r)) \in Nat
    BY <1>2, SplitFacts DEF Chunks
<1>4. at[r] \in 1 .. Len(Chunks(r))
    BY <1>2, <1>3
<1>5. Chunk(r) \in Seq(Spots)
    <2> DEFINE cs == Chunks(r)
    <2>1. \A k \in 1 .. Len(cs) : cs[k] \in Seq(Spots)
        <3> HIDE DEF cs
        <3> QED
            BY <1>3, SeqFacts DEF cs
    <2> QED
        BY <1>4, <2>1 DEF Chunk
<1>6. Len(batch[r]) \in Nat \ {0}
    <2> DEFINE b == batch[r]
    <2>1. b \in Seq(Spots) /\ b # <<>>
        BY <1>2
    <2> HIDE DEF b
    <2>2. Len(b) \in Nat \ {0}
        BY <2>1
    <2> QED
        BY <2>2 DEF b
<1> QED
    BY <1>2, <1>3, <1>4, <1>5, <1>6 DEF Chunk

(* Backward on a micro-batch whose rows are what they are said to be. *)
LEMMA BackwardIs ==
    ASSUME SoundInv, NEW r \in Ranks, Backward(r)
    PROVE  \/ pc' = [pc EXCEPT ![r] = "raised"] /\ UNCHANGED <<grad, at>>
           \/ /\ grad' = [grad EXCEPT ![r] =
                            Accumulated(grad[r], Chunk(r), IdealRows(Chunk(r), step[r]),
                                        Len(Chunk(r)), Len(batch[r]))]
              /\ \/ /\ at[r] = Len(Chunks(r)) /\ UNCHANGED at
                    /\ pc' = [pc EXCEPT ![r] = "reduce"]
                 \/ /\ at[r] # Len(Chunks(r)) /\ at' = [at EXCEPT ![r] = at[r] + 1]
                    /\ pc' = [pc EXCEPT ![r] = "collate"]
<1> DEFINE rows == Rows(Chunk(r), step[r])
           more == Accumulated(grad[r], Chunk(r), rows, Len(Chunk(r)), Len(batch[r]))
<1>1. pc[r] \in AtChunk
    BY DEF Backward, AtChunk
<1>2. rows = IdealRows(Chunk(r), step[r])
    BY <1>1, ChunkFacts, RowsIdeal DEF SoundInv
<1>3. at = [q \in Ranks |-> at[q]]
    BY DEF SoundInv, ByRank
<1>4. \/ pc' = [pc EXCEPT ![r] = "raised"] /\ UNCHANGED <<grad, at>>
      \/ /\ grad' = [grad EXCEPT ![r] = more]
         /\ at' = [at EXCEPT ![r] = IF at[r] = Len(Chunks(r)) THEN at[r] ELSE at[r] + 1]
         /\ pc' = [pc EXCEPT ![r] = IF at[r] = Len(Chunks(r)) THEN "reduce" ELSE "collate"]
    BY Zenon DEF Backward, Goto, Scaled
<1>5. more = Accumulated(grad[r], Chunk(r), IdealRows(Chunk(r), step[r]),
                         Len(Chunk(r)), Len(batch[r]))
    BY <1>2, Zenon
<1> HIDE DEF more
<1>6. CASE at[r] = Len(Chunks(r))
    <2>1. [at EXCEPT ![r] = at[r]] = at
        BY <1>3
    <2> QED
        BY <1>4, <1>5, <1>6, <2>1
<1>7. CASE at[r] # Len(Chunks(r))
    BY <1>4, <1>5, <1>7
<1> QED
    BY <1>6, <1>7

(* Every step keeps it one of integers. *)
LEMMA GradNext == SoundInv /\ GradInv /\ [Next]_vars => GradInv'
<1> SUFFICES ASSUME SoundInv, GradInv, [Next]_vars PROVE GradInv'
    OBVIOUS
<1>0. /\ conf \in Confs /\ items \in Seq(GoodItem) /\ IsFiniteSet(Ranks)
      /\ grad \in [Ranks -> [Tokens -> Int]]
    BY ConfFacts DEF SoundInv, GradInv
<1>1. Ranks' = Ranks /\ Tokens' = Tokens
    BY ConfStays DEF Ranks, Tokens
<1> SUFFICES grad' \in [Ranks -> [Tokens -> Int]]
    BY <1>1 DEF GradInv
<1>2. CASE UNCHANGED grad
    BY <1>0, <1>2
<1>3. ASSUME NEW r \in Ranks, Backward(r) PROVE grad' \in [Ranks -> [Tokens -> Int]]
    <2> DEFINE more == Accumulated(grad[r], Chunk(r), IdealRows(Chunk(r), step[r]),
                                   Len(Chunk(r)), Len(batch[r]))
    <2>1. UNCHANGED grad \/ grad' = [grad EXCEPT ![r] = more]
        BY <1>3, BackwardIs
    <2>2. Chunk(r) \in Seq(Spots) /\ Len(batch[r]) \in Nat \ {0} /\ step[r] \in Nat
        BY <1>3, ChunkFacts DEF Backward, AtChunk
    <2>3. Len(Chunk(r)) \in Nat
        BY <2>2, SeqFacts
    <2>4. grad[r] \in [Tokens -> Int]
        BY <1>0
    <2>5. more \in [Tokens -> Int]
        BY <1>0, <2>2, <2>3, <2>4, AccumulatedTyped
    <2> HIDE DEF more
    <2> QED
        BY <1>0, <2>1, <2>5
<1>4. ASSUME NEW r \in Ranks, Update(r) PROVE grad' \in [Ranks -> [Tokens -> Int]]
    <2>1. grad' = [grad EXCEPT ![r] = NoGrad]
        BY <1>4 DEF Update
    <2>2. NoGrad \in [Tokens -> Int]
        BY DEF NoGrad
    <2> QED
        BY <1>0, <2>1, <2>2
<1>5. CASE ReduceGradients
    <2>1. grad' = [r \in Ranks |->
                     [token \in Tokens |-> SumFunction([s \in Ranks |-> grad[s][token]])]]
        BY <1>5 DEF ReduceGradients
    <2>2. ASSUME NEW token \in Tokens PROVE SumFunction([s \in Ranks |-> grad[s][token]]) \in Int
        <3> DEFINE f == [s \in Ranks |-> grad[s][token]]
        <3>1. DOMAIN f = Ranks /\ \A s \in Ranks : f[s] \in Int
            BY <1>0
        <3> HIDE DEF f
        <3>2. SumFunction(f) \in Int
            BY <1>0, <3>1, SumOver
        <3> QED
            BY <3>2 DEF f
    <2> QED
        BY <2>1, <2>2
<1> QED
    BY <1>2, <1>3, <1>4, <1>5, GradSteps

-----------------------------------------------------------------------------
(* The mean over a batch, from its micro-batches *)

(* A positive factor keeps the order. *)
LEMMA ProductOrder ==
    ASSUME NEW d \in Nat \ {0}, NEW x \in Int, NEW y \in Int, x <= y
    PROVE  d * x <= d * y
OBVIOUS

(* What the quotient is. *)
LEMMA Quotient ==
    ASSUME NEW m \in Int, NEW d \in Nat \ {0}, NEW q \in Int, NEW s \in Int,
           m = d * q + s, 0 <= s, s < d
    PROVE  m \div d = q
<1> DEFINE p == m \div d
           u == m % d
<1>1. p \in Int /\ u \in Int /\ m = d * p + u /\ 0 <= u /\ u < d
    OBVIOUS
<1> HIDE DEF p, u
<1>2. ~(p < q)
    <2> SUFFICES ASSUME p + 1 <= q PROVE FALSE
        BY <1>1
    <2>1. d * (p + 1) <= d * q
        BY <1>1, ProductOrder
    <2>2. d * (p + 1) = d * p + d
        BY <1>1
    <2> QED
        BY <1>1, <2>1, <2>2
<1>3. ~(q < p)
    <2> SUFFICES ASSUME q + 1 <= p PROVE FALSE
        BY <1>1
    <2>1. d * (q + 1) <= d * p
        BY <1>1, ProductOrder
    <2>2. d * (q + 1) = d * q + d
        OBVIOUS
    <2> QED
        BY <1>1, <2>1, <2>2
<1> QED
    BY <1>1, <1>2, <1>3 DEF p

(* A common factor makes no difference to a quotient. *)
LEMMA Cancel ==
    ASSUME NEW l \in Nat \ {0}, NEW a \in Int, NEW b \in Nat \ {0}
    PROVE  (l * a) \div (l * b) = a \div b
<1> DEFINE q == a \div b
           s == a % b
<1>1. q \in Int /\ s \in Int /\ a = b * q + s /\ 0 <= s /\ s < b
    OBVIOUS
<1> HIDE DEF q, s
<1>2. l * a = (l * b) * q + l * s
    BY <1>1
<1>3. l * b \in Nat \ {0} /\ l * a \in Int /\ l * s \in Int
    BY <1>1, ProductPositive, Products
<1>4. 0 <= l * s /\ l * s < l * b
    <2>1. l * 0 <= l * s /\ l * (s + 1) <= l * b
        BY <1>1, ProductOrder
    <2>2. l * 0 = 0 /\ l * (s + 1) = l * s + l
        BY <1>1
    <2> QED
        BY <1>1, <1>3, <2>1, <2>2
<1>5. (l * a) \div (l * b) = q
    BY <1>1, <1>2, <1>3, <1>4, Quotient
<1> QED
    BY <1>5 DEF q

NoBaseline == \A k \in DOMAIN conf.algo.terms : conf.algo.terms[k].kind # "baseline"

(* What an item adds to the gradient at one of its tokens, after n steps and *)
(* in a mean over total items; and what each item adds at a token.           *)
Gain(n, total, i, t) ==
    SumFunction([k \in DOMAIN conf.algo.terms |->
        (Fine * Push(conf.algo.terms[k], IdealRow(items[i], n), items[i].weight, t)) \div total])

Gains(n, total, token) ==
    [i \in Spots |-> IF token[1] = i /\ token[2] \in ActionTokens(IdealRow(items[i], n))
                     THEN Gain(n, total, i, token[2]) ELSE 0]

(* The gains are integers. *)
LEMMA GainsInt ==
    ASSUME conf \in Confs, items \in Seq(GoodItem), NEW n \in Nat, NEW total \in Nat \ {0},
           NEW token
    PROVE  Gains(n, total, token) \in SpotFunctions
<1> DEFINE terms == conf.algo.terms
           t == token[2]
<1>1. IsFiniteSet(DOMAIN terms) /\ \A k \in DOMAIN terms : terms[k] \in LossTerm
    BY TermsFacts
<1>2. ASSUME NEW i \in Spots, t \in ActionTokens(IdealRow(items[i], n))
      PROVE  Gain(n, total, i, t) \in Int
    <2> DEFINE row == IdealRow(items[i], n)
               push(k) == Push(terms[k], row, items[i].weight, t)
               f == [k \in DOMAIN terms |-> (Fine * push(k)) \div total]
    <2>1. items[i] \in GoodItem
        BY SpotGood
    <2>2. /\ Width(items[i]) \in Nat /\ row \in RowOf(Width(items[i]))
          /\ items[i].weight \in Int
        BY <2>1, IdealTyped DEF GoodItem, Item
    <2>3. \A k \in DOMAIN terms : push(k) \in Int
        BY <1>1, <1>2, <2>2, PushInt
    <2> HIDE DEF push
    <2>4. \A k \in DOMAIN terms : (Fine * push(k)) \div total \in Int
        BY <2>3, Products DEF Fine
    <2>5. DOMAIN f = DOMAIN terms /\ \A k \in DOMAIN f : f[k] \in Int
        BY <2>4
    <2>6. Gain(n, total, i, t) = SumFunction(f)
        BY Zenon DEF Gain, push
    <2> HIDE DEF f
    <2>7. SumFunction(f) \in Int
        BY <1>1, <2>5, SumOver
    <2> QED
        BY <2>6, <2>7
<1> QED
    BY <1>2 DEF Gains, SpotFunctions

(* A mean over l items, scaled by share / whole, is its part of one over     *)
(* total items.                                                              *)
Cancels(l, share, whole, total) ==
    \A x \in Int : (Fine * share * x) \div (l * whole) = (Fine * x) \div total

(* What an item of a micro-batch pushes is its gain. *)
LEMMA MeanPushIs ==
    ASSUME conf \in Confs, items \in Seq(GoodItem), NoBaseline, NEW q \in Seq(Spots),
           NEW n \in Nat, NEW b \in DOMAIN q, NEW t \in ActionTokens(IdealRow(items[q[b]], n)),
           NEW share \in Nat, NEW whole \in Nat \ {0}, NEW total \in Nat \ {0},
           Cancels(Len(q), share, whole, total)
    PROVE  MeanPush(IdealRows(q, n), b, t, share, whole) = Gain(n, total, q[b], t)
<1> DEFINE rows == IdealRows(q, n)
           terms == conf.algo.terms
           push(k) == Push(terms[k], rows[b], Advantage(terms[k], rows, b), t)
           plain(k) == Push(terms[k], IdealRow(items[q[b]], n), items[q[b]].weight, t)
           f == [k \in DOMAIN terms |-> (Fine * share * push(k)) \div (Divisor(terms[k], rows) * whole)]
           g == [k \in DOMAIN terms |-> (Fine * plain(k)) \div total]
<1>1. IsFiniteSet(DOMAIN terms) /\ \A k \in DOMAIN terms : terms[k] \in LossTerm
    BY TermsFacts
<1>2. /\ rows[b] = IdealRow(items[q[b]], n) /\ items[q[b]] \in GoodItem
      /\ items[q[b]].weight \in Int
    BY RowsFacts
<1>3. Width(items[q[b]]) \in Nat /\ rows[b] \in RowOf(Width(items[q[b]]))
    BY <1>2, IdealTyped
<1>4. MeanPush(rows, b, t, share, whole) = SumFunction(f)
    BY Zenon DEF MeanPush
<1>5. Gain(n, total, q[b], t) = SumFunction(g)
    BY Zenon DEF Gain
<1>6. ASSUME NEW k \in DOMAIN terms
      PROVE  (Fine * share * push(k)) \div (Divisor(terms[k], rows) * whole)
               = (Fine * plain(k)) \div total
    <2>1. terms[k].kind # "baseline"
        BY DEF NoBaseline
    <2>2. Advantage(terms[k], rows, b) = items[q[b]].weight /\ Divisor(terms[k], rows) = Len(q)
        BY <2>1, AdvantageInt
    <2>3. push(k) = plain(k)
        BY <1>2, <2>2
    <2>4. plain(k) \in Int
        BY <1>1, <1>2, <1>3, PushInt
    <2> HIDE DEF push, plain
    <2>5. (Fine * share * plain(k)) \div (Len(q) * whole) = (Fine * plain(k)) \div total
        BY <2>4 DEF Cancels
    <2> QED
        BY <2>2, <2>3, <2>5
<1>7. f = g
    BY <1>6
<1> QED
    BY <1>4, <1>5, <1>7

(* Backward on a micro-batch adds the gains of its items. *)
LEMMA AccumulatedIs ==
    ASSUME conf \in Confs, items \in Seq(GoodItem), NoBaseline, NEW q \in Seq(Spots),
           NEW n \in Nat, NEW share \in Nat, NEW whole \in Nat \ {0}, NEW total \in Nat \ {0},
           Cancels(Len(q), share, whole, total),
           NEW sum, NEW token \in Tokens
    PROVE  Accumulated(sum, q, IdealRows(q, n), share, whole)[token]
             = sum[token] + Total(Gains(n, total, token), q)
<1> DEFINE rows == IdealRows(q, n)
           C == Gains(n, total, token)
           f == [b \in DOMAIN q |-> Added(q, rows, share, whole, token, b)]
           g == [b \in DOMAIN q |-> C[q[b]]]
<1>1. Accumulated(sum, q, rows, share, whole)[token] = sum[token] + SumFunction(f)
    BY DEF Accumulated, Added
<1>2. Total(C, q) = SumFunction(g)
    BY DEF Total
<1>3. ASSUME NEW b \in DOMAIN q PROVE Added(q, rows, share, whole, token, b) = C[q[b]]
    <2>1. q[b] \in Spots /\ rows[b] = IdealRow(items[q[b]], n)
        BY SeqFacts, RowsFacts
    <2>2. token[2] \in ActionTokens(IdealRow(items[q[b]], n)) =>
             MeanPush(rows, b, token[2], share, whole) = Gain(n, total, q[b], token[2])
        BY MeanPushIs
    <2>3. C[q[b]] = IF token[1] = q[b] /\ token[2] \in ActionTokens(IdealRow(items[q[b]], n))
                    THEN Gain(n, total, q[b], token[2]) ELSE 0
        BY <2>1 DEF Gains
    <2> QED
        BY <2>1, <2>2, <2>3 DEF Added
<1>4. f = g
    BY <1>3
<1> QED
    BY <1>1, <1>2, <1>4

-----------------------------------------------------------------------------
(* What a rank has accumulated *)

(* The places of a rank that is between two steps, and of one that has not   *)
(* yet begun to accumulate.                                                  *)
Between == {"fetch", "state", "publish", "save", "model", "optimizer", "rest", "stats", "eval",
            "evaluate", "leave", "final", "last_model", "last_optimizer", "last_rest", "returned"}
Clean == Between \union {"split", "place"}

(* A rank that has not begun to accumulate has no gradient.  Its batch is    *)
(* dealt out to its micro-batches, the current one and what is to be placed, *)
(* whatever one sums up over it; and what it has accumulated is what the     *)
(* items of the micro-batches it has done add, in a mean over its batch.     *)
Dealt(place, n, b, t, s, a, g) ==
    /\ place \in Clean => g = NoGrad
    /\ place = "place" =>
         \A C \in SpotFunctions :
             ChunkTotal(C, s.chunks, Len(s.chunks)) + Total(C, s.current) + Total(C, t) = Total(C, b)
    /\ place \in AtChunk =>
         /\ \A C \in SpotFunctions : ChunkTotal(C, s.chunks, Len(s.chunks)) = Total(C, b)
         /\ NoBaseline => \A token \in Tokens :
               g[token] = ChunkTotal(Gains(n, Len(b), token), s.chunks, a - 1)
    /\ place = "reduce" /\ NoBaseline =>
         \A token \in Tokens : g[token] = Total(Gains(n, Len(b), token), b)

DealtRank(r) == Dealt(pc[r], step[r], batch[r], todo[r], split[r], at[r], grad[r])

DealtInv == \A r \in Ranks : DealtRank(r)

(* Dealing depends on nothing but the rank and what is trained on. *)
LEMMA DealtSame ==
    ASSUME UNCHANGED <<conf, items>>
    PROVE  /\ Ranks' = Ranks
           /\ \A p, n, b, t, s, a, g : Dealt(p, n, b, t, s, a, g)' <=> Dealt(p, n, b, t, s, a, g)
BY DEF Ranks, Dealt, NoGrad, Tokens, SpotFunctions, Spots, NoBaseline, Gains, Gain

(* Every rank stays dealt. *)
LEMMA EachDealt ==
    ASSUME UNCHANGED <<conf, items>>,
           \A r \in Ranks :
              Dealt(pc'[r], step'[r], batch'[r], todo'[r], split'[r], at'[r], grad'[r])
    PROVE  DealtInv'
<1>1. Ranks' = Ranks
    BY DealtSame
<1>2. \A r \in Ranks : DealtRank(r)'
    BY DEF DealtRank, Dealt, NoGrad, Tokens, SpotFunctions, Spots, NoBaseline, Gains, Gain
<1> QED
    BY <1>1, <1>2 DEF DealtInv

(* Only rank r moves. *)
LEMMA OneDealt ==
    ASSUME DealtInv, UNCHANGED <<conf, items>>, NEW r \in Ranks,
           \A q \in Ranks \ {r} : /\ pc'[q] = pc[q] /\ step'[q] = step[q] /\ batch'[q] = batch[q]
                                  /\ todo'[q] = todo[q] /\ split'[q] = split[q]
                                  /\ at'[q] = at[q] /\ grad'[q] = grad[q],
           Dealt(pc'[r], step'[r], batch'[r], todo'[r], split'[r], at'[r], grad'[r])
    PROVE  DealtInv'
<1>1. \A q \in Ranks \ {r} :
          Dealt(pc'[q], step'[q], batch'[q], todo'[q], split'[q], at'[q], grad'[q])
    BY DEF DealtInv, DealtRank
<1>2. \A q \in Ranks :
          Dealt(pc'[q], step'[q], batch'[q], todo'[q], split'[q], at'[q], grad'[q])
    BY <1>1
<1> QED
    BY <1>2, EachDealt

(* A rank that goes to another place. *)
LEMMA DealtOnward ==
    ASSUME NEW p, NEW n, NEW b, NEW t, NEW s, NEW a, NEW g, Dealt(p, n, b, t, s, a, g),
           NEW q, \/ p \in Clean /\ q \in Clean \ {"place"}
                  \/ p \in AtChunk /\ q \in AtChunk
                  \/ q \in {"norm", "update", "raised"}
    PROVE  Dealt(q, n, b, t, s, a, g)
BY DEF Dealt, Clean, Between, AtChunk

(* What is due after a step is between two. *)
LEMMA OnwardBetween == \A k, n : Onward(k, n) \in Between
BY DEF Onward, Between

(* Nothing is dealt at first. *)
LEMMA DealtInit == Init => DealtInv
<1> SUFFICES ASSUME Init, NEW r \in Ranks PROVE DealtRank(r)
    BY DEF DealtInv
<1>1. pc[r] \in Between /\ grad[r] = NoGrad
    BY OnwardBetween DEF Init, Between
<1> QED
    BY <1>1 DEF DealtRank, Dealt, Between, AtChunk

(* Rank r takes a step that leaves its gradient alone, and goes to a place   *)
(* where nothing is dealt.                                                   *)
LEMMA WalkDealt ==
    ASSUME DealtInv, ByRank, NEW r \in Ranks, UNCHANGED <<conf, items, step, todo, split, at, grad>>,
           NEW q, pc' = [pc EXCEPT ![r] = q],
           \/ /\ UNCHANGED batch
              /\ \/ pc[r] \in Clean /\ q \in Clean \ {"place"}
                 \/ pc[r] \in AtChunk /\ q \in AtChunk
                 \/ q = "raised"
           \/ /\ batch' = [batch EXCEPT ![r] = batch'[r]]
              /\ pc[r] \in Clean /\ q \in (Clean \union {"raised"}) \ {"place"}
    PROVE  DealtInv'
<1>1. pc'[r] = q /\ \A p \in Ranks \ {r} : pc'[p] = pc[p] /\ batch'[p] = batch[p]
    BY DEF ByRank
<1>2. Dealt(q, step[r], batch'[r], todo[r], split[r], at[r], grad[r])
    <2>1. DealtRank(r)
        BY DEF DealtInv
    <2>2. CASE UNCHANGED batch
        BY <2>1, <2>2, DealtOnward DEF DealtRank, Clean, AtChunk, Between
    <2>3. CASE pc[r] \in Clean /\ q \in (Clean \union {"raised"}) \ {"place"}
        BY <2>1, <2>3 DEF DealtRank, Dealt, Clean, AtChunk, Between
    <2> QED
        BY <2>2, <2>3
<1>3. Dealt(pc'[r], step'[r], batch'[r], todo'[r], split'[r], at'[r], grad'[r])
    BY <1>1, <1>2
<1> QED
    BY <1>1, <1>3, OneDealt

(* No micro-batches, no total. *)
LEMMA ChunkTotalEmpty == ASSUME NEW C PROVE ChunkTotal(C, <<>>, Len(<<>>)) = 0
<1>1. 1 .. Len(<<>>) = {}
    OBVIOUS
<1> QED
    BY <1>1, SumEmpty DEF ChunkTotal

(* A batch that is sorted is all to be placed. *)
LEMMA SortDealt ==
    ASSUME SoundInv, DealtInv, NEW r \in Ranks, SortBatch(r)
    PROVE  DealtInv'
<1> DEFINE widths == [k \in DOMAIN batch[r] |-> Width(items[batch[r][k]])]
<1>0. ByRank /\ SoundRank(r) /\ batch[r] \in Seq(Spots) /\ grad[r] = NoGrad
    BY DEF SoundInv, SoundRank, Sound, DealtInv, DealtRank, Dealt, Clean, SortBatch
<1>1. PICK p \in Orders(widths) :
         todo' = [todo EXCEPT ![r] = [k \in DOMAIN batch[r] |-> batch[r][p[k]]]]
    BY DEF SortBatch
<1> DEFINE sorted == [k \in DOMAIN batch[r] |-> batch[r][p[k]]]
<1>2. /\ pc' = [pc EXCEPT ![r] = "place"] /\ todo' = [todo EXCEPT ![r] = sorted]
      /\ split' = [split EXCEPT ![r] = EmptySplit] /\ at' = [at EXCEPT ![r] = 0]
      /\ UNCHANGED <<conf, items, step, batch, grad>>
    BY <1>1 DEF SortBatch, Goto
<1>3. ASSUME NEW C \in SpotFunctions PROVE Total(C, sorted) = Total(C, batch[r])
    <2> DEFINE b == batch[r]
               D == DOMAIN b
    <2>1. D = 1 .. Len(b) /\ Len(b) \in Nat /\ IsFiniteSet(D) /\ \A k \in D : b[k] \in Spots
        BY <1>0, SeqFacts
    <2>2. \A k \in D : C[b[k]] \in Int
        BY <2>1 DEF SpotFunctions
    <2>3. D \subseteq Int
        BY <2>1
    <2>4. DOMAIN widths = D /\ \A k \in D : widths[k] \in Int
        BY WidthBounded, BudgetAssumption
    <2>5. DOMAIN sorted = D /\ \A k \in D : sorted[k] = b[p[k]]
        OBVIOUS
    <2>6. IsFiniteSet(D)
        BY <2>1
    <2>7. DOMAIN b = D
        OBVIOUS
    <2> HIDE DEF widths, sorted, D, b
    <2>8. p \in [D -> D] /\ \A i, j \in D : p[i] = p[j] => i = j
        BY <2>3, <2>4, OrdersPermute
    <2>9. Total(C, sorted) = Total(C, b)
        BY <2>2, <2>5, <2>6, <2>7, <2>8, TotalPermuted
    <2> QED
        BY <2>9 DEF b
<1> HIDE DEF sorted
<1>4. pc'[r] = "place" /\ todo'[r] = sorted /\ split'[r] = EmptySplit
    BY <1>0, <1>2 DEF ByRank
<1>5. Dealt(pc'[r], step'[r], batch'[r], todo'[r], split'[r], at'[r], grad'[r])
    <2>1. \A C \in SpotFunctions :
             ChunkTotal(C, EmptySplit.chunks, Len(EmptySplit.chunks))
               + Total(C, EmptySplit.current) + Total(C, sorted) = Total(C, batch[r])
        <3> SUFFICES ASSUME NEW C \in SpotFunctions
                     PROVE  ChunkTotal(C, EmptySplit.chunks, Len(EmptySplit.chunks))
                              + Total(C, EmptySplit.current) + Total(C, sorted)
                              = Total(C, batch[r])
            OBVIOUS
        <3>1. EmptySplit.chunks = <<>> /\ EmptySplit.current = <<>>
            BY DEF EmptySplit
        <3>2. ChunkTotal(C, EmptySplit.chunks, Len(EmptySplit.chunks)) = 0
            BY <3>1, ChunkTotalEmpty
        <3>3. Total(C, EmptySplit.current) = 0
            BY <3>1, TotalEmpty
        <3>4. Total(C, batch[r]) \in Int
            BY <1>0, TotalInt DEF SpotFunctions
        <3> QED
            BY <1>3, <3>2, <3>3, <3>4
    <2>2. grad'[r] = NoGrad /\ batch'[r] = batch[r]
        BY <1>0, <1>2
    <2> QED
        BY <1>4, <2>1, <2>2 DEF Dealt, AtChunk
<1>6. \A q \in Ranks \ {r} : /\ pc'[q] = pc[q] /\ step'[q] = step[q] /\ batch'[q] = batch[q]
                             /\ todo'[q] = todo[q] /\ split'[q] = split[q]
                             /\ at'[q] = at[q] /\ grad'[q] = grad[q]
    BY <1>0, <1>2 DEF ByRank
<1> QED
    BY <1>2, <1>5, <1>6, OneDealt

(* An item placed leaves what is to be placed for the current micro-batch, or *)
(* for a new one when that is closed.                                        *)
LEMMA PlaceDealt ==
    ASSUME SoundInv, DealtInv, NEW r \in Ranks, PlaceItem(r)
    PROVE  DealtInv'
<1> DEFINE i == Head(todo[r])
           placed == Place(split[r], i, Width(items[i]))
<1>0. /\ ByRank /\ SoundRank(r) /\ todo[r] \in Seq(Spots) /\ split[r] \in SplitOfSpots
      /\ DealtRank(r)
    BY DEF SoundInv, SoundRank, Sound, DealtInv
<1>1. /\ pc[r] = "place" /\ todo[r] # <<>>
      /\ split' = [split EXCEPT ![r] = placed]
      /\ todo' = [todo EXCEPT ![r] = Tail(todo[r])]
      /\ UNCHANGED <<conf, items, pc, step, batch, at, grad>>
    BY <1>0 DEF PlaceItem, sourceVars, ByRank
<1>2. i \in Spots /\ Tail(todo[r]) \in Seq(Spots) /\ Width(items[i]) \in Nat
    <2>1. Width(items[i]) \in Nat
        BY WidthBounded, BudgetAssumption
    <2> QED
        BY <1>0, <1>1, <2>1
<1>3. /\ placed \in SplitOfSpots
      /\ \/ /\ split[r].current # <<>>
            /\ placed.chunks = Append(split[r].chunks, split[r].current) /\ placed.current = <<i>>
         \/ /\ placed.chunks = split[r].chunks
            /\ placed.current = Append(split[r].current, i)
    <2> HIDE DEF i
    <2> QED
        BY <1>0, <1>2, PlaceIs
<1>4. ASSUME NEW C \in SpotFunctions
      PROVE  ChunkTotal(C, placed.chunks, Len(placed.chunks)) + Total(C, placed.current)
               + Total(C, Tail(todo[r])) = Total(C, batch[r])
    <2> DEFINE cs == split[r].chunks
               u == split[r].current
               m == ChunkTotal(C, cs, Len(cs))
               v == Total(C, u)
               w == Total(C, Tail(todo[r]))
    <2>0. C \in [Spots -> Int]
        BY DEF SpotFunctions
    <2>1. m + v + Total(C, todo[r]) = Total(C, batch[r])
        BY <1>0, <1>1 DEF DealtRank, Dealt
    <2>2. cs \in Seq(Seq(Spots)) /\ u \in Seq(Spots)
        BY <1>0, SplitFacts
    <2>3. Total(C, todo[r]) = C[i] + w
        BY <1>0, <1>1, <2>0, TotalTail
    <2>4. v \in Int /\ w \in Int /\ C[i] \in Int
        BY <1>2, <2>0, <2>2, TotalInt
    <2>5. m \in Int
        <3>1. Len(cs) \in 0 .. Len(cs)
            <4> HIDE DEF cs
            <4> QED
                BY <2>2, SeqFacts
        <3> QED
            BY <2>0, <2>2, <3>1, ChunkSums
    <2> HIDE DEF m, v, w, i, placed
    <2>6. CASE placed.chunks = Append(cs, u) /\ placed.current = <<i>>
        <3>1. ChunkTotal(C, placed.chunks, Len(placed.chunks)) = m + v
            BY <2>0, <2>2, <2>6, ChunkAppend DEF m, v
        <3>2. Total(C, placed.current) = C[i]
            BY <1>2, <2>0, <2>6, TotalOne
        <3>3. ChunkTotal(C, placed.chunks, Len(placed.chunks)) + Total(C, placed.current) + w
                = Total(C, batch[r])
            BY <2>1, <2>3, <2>4, <2>5, <3>1, <3>2
        <3> QED
            BY <3>3 DEF w
    <2>7. CASE placed.chunks = cs /\ placed.current = Append(u, i)
        <3>1. ChunkTotal(C, placed.chunks, Len(placed.chunks)) = m
            BY <2>7 DEF m
        <3>2. Total(C, placed.current) = v + C[i]
            BY <1>2, <2>0, <2>2, <2>7, TotalAppend DEF v
        <3>3. ChunkTotal(C, placed.chunks, Len(placed.chunks)) + Total(C, placed.current) + w
                = Total(C, batch[r])
            BY <2>1, <2>3, <2>4, <2>5, <3>1, <3>2
        <3> QED
            BY <3>3 DEF w
    <2> QED
        BY <1>3, <2>6, <2>7
<1> HIDE DEF placed, i
<1>5. split'[r] = placed /\ todo'[r] = Tail(todo[r])
    BY <1>0, <1>1 DEF ByRank
<1>6. Dealt(pc'[r], step'[r], batch'[r], todo'[r], split'[r], at'[r], grad'[r])
    <2>1. grad[r] = NoGrad
        BY <1>0, <1>1 DEF DealtRank, Dealt, Clean
    <2> QED
        BY <1>1, <1>4, <1>5, <2>1 DEF Dealt, AtChunk
<1>7. \A q \in Ranks \ {r} : /\ pc'[q] = pc[q] /\ step'[q] = step[q] /\ batch'[q] = batch[q]
                             /\ todo'[q] = todo[q] /\ split'[q] = split[q]
                             /\ at'[q] = at[q] /\ grad'[q] = grad[q]
    BY <1>0, <1>1 DEF ByRank
<1> QED
    BY <1>1, <1>6, <1>7, OneDealt

(* The last micro-batch is closed, and the batch is in the micro-batches. *)
LEMMA CloseDealt ==
    ASSUME SoundInv, DealtInv, NEW r \in Ranks, CloseSplit(r)
    PROVE  DealtInv'
<1> DEFINE s == split[r]
           cs == Close(s)
           closed == [EmptySplit EXCEPT !.chunks = cs]
<1>0. /\ conf \in Confs /\ items \in Seq(GoodItem) /\ ByRank /\ SoundRank(r) /\ DealtRank(r)
      /\ s \in SplitOfSpots
    BY DEF SoundInv, SoundRank, Sound, DealtInv
<1>1. /\ pc[r] = "place" /\ todo[r] = <<>>
      /\ split' = [split EXCEPT ![r] = closed] /\ at' = [at EXCEPT ![r] = 1]
      /\ pc' = [pc EXCEPT ![r] = "collate"]
      /\ UNCHANGED <<conf, items, step, batch, todo, grad>>
    BY DEF CloseSplit, Goto, sourceVars
<1>2. closed.chunks = cs
    BY DEF EmptySplit
<1>3. s.chunks \in Seq(Seq(Spots)) /\ s.current \in Seq(Spots)
    BY <1>0, SplitFacts
<1>4. cs \in Seq(Seq(Spots))
    <2> HIDE DEF s
    <2> QED
        BY <1>3, AppendIn DEF Close
<1>5. ASSUME NEW C \in SpotFunctions
      PROVE  ChunkTotal(C, cs, Len(cs)) = Total(C, batch[r])
    <2> DEFINE d == s.chunks
               u == s.current
               m == ChunkTotal(C, d, Len(d))
               v == Total(C, u)
    <2>0. C \in [Spots -> Int]
        BY DEF SpotFunctions
    <2>1. m + v + Total(C, todo[r]) = Total(C, batch[r])
        BY <1>0, <1>1 DEF DealtRank, Dealt
    <2>2. Total(C, todo[r]) = 0
        BY <1>1, TotalEmpty
    <2>3. v \in Int
        BY <1>3, <2>0, TotalInt
    <2>4. m \in Int
        <3>1. Len(d) \in 0 .. Len(d)
            <4> HIDE DEF d
            <4> QED
                BY <1>3, SeqFacts DEF d
        <3> QED
            BY <1>3, <2>0, <3>1, ChunkSums
    <2>5. m + v = Total(C, batch[r])
        <3> HIDE DEF m, v
        <3> QED
            BY <2>1, <2>2, <2>3, <2>4
    <2>6. CASE u = <<>>
        <3>1. cs = d /\ v = 0
            BY <2>6, TotalEmpty DEF Close
        <3>2. ChunkTotal(C, cs, Len(cs)) = m
            BY <3>1
        <3> HIDE DEF m, v
        <3> QED
            BY <2>4, <2>5, <3>1, <3>2
    <2>7. CASE u # <<>>
        <3>1. cs = Append(d, u)
            BY <2>7 DEF Close
        <3>2. ChunkTotal(C, cs, Len(cs)) = m + v
            BY <1>3, <2>0, <3>1, ChunkAppend
        <3> QED
            BY <2>5, <3>2
    <2> QED
        BY <2>6, <2>7
<1> HIDE DEF closed, cs
<1>6. pc'[r] = "collate" /\ split'[r] = closed /\ at'[r] = 1
    BY <1>0, <1>1 DEF ByRank
<1>7. Dealt(pc'[r], step'[r], batch'[r], todo'[r], split'[r], at'[r], grad'[r])
    <2>1. grad[r] = NoGrad
        BY <1>0, <1>1 DEF DealtRank, Dealt, Clean
    <2>2. ASSUME NEW token \in Tokens
          PROVE  grad[r][token] = ChunkTotal(Gains(step[r], Len(batch[r]), token), cs, 1 - 1)
        <3> DEFINE C == Gains(step[r], Len(batch[r]), token)
        <3>1. grad[r][token] = 0
            BY <2>1 DEF NoGrad
        <3>2. step[r] \in Nat /\ Len(batch[r]) \in Nat \ {0}
            <4> DEFINE b == batch[r]
            <4>1. step[r] \in Nat /\ b \in Seq(Spots) /\ b # <<>>
                BY <1>0, <1>1 DEF SoundRank, Sound, WithBatch
            <4> HIDE DEF b
            <4>2. Len(b) \in Nat \ {0}
                BY <4>1
            <4> QED
                BY <4>1, <4>2 DEF b
        <3>3. C \in [Spots -> Int]
            BY <1>0, <3>2, GainsInt DEF SpotFunctions
        <3> HIDE DEF C
        <3>4. ChunkTotal(C, cs, 0) = 0
            BY <1>4, <3>3, ChunkSums
        <3> QED
            BY <3>1, <3>4 DEF C
    <2> QED
        BY <1>1, <1>2, <1>5, <1>6, <2>2 DEF Dealt, AtChunk, Clean, Between
<1>8. \A q \in Ranks \ {r} : /\ pc'[q] = pc[q] /\ step'[q] = step[q] /\ batch'[q] = batch[q]
                             /\ todo'[q] = todo[q] /\ split'[q] = split[q]
                             /\ at'[q] = at[q] /\ grad'[q] = grad[q]
    BY <1>0, <1>1 DEF ByRank
<1> QED
    BY <1>1, <1>7, <1>8, OneDealt

(* A mean over a micro-batch, scaled by its share of the batch, is its part  *)
(* of the mean over the batch.                                               *)
LEMMA ShareCancels ==
    ASSUME NEW l \in Nat \ {0}, NEW total \in Nat \ {0}, NEW x \in Int
    PROVE  /\ (Fine * l * x) \div (l * total) = (Fine * x) \div total
           /\ (Fine * 1 * x) \div (total * 1) = (Fine * x) \div total
<1>1. Fine * x \in Int /\ Fine * l * x = l * (Fine * x) /\ Fine * 1 * x = Fine * x /\ total * 1 = total
    BY DEF Fine
<1> DEFINE y == Fine * x
<1>2. (l * y) \div (l * total) = y \div total
    <2> HIDE DEF y
    <2>1. y \in Int
        BY <1>1 DEF y
    <2> QED
        BY <2>1, Cancel
<1> QED
    BY <1>1, <1>2

(* A backward pass adds its micro-batch's part of the mean over the batch. *)
LEMMA BackwardDealt ==
    ASSUME SoundInv, BudgetInv, GradInv, DealtInv, NEW r \in Ranks, Backward(r)
    PROVE  DealtInv'
<1> DEFINE cs == Chunks(r)
           a == at[r]
           q == Chunk(r)
           n == step[r]
           N == Len(batch[r])
           more == Accumulated(grad[r], q, IdealRows(q, n), Len(q), N)
<1>0. /\ conf \in Confs /\ items \in Seq(GoodItem) /\ ByRank /\ DealtRank(r)
      /\ grad[r] \in [Tokens -> Int] /\ pc[r] \in AtChunk /\ pc[r] \notin {"place", "reduce"}
    BY DEF SoundInv, DealtInv, GradInv, Backward, AtChunk
<1>1. UNCHANGED <<conf, items, step, batch, todo, split>>
    BY DEF Backward, sourceVars
<1>2. \/ pc' = [pc EXCEPT ![r] = "raised"] /\ UNCHANGED <<grad, at>>
      \/ /\ grad' = [grad EXCEPT ![r] = more]
         /\ \/ /\ a = Len(cs) /\ UNCHANGED at
               /\ pc' = [pc EXCEPT ![r] = "reduce"]
            \/ /\ a # Len(cs) /\ at' = [at EXCEPT ![r] = a + 1]
               /\ pc' = [pc EXCEPT ![r] = "collate"]
    BY BackwardIs
<1>3. /\ a \in 1 .. Len(cs) /\ cs \in Seq(Seq(Spots)) /\ q \in Seq(Spots) /\ q = cs[a]
      /\ batch[r] \in Seq(Spots) /\ N \in Nat \ {0} /\ n \in Nat
    BY <1>0, ChunkFacts
<1>4. Len(cs) \in Nat /\ DOMAIN cs = 1 .. Len(cs)
    <2> HIDE DEF cs
    <2> QED
        BY <1>3, SeqFacts
<1>5. Len(q) \in Nat \ {0}
    <2>1. q # <<>>
        <3>1. cs[a] # <<>>
            BY <1>3, <1>4 DEF BudgetInv, WithinBudget, Fits, Chunks
        <3> QED
            BY <1>3, <3>1
    <2> HIDE DEF q
    <2> QED
        BY <1>3, <2>1
<1>6. /\ \A C \in SpotFunctions : ChunkTotal(C, cs, Len(cs)) = Total(C, batch[r])
      /\ NoBaseline => \A token \in Tokens :
            grad[r][token] = ChunkTotal(Gains(n, N, token), cs, a - 1)
    BY <1>0 DEF DealtRank, Dealt, Chunks
<1>7. ASSUME NoBaseline, NEW token \in Tokens
      PROVE  more[token] = ChunkTotal(Gains(n, N, token), cs, a)
    <2> DEFINE C == Gains(n, N, token)
    <2>1. Cancels(Len(q), Len(q), N, N)
        <3> DEFINE l == Len(q)
        <3>1. l \in Nat \ {0} /\ N \in Nat \ {0}
            BY <1>3, <1>5
        <3> HIDE DEF l, N
        <3>2. \A x \in Int : (Fine * l * x) \div (l * N) = (Fine * x) \div N
            BY <3>1, ShareCancels
        <3> QED
            BY <3>2 DEF l, Cancels
    <2>2. more[token] = grad[r][token] + Total(C, q)
        <3>1. Len(q) \in Nat
            BY <1>5
        <3> HIDE DEF q, n, N
        <3> QED
            BY <1>0, <1>3, <1>7, <2>1, <3>1, AccumulatedIs
    <2>3. C \in [Spots -> Int]
        BY <1>0, <1>3, GainsInt DEF SpotFunctions
    <2>4. grad[r][token] = ChunkTotal(C, cs, a - 1)
        BY <1>6, <1>7
    <2> HIDE DEF C, cs, a, q, more
    <2>5. a - 1 \in 0 .. Len(cs) - 1 /\ (a - 1) + 1 = a
        BY <1>3, <1>4
    <2>6. ChunkTotal(C, cs, (a - 1) + 1) = ChunkTotal(C, cs, a - 1) + Total(C, cs[(a - 1) + 1])
        BY <1>3, <2>3, <2>5, ChunkSums
    <2>7. ChunkTotal(C, cs, a) = ChunkTotal(C, cs, a - 1) + Total(C, q)
        BY <1>3, <2>5, <2>6
    <2>8. more[token] = ChunkTotal(C, cs, a)
        BY <2>2, <2>4, <2>7
    <2> QED
        BY <2>8 DEF C
<1> HIDE DEF more, q
<1>8. CASE pc' = [pc EXCEPT ![r] = "raised"] /\ UNCHANGED <<grad, at>>
    BY <1>0, <1>1, <1>8, WalkDealt
<1>9. CASE /\ grad' = [grad EXCEPT ![r] = more] /\ a = Len(cs) /\ UNCHANGED at
           /\ pc' = [pc EXCEPT ![r] = "reduce"]
    <2>1. pc'[r] = "reduce" /\ grad'[r] = more
        BY <1>0, <1>9 DEF ByRank
    <2>2. ASSUME NoBaseline, NEW token \in Tokens
          PROVE  more[token] = Total(Gains(n, N, token), batch[r])
        <3>1. Gains(n, N, token) \in SpotFunctions
            BY <1>0, <1>3, GainsInt
        <3> QED
            BY <1>6, <1>7, <1>9, <2>2, <3>1
    <2>3. Dealt(pc'[r], step'[r], batch'[r], todo'[r], split'[r], at'[r], grad'[r])
        BY <1>1, <2>1, <2>2 DEF Dealt, AtChunk, Clean, Between
    <2>4. \A p \in Ranks \ {r} : /\ pc'[p] = pc[p] /\ step'[p] = step[p] /\ batch'[p] = batch[p]
                                 /\ todo'[p] = todo[p] /\ split'[p] = split[p]
                                 /\ at'[p] = at[p] /\ grad'[p] = grad[p]
        BY <1>0, <1>1, <1>9 DEF ByRank
    <2> QED
        BY <1>1, <2>3, <2>4, OneDealt
<1>10. CASE /\ grad' = [grad EXCEPT ![r] = more] /\ at' = [at EXCEPT ![r] = a + 1]
            /\ pc' = [pc EXCEPT ![r] = "collate"]
    <2>1. pc'[r] = "collate" /\ grad'[r] = more /\ at'[r] = a + 1
        BY <1>0, <1>10 DEF ByRank
    <2>2. (a + 1) - 1 = a /\ cs = split[r].chunks
        BY <1>3 DEF Chunks
    <2>3. Dealt(pc'[r], step'[r], batch'[r], todo'[r], split'[r], at'[r], grad'[r])
        BY <1>1, <1>6, <1>7, <2>1, <2>2 DEF Dealt, AtChunk, Clean, Between
    <2>4. \A p \in Ranks \ {r} : /\ pc'[p] = pc[p] /\ step'[p] = step[p] /\ batch'[p] = batch[p]
                                 /\ todo'[p] = todo[p] /\ split'[p] = split[p]
                                 /\ at'[p] = at[p] /\ grad'[p] = grad[p]
        BY <1>0, <1>1, <1>10 DEF ByRank
    <2> QED
        BY <1>1, <2>3, <2>4, OneDealt
<1> QED
    BY <1>2, <1>8, <1>9, <1>10

(* The optimizer step forgets the gradient. *)
LEMMA UpdateDealt ==
    ASSUME SoundInv, DealtInv, NEW r \in Ranks, Update(r)
    PROVE  DealtInv'
<1> DEFINE place == Onward(0, step[r] + 1)
<1>0. ByRank
    BY DEF SoundInv
<1>1. /\ step' = [step EXCEPT ![r] = step[r] + 1]
      /\ grad' = [grad EXCEPT ![r] = NoGrad] /\ pc' = [pc EXCEPT ![r] = place]
      /\ UNCHANGED <<conf, items, batch, todo, split, at>>
    BY <1>0 DEF Update, Goto, splitVars, ByRank
<1>2. place \in Between
    BY OnwardBetween
<1> HIDE DEF place
<1>3. pc'[r] = place /\ grad'[r] = NoGrad
    BY <1>0, <1>1 DEF ByRank
<1>4. Dealt(pc'[r], step'[r], batch'[r], todo'[r], split'[r], at'[r], grad'[r])
    BY <1>2, <1>3 DEF Dealt, AtChunk, Between
<1>5. \A q \in Ranks \ {r} : /\ pc'[q] = pc[q] /\ step'[q] = step[q] /\ batch'[q] = batch[q]
                             /\ todo'[q] = todo[q] /\ split'[q] = split[q]
                             /\ at'[q] = at[q] /\ grad'[q] = grad[q]
    BY <1>0, <1>1 DEF ByRank
<1> QED
    BY <1>1, <1>4, <1>5, OneDealt

(* Whatever a rank does on its own. *)
LEMMA AloneDealt ==
    ASSUME SoundInv, BudgetInv, GradInv, DealtInv, NEW r \in Ranks, Alone(r)
    PROVE  DealtInv'
<1>0. ByRank
    BY DEF SoundInv
<1>1. CASE OpenEpoch(r)
    <2>1. PICK q \in {"raised", "fetch"} : pc' = [pc EXCEPT ![r] = q]
        BY <1>1 DEF OpenEpoch, Goto
    <2>2. /\ pc[r] \in Clean /\ q \in (Clean \union {"raised"}) \ {"place"}
          /\ UNCHANGED <<conf, items, step, batch, todo, split, at, grad>>
        BY <1>1 DEF OpenEpoch, splitVars, Clean, Between
    <2> QED
        BY <1>0, <2>1, <2>2, WalkDealt
<1>2. CASE RunOut(r)
    <2>1. /\ pc' = [pc EXCEPT ![r] = "final"] /\ pc[r] \in Clean /\ "final" \in Clean \ {"place"}
          /\ UNCHANGED <<conf, items, step, batch, todo, split, at, grad>>
        BY <1>2 DEF RunOut, Goto, splitVars, Clean, Between
    <2> QED
        BY <1>0, <2>1, WalkDealt
<1>3. CASE Fetch(r)
    <2>1. PICK q, kept : /\ q \in {"raised", "fetch", "split"} /\ pc' = [pc EXCEPT ![r] = q]
                         /\ batch' = [batch EXCEPT ![r] = kept]
        BY <1>3 DEF Fetch, Goto
    <2>2. /\ pc[r] \in Clean /\ q \in (Clean \union {"raised"}) \ {"place"}
          /\ UNCHANGED <<conf, items, step, todo, split, at, grad>>
        BY <1>3, <2>1 DEF Fetch, Clean, Between
    <2>3. batch' = [batch EXCEPT ![r] = batch'[r]]
        BY <1>0, <2>1 DEF ByRank
    <2>4. pc' = [pc EXCEPT ![r] = q]
        BY <2>1
    <2> QED
        BY <1>0, <2>2, <2>3, <2>4, WalkDealt
<1>4. CASE CollateChunk(r)
    <2>1. PICK q \in {"raised", "forward"} : pc' = [pc EXCEPT ![r] = q]
        BY <1>4 DEF CollateChunk, Goto
    <2>2. /\ pc[r] \in AtChunk /\ "forward" \in AtChunk
          /\ UNCHANGED <<conf, items, step, batch, todo, split, at, grad>>
        BY <1>4 DEF CollateChunk, splitVars, AtChunk
    <2> QED
        BY <1>0, <2>1, <2>2, WalkDealt
<1> QED
    BY <1>1, <1>2, <1>3, <1>4, SortDealt, PlaceDealt, CloseDealt, BackwardDealt, UpdateDealt
       DEF Alone

(* Where the ranks go together, and where rank 0 goes while they wait. *)
LEMMA TogetherPlaces ==
    ASSUME SoundInv, Primary \/ Collective, NEW r \in Ranks
    PROVE  \/ pc'[r] = pc[r]
           \/ pc[r] \in Between /\ pc'[r] \in Between
           \/ pc[r] \in AtChunk /\ pc'[r] \in AtChunk
           \/ pc'[r] \in {"norm", "update"}
<1>0. 0 \in Ranks /\ pc = [q \in Ranks |-> pc[q]]
    BY ConfFacts DEF SoundInv, ByRank
<1>1. CASE Publish \/ Evaluate
    BY <1>0, <1>1, OnwardBetween DEF Publish, Evaluate, Goto, Between
<1>2. \A save, q : Saved(save, q) \in Between
    BY OnwardBetween DEF Saved, Between
<1>3. ASSUME NEW save \in {Saving, SavingLast}
      PROVE  {save.start, save.optimizer, save.model, save.rest} \subseteq Between
    BY DEF Saving, SavingLast, Between
<1>4. ASSUME NEW save \in {Saving, SavingLast}, WriteModel(save) \/ WriteRest(save)
      PROVE  pc'[r] = pc[r] \/ (pc[r] \in Between /\ pc'[r] \in Between)
    BY <1>0, <1>2, <1>3, <1>4 DEF WriteModel, WriteRest, Goto
<1>5. ASSUME NEW save \in {Saving, SavingLast}, GatherModel(save) \/ GatherOptimizer(save)
      PROVE  pc[r] \in Between /\ pc'[r] \in Between
    BY <1>2, <1>3, <1>5 DEF GatherModel, GatherOptimizer, AllAt
<1>6. CASE Forward \/ ReduceGradients \/ ReduceNorm
    BY <1>6 DEF Forward, ReduceGradients, ReduceNorm, AllAt, AtChunk
<1>7. CASE GatherState \/ ReduceStats \/ EnterEval \/ LeaveEval
    <2>1. pc[r] \in {"state", "stats", "eval", "leave"}
        BY <1>7 DEF GatherState, ReduceStats, EnterEval, LeaveEval, AllAt
    <2>2. pc'[r] \in Between
        BY <1>7, OnwardBetween DEF GatherState, ReduceStats, EnterEval, LeaveEval, Between
    <2> QED
        BY <2>1, <2>2 DEF Between
<1> QED
    BY <1>1, <1>4, <1>5, <1>6, <1>7 DEF Primary, Collective

(* Whatever rank 0 does alone, or the ranks together. *)
LEMMA TogetherDealt ==
    ASSUME SoundInv, DealtInv, Primary \/ Collective
    PROVE  DealtInv'
<1>1. UNCHANGED <<conf, items, step, batch, todo, split, at>>
    BY DEF Primary, Publish, WriteModel, WriteRest, Evaluate, Collective, Forward, ReduceGradients,
       ReduceNorm, GatherState, GatherModel, GatherOptimizer, ReduceStats, EnterEval, LeaveEval,
       sourceVars, splitVars
<1>2. \/ UNCHANGED grad
      \/ \A r \in Ranks : pc'[r] = "norm"
    BY DEF Primary, Publish, WriteModel, WriteRest, Evaluate, Collective, Forward, ReduceGradients,
       ReduceNorm, GatherState, GatherModel, GatherOptimizer, ReduceStats, EnterEval, LeaveEval
<1>3. ASSUME NEW r \in Ranks
      PROVE  Dealt(pc'[r], step[r], batch[r], todo[r], split[r], at[r], grad'[r])
    <2>1. Dealt(pc[r], step[r], batch[r], todo[r], split[r], at[r], grad[r])
        BY DEF DealtInv, DealtRank
    <2>2. CASE UNCHANGED grad
        <3>1. \/ pc'[r] = pc[r]
              \/ pc[r] \in Between /\ pc'[r] \in Between
              \/ pc[r] \in AtChunk /\ pc'[r] \in AtChunk
              \/ pc'[r] \in {"norm", "update"}
            BY TogetherPlaces
        <3>2. Between \subseteq Clean \ {"place"}
            BY DEF Between, Clean
        <3> QED
            BY <2>1, <2>2, <3>1, <3>2, DealtOnward
    <2>3. CASE pc'[r] = "norm"
        BY <2>3 DEF Dealt, Clean, Between, AtChunk
    <2> QED
        BY <1>2, <2>2, <2>3
<1> QED
    BY <1>1, <1>3, EachDealt

(* Every step keeps every rank dealt. *)
LEMMA DealtNext == SoundInv /\ BudgetInv /\ GradInv /\ DealtInv /\ [Next]_vars => DealtInv'
<1> SUFFICES ASSUME SoundInv, BudgetInv, GradInv, DealtInv, [Next]_vars PROVE DealtInv'
    OBVIOUS
<1>1. CASE UNCHANGED vars
    <2>1. UNCHANGED <<conf, items, pc, step, batch, todo, split, at, grad>>
        BY <1>1 DEF vars, splitVars
    <2>2. \A r \in Ranks :
             Dealt(pc'[r], step'[r], batch'[r], todo'[r], split'[r], at'[r], grad'[r])
        BY <2>1 DEF DealtInv, DealtRank
    <2> QED
        BY <2>1, <2>2, EachDealt
<1> QED
    BY <1>1, AloneDealt, TogetherDealt DEF Next

-----------------------------------------------------------------------------
(* The gradient the optimizer is given *)

(* The gradient of the loss over a batch as a whole: the gains of its items. *)
LEMMA WholeIs ==
    ASSUME SoundInv, NoBaseline, NEW r \in Ranks, pc[r] \in WithBatch, NEW token \in Tokens
    PROVE  WholeBatch(r)[token] = Total(Gains(step[r], Len(batch[r]), token), batch[r])
<1> DEFINE b == batch[r]
           n == step[r]
           N == Len(b)
           rows == [k \in DOMAIN b |-> IdealRow(items[b[k]], n)]
<1>1. /\ conf \in Confs /\ items \in Seq(GoodItem) /\ n \in Nat /\ b \in Seq(Spots) /\ b # <<>>
    BY DEF SoundInv, SoundRank, Sound
<1>2. WholeBatch(r) = Accumulated(NoGrad, b, rows, 1, 1)
    BY Zenon DEF WholeBatch
<1>3. rows = IdealRows(b, n)
    BY DEF IdealRows
<1> HIDE DEF b, rows, n
<1>4. N \in Nat \ {0}
    BY <1>1
<1>5. Cancels(N, 1, 1, N)
    <2> HIDE DEF N
    <2> QED
        BY <1>4, ShareCancels DEF Cancels
<1>6. WholeBatch(r) = Accumulated(NoGrad, b, IdealRows(b, n), 1, 1)
    BY <1>2, <1>3, Zenon
<1>7. 1 \in Nat /\ 1 \in Nat \ {0}
    OBVIOUS
<1>8. Accumulated(NoGrad, b, IdealRows(b, n), 1, 1)[token]
        = NoGrad[token] + Total(Gains(n, N, token), b)
    BY <1>1, <1>4, <1>5, <1>7, AccumulatedIs
<1>9. NoGrad[token] = 0
    BY DEF NoGrad
<1>10. Total(Gains(n, N, token), b) \in Int
    <2>1. Gains(n, N, token) \in [Spots -> Int]
        BY <1>1, <1>4, GainsInt DEF SpotFunctions
    <2> QED
        BY <1>1, <2>1, TotalInt
<1>11. WholeBatch(r)[token] = Total(Gains(n, N, token), b)
    <2> HIDE DEF N
    <2> QED
        BY <1>6, <1>8, <1>9, <1>10
<1> QED
    BY <1>11 DEF b, n

(* It is what a rank has accumulated when it comes to the reduction. *)
LEMMA ReduceIsWhole ==
    ASSUME SoundInv, DealtInv, NoBaseline, NEW r \in Ranks, pc[r] = "reduce",
           NEW token \in Tokens
    PROVE  grad[r][token] = WholeBatch(r)[token]
<1>1. grad[r][token] = Total(Gains(step[r], Len(batch[r]), token), batch[r])
    BY DEF DealtInv, DealtRank, Dealt
<1>2. pc[r] \in WithBatch
    BY DEF WithBatch, WithChunks
<1> QED
    BY <1>1, <1>2, WholeIs

(* The ranks come to the norm of the gradient from its reduction alone. *)
LEMMA ToNorm ==
    ASSUME SoundInv, Next, AllAt("norm")'
    PROVE  ReduceGradients
<1>0. 0 \in Ranks /\ Ranks' = Ranks /\ pc = [q \in Ranks |-> pc[q]]
    <2>1. Ranks' = Ranks
        BY ConfStays DEF Ranks
    <2> QED
        BY <2>1, ConfFacts DEF SoundInv, ByRank
<1>1. \A r \in Ranks : pc'[r] = "norm"
    BY <1>0 DEF AllAt
<1>2. ASSUME NEW r \in Ranks, Alone(r) PROVE FALSE
    <2>1. \A k, n : Onward(k, n) # "norm"
        BY OnwardBetween DEF Between
    <2>2. ASSUME NEW q, q # "norm", pc' = [pc EXCEPT ![r] = q] PROVE FALSE
        BY <1>0, <1>1, <2>2
    <2>3. PlaceItem(r) => FALSE
        BY <1>0, <1>1 DEF PlaceItem
    <2>4. OpenEpoch(r) \/ RunOut(r) \/ Fetch(r) => FALSE
        BY <2>2 DEF OpenEpoch, RunOut, Fetch, Goto
    <2>5. SortBatch(r) \/ CloseSplit(r) \/ CollateChunk(r) => FALSE
        BY <2>2 DEF SortBatch, CloseSplit, CollateChunk, Goto
    <2>6. Backward(r) => FALSE
        BY <2>2, BackwardIs
    <2>7. Update(r) => FALSE
        <3> DEFINE place == Onward(0, step[r] + 1)
        <3>1. Update(r) => pc' = [pc EXCEPT ![r] = place]
            BY DEF Update, Goto
        <3>2. place # "norm"
            BY <2>1
        <3> HIDE DEF place
        <3> QED
            BY <2>2, <3>1, <3>2
    <2> QED
        BY <1>2, <2>3, <2>4, <2>5, <2>6, <2>7 DEF Alone
<1>3. ASSUME Primary PROVE FALSE
    <2>1. \A save \in {Saving, SavingLast} : save.optimizer # "norm" /\ Saved(save, 0) # "norm"
        BY OnwardBetween DEF Saving, SavingLast, Saved, Between
    <2>2. \A k, n : Onward(k, n) # "norm"
        BY OnwardBetween DEF Between
    <2>3. ASSUME NEW q, q # "norm", pc' = [pc EXCEPT ![0] = q] PROVE FALSE
        BY <1>0, <1>1, <2>3
    <2>4. Publish \/ Evaluate => FALSE
        BY <2>2, <2>3 DEF Publish, Evaluate, Goto
    <2>5. ASSUME NEW save \in {Saving, SavingLast}, WriteModel(save) \/ WriteRest(save) PROVE FALSE
        BY <2>1, <2>3, <2>5 DEF WriteModel, WriteRest, Goto
    <2> QED
        BY <1>3, <2>4, <2>5 DEF Primary
<1>4. ASSUME Collective PROVE ReduceGradients
    <2>1. pc'[0] = "norm"
        BY <1>0, <1>1
    <2>2. \A save \in {Saving, SavingLast} : save.model # "norm" /\ save.rest # "norm"
        BY DEF Saving, SavingLast
    <2>3. \A k, n : Onward(k, n) # "norm"
        BY OnwardBetween DEF Between
    <2> QED
        BY <1>0, <1>4, <2>1, <2>2, <2>3 DEF Collective, Forward, ReduceNorm, GatherState,
           GatherModel, GatherOptimizer, ReduceStats, EnterEval, LeaveEval
<1> QED
    BY <1>2, <1>3, <1>4 DEF Next

(* At the norm, the gradient is that of the batches as wholes. *)
MeanInv == NoBaseline => MacroMean

(* No rank begins at the norm. *)
LEMMA MeanInit == Init => MeanInv
<1> SUFFICES ASSUME Init PROVE ~AllAt("norm")
    BY DEF MeanInv, MacroMean
<1>1. 0 \in Ranks
    BY ConfFacts DEF Init
<1>2. pc[0] \in Between
    BY <1>1, OnwardBetween DEF Init, Between
<1> QED
    BY <1>1, <1>2 DEF AllAt, Between

(* The ranks sum what each has accumulated. *)
LEMMA MeanNext == SoundInv /\ DealtInv /\ MeanInv /\ [Next]_vars => MeanInv'
<1> SUFFICES ASSUME SoundInv, DealtInv, MeanInv, [Next]_vars, NoBaseline', AllAt("norm")'
             PROVE  MacroMean'
    BY DEF MeanInv, MacroMean
<1>1. UNCHANGED <<conf, items>>
    BY ConfStays
<1>2. NoBaseline /\ Ranks' = Ranks /\ Tokens' = Tokens
    BY <1>1 DEF NoBaseline, Ranks, Tokens
<1>3. CASE UNCHANGED vars
    <2>1. UNCHANGED <<conf, items, pc, step, batch, grad>>
        BY <1>3 DEF vars, splitVars
    <2>2. MacroMean' <=> MacroMean
        BY <2>1 DEF MacroMean, AllAt, WholeBatch, Accumulated, MeanPush, NoGrad, Tokens, Ranks
    <2> QED
        BY <1>2, <2>2 DEF MeanInv
<1>4. CASE ReduceGradients
    <2>1. /\ \A r \in Ranks : pc[r] = "reduce"
          /\ grad' = [r \in Ranks |->
                       [token \in Tokens |-> SumFunction([s \in Ranks |-> grad[s][token]])]]
          /\ UNCHANGED <<step, batch>>
        BY <1>4 DEF ReduceGradients, AllAt, splitVars
    <2> DEFINE whole == [r \in Ranks |-> WholeBatch(r)]
    <2>2. \A r \in Ranks : WholeBatch(r)' = WholeBatch(r)
        BY <1>1, <2>1 DEF WholeBatch, Accumulated, MeanPush, NoGrad, Tokens
    <2>3. ASSUME NEW token \in Tokens
          PROVE  SumFunction([s \in Ranks |-> grad[s][token]])
                   = SumFunction([s \in Ranks |-> whole[s][token]])
        <3>1. \A s \in Ranks : grad[s][token] = whole[s][token]
            BY <1>2, <2>1, ReduceIsWhole
        <3>2. [s \in Ranks |-> grad[s][token]] = [s \in Ranks |-> whole[s][token]]
            BY <3>1
        <3> QED
            BY <3>2
    <2>4. whole' = whole
        BY <1>2, <2>2
    <2>5. \A r \in Ranks, token \in Tokens :
             grad'[r][token] = SumFunction([s \in Ranks |-> whole[s][token]])
        BY <2>1, <2>3
    <2>6. MacroMean' <=>
             (AllAt("norm")' => \A r \in Ranks', token \in Tokens' :
                 grad'[r][token] = SumFunction([s \in Ranks' |-> whole'[s][token]]))
        BY DEF MacroMean
    <2> HIDE DEF whole
    <2> QED
        BY <1>2, <2>4, <2>5, <2>6
<1> QED
    BY <1>3, <1>4, ToNorm

-----------------------------------------------------------------------------
(* The trust region *)

(* A sum of what is not negative is not. *)
LEMMA SumAbove ==
    ASSUME NEW f, NEW S, IsFiniteSet(S), \A x \in S : f[x] \in Int /\ f[x] >= 0
    PROVE  SumFunctionOnSet(f, S) \in Int /\ SumFunctionOnSet(f, S) >= 0
<1> DEFINE Bad == {T \in SUBSET S : ~(SumFunctionOnSet(f, T) >= 0)}
<1>0. \A T \in SUBSET S : SumFunctionOnSet(f, T) \in Int
    <2>1. \A T \in SUBSET S : IsFiniteSet(T)
        BY FS_Subset
    <2> QED
        BY <2>1, SumInt
<1> SUFFICES ASSUME Bad # {} PROVE FALSE
    BY <1>0
<1>1. PICK T \in Bad : IsFiniteSet(T) /\ \A x \in T : T \ {x} \notin Bad
    <2>1. Bad \in SUBSET SUBSET S
        OBVIOUS
    <2> HIDE DEF Bad
    <2> QED
        BY <2>1, SmallestException
<1>2. T \in SUBSET S /\ ~(SumFunctionOnSet(f, T) >= 0)
    OBVIOUS
<1>3. T # {}
    BY <1>2, SumEmpty
<1>4. PICK x \in T : TRUE
    BY <1>3
<1>5. SumFunctionOnSet(f, T) = f[x] + SumFunctionOnSet(f, T \ {x})
    BY <1>1, <1>2, SumRemove
<1>6. SumFunctionOnSet(f, T \ {x}) \in Int /\ SumFunctionOnSet(f, T \ {x}) >= 0
    BY <1>0, <1>1, <1>2
<1>7. f[x] \in Int /\ f[x] >= 0
    BY <1>2
<1> QED
    BY <1>2, <1>5, <1>6, <1>7

(* A sum of what is not positive is not. *)
LEMMA SumBelow ==
    ASSUME NEW f, NEW S, IsFiniteSet(S), \A x \in S : f[x] \in Int /\ f[x] <= 0
    PROVE  SumFunctionOnSet(f, S) \in Int /\ SumFunctionOnSet(f, S) <= 0
<1> DEFINE Bad == {T \in SUBSET S : ~(SumFunctionOnSet(f, T) <= 0)}
<1>0. \A T \in SUBSET S : SumFunctionOnSet(f, T) \in Int
    <2>1. \A T \in SUBSET S : IsFiniteSet(T)
        BY FS_Subset
    <2> QED
        BY <2>1, SumInt
<1> SUFFICES ASSUME Bad # {} PROVE FALSE
    BY <1>0
<1>1. PICK T \in Bad : IsFiniteSet(T) /\ \A x \in T : T \ {x} \notin Bad
    <2>1. Bad \in SUBSET SUBSET S
        OBVIOUS
    <2> HIDE DEF Bad
    <2> QED
        BY <2>1, SmallestException
<1>2. T \in SUBSET S /\ ~(SumFunctionOnSet(f, T) <= 0)
    OBVIOUS
<1>3. T # {}
    BY <1>2, SumEmpty
<1>4. PICK x \in T : TRUE
    BY <1>3
<1>5. SumFunctionOnSet(f, T) = f[x] + SumFunctionOnSet(f, T \ {x})
    BY <1>1, <1>2, SumRemove
<1>6. SumFunctionOnSet(f, T \ {x}) \in Int /\ SumFunctionOnSet(f, T \ {x}) <= 0
    BY <1>0, <1>1, <1>2
<1>7. f[x] \in Int /\ f[x] <= 0
    BY <1>2
<1> QED
    BY <1>2, <1>5, <1>6, <1>7

(* A total over a sequence of what has everywhere the same sign. *)
LEMMA TotalSign ==
    ASSUME NEW S, NEW C \in [S -> Int], NEW q \in Seq(S)
    PROVE  /\ Total(C, q) \in Int
           /\ (\A x \in S : C[x] >= 0) => Total(C, q) >= 0
           /\ (\A x \in S : C[x] <= 0) => Total(C, q) <= 0
<1> DEFINE D == DOMAIN q
           f == [k \in D |-> C[q[k]]]
<1>1. IsFiniteSet(D) /\ \A k \in D : q[k] \in S
    BY SeqFacts
<1>2. Total(C, q) = SumFunctionOnSet(f, D)
    BY DEF Total, SumFunction
<1>3. \A k \in D : f[k] = C[q[k]] /\ f[k] \in Int
    BY <1>1
<1> HIDE DEF f, D
<1>4. (\A x \in S : C[x] >= 0) => Total(C, q) >= 0
    BY <1>1, <1>2, <1>3, SumAbove
<1>5. (\A x \in S : C[x] <= 0) => Total(C, q) <= 0
    BY <1>1, <1>2, <1>3, SumBelow
<1> QED
    BY <1>4, <1>5, TotalInt

(* The losses with a trust region. *)
Clipped == {"clipped", "token_clipped", "gmpo"}

(* The clip range of such a loss is not empty.  (Its constructor refuses      *)
(* margins below zero.)                                                      *)
Ranged(loss) ==
    /\ loss.kind \in {"clipped", "token_clipped"} => loss.low <= loss.high
    /\ loss.kind = "gmpo" => -loss.low <= loss.high

(* A push goes where it may. *)
Obeys(push, adv, beyond) ==
    /\ push \in Int
    /\ adv >= 0 => push >= 0
    /\ adv <= 0 => push <= 0
    /\ beyond => push = 0

(* A ratio does not change the sign of an advantage. *)
LEMMA ProductSign ==
    ASSUME NEW ratio \in Nat, NEW adv \in Int
    PROVE  /\ ratio * adv \in Int
           /\ adv >= 0 => ratio * adv >= 0
           /\ adv <= 0 => ratio * adv <= 0
<1>1. adv >= 0 => ratio * adv >= 0
    <2> SUFFICES ASSUME adv >= 0 PROVE ratio * adv >= 0
        OBVIOUS
    <2>1. adv \in Nat
        OBVIOUS
    <2> QED
        BY <2>1, Products
<1>2. adv <= 0 => ratio * adv <= 0
    <2> SUFFICES ASSUME adv <= 0 PROVE ratio * adv <= 0
        OBVIOUS
    <2>1. -adv \in Nat /\ ratio * (-adv) = -(ratio * adv) /\ ratio * adv \in Int
        OBVIOUS
    <2>2. ratio * (-adv) \in Nat
        BY <2>1, Products
    <2> QED
        BY <2>1, <2>2
<1> QED
    BY <1>1, <1>2, Products

(* Dividing a push among tokens leaves it obedient. *)
LEMMA PerTokenObeys ==
    ASSUME NEW w \in Nat, NEW row \in RowOf(w), NEW loss \in LossTerm, NEW adv, NEW beyond,
           NEW push, Obeys(push, adv, beyond)
    PROVE  Obeys(PerToken(loss, row, push), adv, beyond)
<1>1. push \in Int
    BY DEF Obeys
<1> DEFINE p == PerToken(loss, row, push)
<1>2. p \in Int /\ (push >= 0 => p >= 0) /\ (push <= 0 => p <= 0)
    BY <1>1, PerTokenSign
<1> HIDE DEF p
<1> QED
    BY <1>1, <1>2 DEF Obeys, p

(* The losses with a trust region obey it, one token at a time. *)
LEMMA PushObeys ==
    ASSUME NEW w \in Nat, NEW row \in RowOf(w), NEW loss \in LossTerm, NEW adv \in Int,
           NEW t \in ActionTokens(row), loss.kind \in Clipped, Ranged(loss)
    PROVE  Obeys(Push(loss, row, adv, t), adv, Beyond(loss, row, adv, t))
<1>1. t \in 1 .. w /\ loss.low \in Int /\ loss.high \in Int
    BY RowFacts, LossFields
<1>2. Ratio(row, t) \in Nat /\ SeqRatio(loss, row) \in Nat
    BY <1>1, RowFacts
<1>3. ASSUME NEW ratio \in Nat, loss.low <= loss.high
      PROVE  Obeys(SurrogatePush(loss, ratio, adv), adv,
                   (adv > 0 /\ ratio > loss.high) \/ (adv < 0 /\ ratio < loss.low))
    <2> DEFINE push == SurrogatePush(loss, ratio, adv)
    <2>1. push = 0 \/ push = ratio * adv
        BY DEF SurrogatePush
    <2>2. /\ adv > 0 /\ ratio > loss.high => push = 0
          /\ adv < 0 /\ ratio < loss.low => push = 0
        BY <1>1, <1>3, SurrogateInRegion
    <2> HIDE DEF push
    <2>3. push \in Int /\ (adv >= 0 => push >= 0) /\ (adv <= 0 => push <= 0)
        BY <2>1, ProductSign
    <2> QED
        BY <2>2, <2>3 DEF Obeys, push
<1>4. CASE loss.kind = "clipped"
    <2>1. Push(loss, row, adv, t) = PerToken(loss, row, SurrogatePush(loss, SeqRatio(loss, row), adv))
        BY <1>4 DEF Push, SequenceClippedPush
    <2>2. Beyond(loss, row, adv, t) =
             ((adv > 0 /\ SeqRatio(loss, row) > loss.high) \/ (adv < 0 /\ SeqRatio(loss, row) < loss.low))
        BY <1>4 DEF Beyond
    <2>3. loss.low <= loss.high
        BY <1>4 DEF Ranged
    <2> QED
        BY <1>2, <1>3, <2>1, <2>2, <2>3, PerTokenObeys
<1>5. CASE loss.kind = "token_clipped"
    <2>1. Push(loss, row, adv, t) = PerToken(loss, row, SurrogatePush(loss, Ratio(row, t), adv))
        BY <1>5 DEF Push, TokenClippedPush
    <2>2. Beyond(loss, row, adv, t) =
             ((adv > 0 /\ Ratio(row, t) > loss.high) \/ (adv < 0 /\ Ratio(row, t) < loss.low))
        BY <1>5 DEF Beyond
    <2>3. loss.low <= loss.high
        BY <1>5 DEF Ranged
    <2> QED
        BY <1>2, <1>3, <2>1, <2>2, <2>3, PerTokenObeys
<1>6. CASE loss.kind = "gmpo"
    <2> DEFINE x == Signed(row, adv, t)
               gated == GeometricRatio(loss, row, adv) <= loss.cap /\ SignedMin(loss, row, adv, t) = x
               push == PerToken(loss, row, GeometricRatio(loss, row, adv) * adv)
    <2>1. Push(loss, row, adv, t) = IF gated THEN push ELSE 0
        BY <1>6 DEF Push, GmpoPush
    <2>2. x \in Int /\ GeometricRatio(loss, row, adv) \in Nat
        BY <1>1, GmpoInt
    <2>3. Obeys(push, adv, FALSE)
        <3>1. Obeys(GeometricRatio(loss, row, adv) * adv, adv, FALSE)
            BY <2>2, ProductSign DEF Obeys
        <3> QED
            BY <3>1, PerTokenObeys
    <2>4. x > loss.high => SignedMin(loss, row, adv, t) # x
        <3> SUFFICES ASSUME x > loss.high PROVE SignedMin(loss, row, adv, t) # x
            OBVIOUS
        <3>1. -loss.low <= loss.high
            BY <1>6 DEF Ranged
        <3>2. SignedMin(loss, row, adv, t) = Smaller(x, Clamp(x, -loss.low, loss.high))
            BY DEF SignedMin
        <3> HIDE DEF x
        <3>3. Clamp(x, -loss.low, loss.high) = loss.high
            BY <1>1, <2>2, <3>1 DEF Clamp
        <3> QED
            BY <1>1, <2>2, <3>2, <3>3 DEF Smaller
    <2>5. Beyond(loss, row, adv, t) = (x > loss.high)
        BY <1>6 DEF Beyond
    <2>6. gated => ~(x > loss.high)
        BY <2>4
    <2> HIDE DEF x, gated, push
    <2>7. CASE gated
        <3>1. ~Beyond(loss, row, adv, t) /\ Push(loss, row, adv, t) = push
            BY <2>1, <2>5, <2>6, <2>7
        <3> QED
            BY <2>3, <3>1 DEF Obeys
    <2>8. CASE ~gated
        BY <2>1, <2>8 DEF Obeys
    <2> QED
        BY <2>7, <2>8
<1> QED
    BY <1>4, <1>5, <1>6 DEF Clipped

(* A loss with a trust region stands alone, and its clip range is not empty. *)
Clipping ==
    \A k \in DOMAIN conf.algo.terms :
        conf.algo.terms[k].kind \in Clipped =>
            Len(conf.algo.terms) = 1 /\ Ranged(conf.algo.terms[k])

(* So does what an item adds to the gradient. *)
LEMMA GainObeys ==
    ASSUME conf \in Confs, items \in Seq(GoodItem), NEW loss, conf.algo.terms = <<loss>>,
           loss.kind \in Clipped, Ranged(loss), NEW n \in Nat, NEW total \in Nat \ {0},
           NEW i \in Spots, NEW t \in ActionTokens(IdealRow(items[i], n))
    PROVE  Obeys(Gain(n, total, i, t), items[i].weight,
                 Beyond(loss, IdealRow(items[i], n), items[i].weight, t))
<1> DEFINE row == IdealRow(items[i], n)
           adv == items[i].weight
           push == Push(loss, row, adv, t)
           f == [k \in DOMAIN conf.algo.terms |-> (Fine * Push(conf.algo.terms[k], row, adv, t)) \div total]
           beyond == Beyond(loss, row, adv, t)
<1>1. loss \in LossTerm
    <2>1. \A k \in DOMAIN conf.algo.terms : conf.algo.terms[k] \in LossTerm
        BY TermsFacts
    <2>2. 1 \in DOMAIN <<loss>> /\ <<loss>>[1] = loss
        OBVIOUS
    <2> QED
        BY <2>1, <2>2
<1>2. items[i] \in GoodItem /\ adv \in Int
    <2>1. items[i] \in GoodItem
        BY SpotGood
    <2> QED
        BY <2>1 DEF GoodItem, Item
<1>3. Width(items[i]) \in Nat /\ row \in RowOf(Width(items[i]))
    BY <1>2, IdealTyped
<1>4. Obeys(push, adv, beyond)
    <2> HIDE DEF row, adv
    <2> QED
        BY <1>1, <1>2, <1>3, PushObeys DEF row
<1>5. Gain(n, total, i, t) = SumFunction(f)
    BY Zenon DEF Gain
<1>6. DOMAIN f = {1} /\ f[1] = (Fine * push) \div total
    <2>1. DOMAIN <<loss>> = {1} /\ <<loss>>[1] = loss
        OBVIOUS
    <2> QED
        BY <2>1
<1> HIDE DEF push, f, beyond
<1>7. push \in Int /\ (adv >= 0 => push >= 0) /\ (adv <= 0 => push <= 0) /\ (beyond => push = 0)
    BY <1>4 DEF Obeys
<1> DEFINE gain == (Fine * push) \div total
<1>8. /\ gain \in Int /\ (push >= 0 => gain >= 0) /\ (push <= 0 => gain <= 0)
      /\ (push = 0 => gain = 0)
    <2> DEFINE x == Fine * push
    <2>1. x \in Int /\ (push >= 0 => x >= 0) /\ (push <= 0 => x <= 0) /\ (push = 0 => x = 0)
        BY <1>7 DEF Fine
    <2> HIDE DEF x
    <2>2. x \div total \in Int /\ (x >= 0 => x \div total >= 0) /\ (x <= 0 => x \div total <= 0)
        BY <2>1, Products
    <2>3. 0 \div total = 0
        BY Products
    <2> QED
        BY <2>1, <2>2, <2>3 DEF x
<1> HIDE DEF gain
<1>9. SumFunction(f) = gain
    <2>1. IsFiniteSet({1}) /\ {1} \ {1} = {}
        BY FS_Singleton
    <2>2. f[1] = gain /\ f[1] \in Int
        BY <1>6, <1>8 DEF gain
    <2>3. \A x \in {1} : f[x] \in Int
        BY <2>2
    <2>4. SumFunctionOnSet(f, {1}) = f[1] + SumFunctionOnSet(f, {1} \ {1})
        BY <2>1, <2>3, SumRemove
    <2>5. SumFunctionOnSet(f, {1} \ {1}) = 0
        BY <2>1, SumEmpty
    <2>6. SumFunctionOnSet(f, {1}) = gain
        BY <2>2, <2>4, <2>5
    <2> QED
        BY <1>6, <2>6 DEF SumFunction
<1>10. Obeys(gain, adv, beyond)
    BY <1>7, <1>8 DEF Obeys
<1> QED
    BY <1>5, <1>9, <1>10 DEF beyond

(* And so does the gradient, to which a token adds only by its own item. *)
LEMMA TrustImplied == SoundInv /\ DealtInv /\ Clipping => TrustRegion
<1> SUFFICES ASSUME SoundInv, DealtInv, Clipping, NEW r \in Ranks,
                    NEW loss \in ToSet(conf.algo.terms), pc[r] = "reduce",
                    loss.kind \in {"clipped", "token_clipped", "gmpo"},
                    NEW i \in ToSet(batch[r]),
                    NEW t \in ActionTokens(IdealRow(items[i], step[r]))
             PROVE  LET row == IdealRow(items[i], step[r])
                    IN  /\ Sign(grad[r][<<i, t>>]) \in {0, Sign(row.weight)}
                        /\ Beyond(loss, row, row.weight, t) => grad[r][<<i, t>>] = 0
    BY DEF TrustRegion
<1> DEFINE terms == conf.algo.terms
           n == step[r]
           b == batch[r]
           N == Len(b)
           row == IdealRow(items[i], n)
           adv == items[i].weight
           token == <<i, t>>
           C == Gains(n, N, token)
           beyond == Beyond(loss, row, adv, t)
<1>1. /\ conf \in Confs /\ items \in Seq(GoodItem) /\ n \in Nat /\ b \in Seq(Spots) /\ b # <<>>
    BY DEF SoundInv, SoundRank, Sound, WithBatch, WithChunks
<1>2. N \in Nat \ {0}
    <2> HIDE DEF b
    <2> QED
        BY <1>1
<1>3. i \in Spots
    BY <1>1 DEF ToSet
<1>4. /\ terms = <<loss>> /\ Ranged(loss) /\ loss.kind \in Clipped
    <2>1. terms \in Seq(LossTerm)
        BY <1>1, ConfFacts
    <2>2. PICK k \in DOMAIN terms : terms[k] = loss
        BY DEF ToSet
    <2>3. Len(terms) = 1 /\ Ranged(loss) /\ loss.kind \in Clipped
        BY <2>2 DEF Clipping, Clipped
    <2> HIDE DEF terms
    <2>4. DOMAIN terms = 1 .. 1 /\ terms = [j \in 1 .. 1 |-> terms[j]]
        BY <2>1, <2>3
    <2>5. terms = <<loss>>
        BY <2>1, <2>2, <2>3, <2>4
    <2> QED
        BY <2>3, <2>5
<1>5. NoBaseline
    <2>1. \A k \in DOMAIN <<loss>> : <<loss>>[k] = loss
        OBVIOUS
    <2> QED
        BY <1>4, <2>1 DEF NoBaseline, Clipped
<1>6. token \in Tokens
    <2>1. items[i] \in GoodItem
        BY <1>1, <1>3, SpotGood
    <2>2. t \in DOMAIN items[i].tokens
        BY <1>1, <2>1, IdealTyped
    <2> QED
        BY <1>3, <2>2 DEF Tokens, Spots
<1>7. grad[r][token] = Total(C, b)
    BY <1>5, <1>6 DEF DealtInv, DealtRank, Dealt
<1>8. Obeys(Gain(n, N, i, t), adv, beyond)
    BY <1>1, <1>2, <1>3, <1>4, GainObeys
<1>9. C \in [Spots -> Int]
    BY <1>1, <1>2, GainsInt DEF SpotFunctions
<1>10. \A j \in Spots : C[j] = 0 \/ C[j] = Gain(n, N, i, t)
    <2>1. token[1] = i /\ token[2] = t
        OBVIOUS
    <2> QED
        BY <2>1 DEF Gains
<1> HIDE DEF C, b, beyond, token, n, N
<1>11. adv \in Int
    <2>1. items[i] \in GoodItem
        BY <1>1, <1>3, SpotGood
    <2> QED
        BY <2>1 DEF GoodItem, Item
<1> HIDE DEF adv
<1>12. /\ grad[r][token] \in Int
       /\ adv >= 0 => grad[r][token] >= 0
       /\ adv <= 0 => grad[r][token] <= 0
       /\ beyond => grad[r][token] = 0
    <2> DEFINE gain == Gain(n, N, i, t)
    <2>1. /\ gain \in Int /\ (adv >= 0 => gain >= 0) /\ (adv <= 0 => gain <= 0)
          /\ (beyond => gain = 0)
        BY <1>8 DEF Obeys
    <2>2. \A j \in Spots : C[j] = 0 \/ C[j] = gain
        BY <1>10
    <2> HIDE DEF gain
    <2>3. /\ Total(C, b) \in Int
          /\ (\A j \in Spots : C[j] >= 0) => Total(C, b) >= 0
          /\ (\A j \in Spots : C[j] <= 0) => Total(C, b) <= 0
        BY <1>1, <1>9, TotalSign
    <2>4. /\ (gain >= 0 => \A j \in Spots : C[j] >= 0)
          /\ (gain <= 0 => \A j \in Spots : C[j] <= 0)
        BY <2>1, <2>2
    <2>5. /\ Total(C, b) \in Int /\ (gain >= 0 => Total(C, b) >= 0)
          /\ (gain <= 0 => Total(C, b) <= 0)
        BY <2>3, <2>4
    <2> QED
        BY <1>7, <2>1, <2>5
<1>13. row.weight = adv
    <2>1. items[i] \in GoodItem
        BY <1>1, <1>3, SpotGood
    <2> QED
        BY <1>1, <2>1, IdealTyped DEF adv
<1>14. Sign(grad[r][token]) \in {0, Sign(row.weight)}
    <2> DEFINE g == grad[r][token]
    <2>1. g \in Int /\ (adv >= 0 => g >= 0) /\ (adv <= 0 => g <= 0)
        BY <1>12
    <2> HIDE DEF g
    <2>2. Sign(g) \in {0, Sign(adv)}
        BY <1>11, <2>1 DEF Sign
    <2> QED
        BY <1>13, <2>2 DEF g
<1>15. Beyond(loss, row, row.weight, t) => grad[r][token] = 0
    BY <1>12, <1>13 DEF beyond
<1> QED
    BY <1>14, <1>15 DEF token, n

-----------------------------------------------------------------------------
(* What holds of the training loop *)

(* What the parts need of one another: that the ranks are sound, within the  *)
(* budget, in step, and dealt, and that gradients are integers.              *)
TrainerInv == SoundInv /\ BudgetInv /\ LockInv /\ GradInv /\ DealtInv /\ MeanInv

(* The inductive invariant of the training loop holds at all times. *)
LEMMA TrainerKept == Spec => []TrainerInv
<1>1. Init => TrainerInv
    BY SoundInit, BudgetInit, LockInit, GradInit, DealtInit, MeanInit DEF TrainerInv
<1>2. TrainerInv /\ [Next]_vars => TrainerInv'
    BY SoundNext, BudgetNext, LockNext, GradNext, DealtNext, MeanNext DEF TrainerInv
<1> QED
    BY <1>1, <1>2, PTL DEF Spec

(* Good items are items. *)
LEMMA TypesImplied == TrainerInv => TypeOK
<1> SUFFICES ASSUME TrainerInv PROVE TypeOK
    OBVIOUS
<1>1. /\ conf \in Confs /\ items \in Seq(GoodItem) /\ served \in 0 .. NumSteps /\ reported \in Int
      /\ ByRank /\ \A r \in Ranks : SoundRank(r)
    BY DEF TrainerInv, SoundInv
<1>2. items \in Seq(Item)
    <2>1. \A i \in DOMAIN items : items[i] \in Item
        BY <1>1 DEF GoodItem
    <2> QED
        BY <1>1, <2>1
<1>3. pc \in [Ranks -> Places] /\ step \in [Ranks -> 0 .. NumSteps] /\ epoch \in [Ranks -> Nat]
    <2>1. \A r \in Ranks : pc[r] \in Places /\ step[r] \in 0 .. NumSteps
        BY <1>1 DEF SoundRank, Sound
    <2> QED
        BY <1>1, <2>1 DEF ByRank
<1>4. merged \in [Ranks -> BOOLEAN]
    BY DEF TrainerInv, LockInv, LockTypes
<1>5. grad \in [Ranks -> [Tokens -> Int]]
    BY DEF TrainerInv, GradInv
<1>6. ASSUME NEW r \in Ranks
      PROVE  /\ \A q \in {left[r], batch[r], todo[r], split[r].current} :
                  \A k \in DOMAIN q : q[k] \in DOMAIN items
             /\ at[r] \in 0 .. Len(Chunks(r))
    <2>1. /\ left[r] \in Seq(Spots) /\ batch[r] \in Seq(Spots) /\ todo[r] \in Seq(Spots)
          /\ split[r] \in SplitOfSpots /\ at[r] \in 0 .. Len(split[r].chunks)
        BY <1>1 DEF SoundRank, Sound
    <2>2. split[r].current \in Seq(Spots)
        BY <2>1, SplitFacts
    <2>3. \A q \in Seq(Spots) : \A k \in DOMAIN q : q[k] \in DOMAIN items
        BY SeqFacts DEF Spots
    <2> QED
        BY <2>1, <2>2, <2>3 DEF Chunks
<1> QED
    BY <1>1, <1>2, <1>3, <1>4, <1>5, <1>6 DEF TypeOK

(* The type invariant: batches, splits and gradients have the shape that the *)
(* rest of the step reckons with, whatever is trained on and however it is   *)
(* cut.                                                                      *)
THEOREM TrainerTypeCorrect == Spec => []TypeOK
<1>1. TrainerInv => TypeOK
    BY TypesImplied
<1> QED
    BY <1>1, TrainerKept, PTL

(* "Scale loss by micro-batch size to preserve macro-batch mean": what the   *)
(* optimizer is given is the gradient of the loss over the batch of each     *)
(* rank as a whole, whatever is trained on, by however many ranks, however   *)
(* the batches are cut and their items truncated.  A baseline is the mean of *)
(* a micro-batch, not of the batch, and is the exception.                    *)
THEOREM MacroMeanKept == Spec => [](NoBaseline => MacroMean)
<1>1. TrainerInv => (NoBaseline => MacroMean)
    BY DEF TrainerInv, MeanInv
<1> QED
    BY <1>1, TrainerKept, PTL

(* The clipped losses never push a token against its advantage, nor further  *)
(* in its direction once its ratio is out of the trust region, whatever      *)
(* other items and micro-batches its batch had.                              *)
THEOREM TrustRegionKept == Spec => [](Clipping => TrustRegion)
<1>1. TrainerInv => (Clipping => TrustRegion)
    BY TrustImplied DEF TrainerInv
<1> QED
    BY <1>1, TrainerKept, PTL
=============================================================================
