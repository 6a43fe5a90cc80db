--------------------------- MODULE MicroBatching ---------------------------
(***************************************************************************)
(* training/batching/micro_batching.py: how the items of a macro-batch are *)
(* truncated, put in order of length and cut into micro-batches, and what  *)
(* the loss finds in the tensors of one.                                   *)
(*                                                                         *)
(* An item is a sequence of tokens, of which the model has chosen some.    *)
(* Of a token are kept its bit of the action mask, its log-probability      *)
(* (base 2) when it was sampled, and drift: how that of the policy in       *)
(* training departs from it with every optimizer step.  The log-probs the  *)
(* item carries are those of its action tokens alone, in order.            *)
(***************************************************************************)
EXTENDS Integers, FiniteSets, SequencesExt

CONSTANTS
    MaxSeqLen,    \* max_seq_len
    TokenBudget,  \* micro_token_budget
    NoLogps       \* actor_logps is None

ASSUME BudgetAssumption ==
    /\ MaxSeqLen \in Nat \ {0}
    /\ TokenBudget \in Nat
    /\ TokenBudget >= MaxSeqLen

ASSUME LogpsAssumption == NoLogps \notin Seq(Int)

(* How many of a set of positions there are up to k; the n-th of them; and    *)
(* what s has at them, in their order.                                       *)
UpTo(S, k) == Cardinality({j \in S : j <= k})
Nth(S, n) == CHOOSE k \in S : UpTo(S, k) = n
Select(s, S) == [n \in 1 .. Cardinality(S) |-> s[Nth(S, n)]]

Token == [action : {0, 1}, sampled : Int, drift : Int]

Item == [rollout : Nat, tokens : Seq(Token), weight : Int, logps : Seq(Int) \union {NoLogps}]

(* Where an item's action tokens are. *)
ActionPositions(item) == {t \in DOMAIN item.tokens : item.tokens[t].action = 1}

(* _truncate_item: the first MaxSeqLen tokens, and the log-probs of those of *)
(* them that are action tokens.                                             *)
Truncate(item) ==
    IF Len(item.tokens) <= MaxSeqLen THEN item
    ELSE LET cut == [item EXCEPT !.tokens = SubSeq(@, 1, MaxSeqLen)]
             kept == Cardinality(ActionPositions(cut))
         IN  [cut EXCEPT !.logps = IF @ = NoLogps THEN @ ELSE SubSeq(@, 1, kept)]

(* Number of tokens of an item after truncation. *)
Width(item) == Cardinality({t \in 1 .. MaxSeqLen : t \in DOMAIN item.tokens})

(* sorted(range(n), key=length): the one stable order of the positions.     *)
Orders(widths) ==
    {p \in [DOMAIN widths -> DOMAIN widths] :
        \A i, j \in DOMAIN widths : i < j =>
            \/ widths[p[i]] < widths[p[j]]
            \/ widths[p[i]] = widths[p[j]] /\ p[i] < p[j]}

(* One turn of split_items_by_token_budget's loop.  A split is the closed   *)
(* micro-batches, the current one and the width of its widest item.         *)
EmptySplit == [chunks |-> <<>>, current |-> <<>>, widest |-> 0]

Wider(split, width) == IF width > split.widest THEN width ELSE split.widest

(* Bug: the item to come is not counted. *)
PlaceOneMore(split, i, width) ==
    IF split.current # <<>> /\ Wider(split, width) * Len(split.current) > TokenBudget
    THEN [chunks |-> Append(split.chunks, split.current), current |-> <<i>>, widest |-> width]
    ELSE [split EXCEPT !.current = Append(@, i), !.widest = Wider(split, width)]

Place(split, i, width) ==
    IF split.current # <<>> /\ Wider(split, width) * (Len(split.current) + 1) > TokenBudget
    THEN [chunks |-> Append(split.chunks, split.current), current |-> <<i>>, widest |-> width]
    ELSE [split EXCEPT !.current = Append(@, i), !.widest = Wider(split, width)]

(* After the loop the current micro-batch, if any, is closed. *)
Close(split) ==
    IF split.current = <<>> THEN split.chunks ELSE Append(split.chunks, split.current)

(* collate_saw_items raises: some items have log-probs and others have not, *)
(* or not as many as action tokens.                                         *)
CollateRaises(items) ==
    /\ \E i \in DOMAIN items : items[i].logps # NoLogps
    /\ \E i \in DOMAIN items :
         \/ items[i].logps = NoLogps
         \/ Len(items[i].logps) # Cardinality(ActionPositions(items[i]))

(* A row of the tensors: the mask, the log-probs under the policy after     *)
(* steps optimizer steps, those of the actor spread over the action tokens, *)
(* and the weight.                                                          *)
Collate(item, steps) ==
    [mask |-> [t \in DOMAIN item.tokens |-> item.tokens[t].action],
     new  |-> [t \in DOMAIN item.tokens |->
                 item.tokens[t].sampled + steps * item.tokens[t].drift],
     old  |-> [t \in DOMAIN item.tokens |->
                 IF item.logps # NoLogps /\ item.tokens[t].action = 1
                 THEN item.logps[UpTo(ActionPositions(item), t)] ELSE 0],
     weight |-> item.weight]
=============================================================================
