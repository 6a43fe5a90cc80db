------------------------------- MODULE Losses -------------------------------
(***************************************************************************)
(* training/loss.py and training/algorithm.py: what the gradient of a loss *)
(* does to the policy.  A loss is reduced to its push: minus its derivative *)
(* by the log-probability of one token of one sample, what gradient descent *)
(* adds to it up to the learning rate.                                     *)
(*                                                                         *)
(* A row is a sample of the collated batch (MicroBatching!Collate).  Pushes *)
(* and ratios are integers in units of 1 / Unit, and 2^x is interpolated    *)
(* between integers, where it is exact: that keeps its order and the side   *)
(* of 1 it is on.                                                           *)
(***************************************************************************)
EXTENDS Integers, FiniteSets, Functions, Sequences

Unit == 48
NoClip == 1000 * Unit

(* Action tokens that have a log-probability: the mask is shifted by one, so *)
(* that the first token, which nothing predicts, is never among them.        *)
ActionTokens(row) == {t \in 2 .. Len(row.mask) : row.mask[t] = 1}

(* token_counts: at least one, for the division. *)
TokenCount(row) == IF ActionTokens(row) = {} THEN 1 ELSE Cardinality(ActionTokens(row))

(* 2^(num/den) in units. *)
Exp(num, den) ==
    LET whole == num \div den
        mantissa == (Unit * (den + (num % den))) \div den
    IN  IF whole >= 0 THEN mantissa * 2^whole ELSE mantissa \div 2^(-whole)

LogRatio(row, t) == row.new[t] - row.old[t]
Ratio(row, t) == Exp(LogRatio(row, t), 1)

(* compute_logp_action against old_logp_action, which is the sum over all   *)
(* action tokens, the first one included.                                   *)
SeqLogRatio(row) ==
    SumFunctionOnSet(row.new, ActionTokens(row))
      - SumFunctionOnSet(row.old, {t \in DOMAIN row.mask : row.mask[t] = 1})

(* Its exponential; with length_normalize the geometric mean over tokens. *)
SeqRatio(loss, row) == Exp(SeqLogRatio(row), IF loss.norm THEN TokenCount(row) ELSE 1)

Clamp(x, low, high) == IF x < low THEN low ELSE IF x > high THEN high ELSE x
Smaller(x, y) == IF x < y THEN x ELSE y
Sign(x) == IF x > 0 THEN 1 ELSE IF x < 0 THEN -1 ELSE 0
Distance(x, y) == IF x > y THEN x - y ELSE y - x

(* The division by the number of action tokens. *)
PerToken(loss, row, push) == IF loss.norm THEN push \div TokenCount(row) ELSE push

-----------------------------------------------------------------------------
(* The losses.  adv is the row's advantage. *)

(* ReinforceLoss: the ratio is a constant factor. *)
ReinforcePush(loss, row, adv, t) == PerToken(loss, row, SeqRatio(loss, row) * adv)

(* MaskedCausalLMCrossEntropyLoss. *)
CrossEntropyPush(loss, row, adv, t) == PerToken(loss, row, Unit * adv)

(* Bug: the ratio is clipped, and no minimum is taken with the raw one. *)
UnclippedPush(loss, ratio, adv) == ratio * adv

(* The derivative of min(r * A, clip(r) * A), r itself cut at ratio_clip:    *)
(* r * A where the raw branch is the smaller one, and else nothing.           *)
SurrogatePush(loss, ratio, adv) ==
    IF /\ ratio <= loss.cap
       /\ ratio * adv <= Clamp(ratio, loss.low, loss.high) * adv
    THEN ratio * adv ELSE 0

(* ClippedSurrogateLoss: one ratio for the sequence, ... *)
SequenceClippedPush(loss, row, adv, t) ==
    PerToken(loss, row, SurrogatePush(loss, SeqRatio(loss, row), adv))

(* ... TokenClippedSurrogateLoss: one for each token. *)
TokenClippedPush(loss, row, adv, t) ==
    PerToken(loss, row, SurrogatePush(loss, Ratio(row, t), adv))

(* CISPOLoss: the clipped ratio is a constant factor. *)
CispoPush(loss, row, adv, t) ==
    PerToken(loss, row, Clamp(Ratio(row, t), loss.low, loss.high) * adv)

(* SAPOLoss: the derivative of the soft gate is 1 at ratio 1 and falls with  *)
(* the distance from it, faster for a higher temperature (in tenths here).   *)
Gate(tau, ratio) == (10 * Unit * Unit) \div (10 * Unit + tau * Distance(ratio, Unit))

SapoPush(loss, row, adv, t) ==
    LET tau == IF adv > 0 THEN loss.tauPos ELSE loss.tauNeg
    IN  PerToken(loss, row, (Gate(tau, Ratio(row, t)) * Ratio(row, t) * adv) \div Unit)

(* GMPOLoss: the log-ratios, with the sign of the advantage and in halves,   *)
(* are clipped and then averaged.                                            *)
Signed(row, adv, t) == 2 * Sign(adv) * LogRatio(row, t)
SignedMin(loss, row, adv, t) ==
    Smaller(Signed(row, adv, t), Clamp(Signed(row, adv, t), -loss.low, loss.high))

GeometricRatio(loss, row, adv) ==
    Exp(SumFunction([t \in ActionTokens(row) |-> Sign(adv) * SignedMin(loss, row, adv, t)]),
        2 * (IF loss.norm THEN TokenCount(row) ELSE 1))

GmpoPush(loss, row, adv, t) ==
    IF /\ GeometricRatio(loss, row, adv) <= loss.cap
       /\ SignedMin(loss, row, adv, t) = Signed(row, adv, t)
    THEN PerToken(loss, row, GeometricRatio(loss, row, adv) * adv) ELSE 0

(* TokenKLLoss. *)
KlPush(loss, row, adv, t) == PerToken(loss, row, -Unit * loss.coeff)

Push(loss, row, adv, t) ==
    CASE loss.kind \in {"reinforce", "baseline"} -> ReinforcePush(loss, row, adv, t)
      [] loss.kind = "cross_entropy" -> CrossEntropyPush(loss, row, adv, t)
      [] loss.kind = "clipped"       -> SequenceClippedPush(loss, row, adv, t)
      [] loss.kind = "token_clipped" -> TokenClippedPush(loss, row, adv, t)
      [] loss.kind = "cispo"         -> CispoPush(loss, row, adv, t)
      [] loss.kind = "sapo"          -> SapoPush(loss, row, adv, t)
      [] loss.kind = "gmpo"          -> GmpoPush(loss, row, adv, t)
      [] loss.kind = "token_kl"      -> KlPush(loss, row, adv, t)

(* A loss is a mean over the rows it is given.  ReinforceBaselineLoss first  *)
(* subtracts their mean weight; Len(rows) times that is an integer.          *)
Advantage(loss, rows, b) ==
    IF loss.kind = "baseline"
    THEN Len(rows) * rows[b].weight - SumFunction([i \in DOMAIN rows |-> rows[i].weight])
    ELSE rows[b].weight

Divisor(loss, rows) == IF loss.kind = "baseline" THEN Len(rows) * Len(rows) ELSE Len(rows)

(* compute raises: the batch lacks the log-probs of the actor, or no row of  *)
(* it is long enough to have a next token.                                   *)
LossRaises(loss, logps, rows) ==
    \/ loss.kind # "cross_entropy" /\ ~logps
    \/ \A b \in DOMAIN rows : Len(rows[b].mask) < 2

-----------------------------------------------------------------------------
(* The presets of algorithm.py: who gives credit, which losses are added up  *)
(* (one, or the terms of a CompositeLoss), and what the preprocessing does.   *)

LossTerm ==
    [kind : {"reinforce", "baseline", "cross_entropy", "clipped", "token_clipped", "cispo",
             "sapo", "gmpo", "token_kl"},
     norm : BOOLEAN, low : Int, high : Int, cap : Int, tauPos : Nat, tauNeg : Nat, coeff : Int]

Term(kind, norm) ==
    [kind |-> kind, norm |-> norm, low |-> -NoClip, high |-> NoClip, cap |-> NoClip,
     tauPos |-> 10, tauNeg |-> 11, coeff |-> 1]
ClippedTerm(kind, norm, low, high) == [Term(kind, norm) EXCEPT !.low = low, !.high = high]

Preset(assigner, terms, drops, validates) ==
    [assigner |-> assigner, terms |-> terms, drops |-> drops, validates |-> validates]

(* The clip ranges around ratio 1, a quarter wide or as good as nothing.      *)
Around(low, high) == [low |-> Unit - low, high |-> Unit + high]
Wide == Around(10, 12)
Narrow == Around(1, 1)

Reinforce(drop) == Preset("montecarlo", <<Term("reinforce", FALSE)>>, drop, FALSE)
ReinforceBaseline(drop) == Preset("montecarlo", <<Term("baseline", FALSE)>>, drop, FALSE)
Grpo(drop, cap) ==
    Preset("group", <<[ClippedTerm("token_clipped", FALSE, Wide.low, Wide.high)
                         EXCEPT !.cap = cap]>>, drop, TRUE)
DrGrpo(drop) ==
    Preset("group", <<ClippedTerm("token_clipped", FALSE, Wide.low, Wide.high)>>, drop, TRUE)
Gspo(drop) ==
    Preset("group", <<ClippedTerm("clipped", TRUE, Narrow.low, Narrow.high)>>, drop, TRUE)
Cispo(drop) ==
    Preset("group", <<ClippedTerm("cispo", TRUE, -NoClip, Unit + 10)>>, drop, TRUE)
Sapo(drop) == Preset("group", <<Term("sapo", FALSE)>>, drop, TRUE)
Gmpo(drop) == Preset("group", <<ClippedTerm("gmpo", TRUE, 1, 1)>>, drop, TRUE)
Sft == Preset("constant", <<Term("cross_entropy", FALSE)>>, FALSE, FALSE)
ScaleRL(kl) ==
    Preset("hybrid",
           <<ClippedTerm("cispo", TRUE, Wide.low, Wide.high)>>
             \o (IF kl THEN <<Term("token_kl", TRUE)>> ELSE <<>>),
           TRUE, TRUE)
=============================================================================
