------------------------ MODULE RolloutEngineProofs ------------------------
(***************************************************************************)
(* Proofs about RolloutEngine, for any data, group size, concurrency and   *)
(* number of calls and failures: the semaphore of a call bounds what it    *)
(* has running, also when it has raised, and the engine implements the     *)
(* safety of BatchService.                                                 *)
(***************************************************************************)
EXTENDS RolloutEngine, RolloutProofs, SequenceTheorems

(* The permits of a call that has begun and its running episodes are as      *)
(* many as the limit; no task of another call exists.                        *)
PermitInv ==
    /\ call \in Nat
    /\ episode = [e \in Episodes |-> episode[e]]
    /\ permits \in [Calls -> Nat]
    /\ \A c \in Calls :
         IF c <= call THEN permits[c] + Cardinality(Running(c)) = Limit
         ELSE permits[c] = 0 /\ \A i \in Index : episode[<<c, i>>] = "none"

LEMMA RunningFinite == \A c : IsFiniteSet(Running(c)) /\ Cardinality(Running(c)) \in Nat
<1>1. IsFiniteSet(Index)
    BY FS_Interval, EngineAssumption, CreditAssumption DEF Index
<1>2. \A c : Running(c) \subseteq Index
    BY DEF Running
<1> QED
    BY <1>1, <1>2, FS_Subset, FS_CardinalityType

LEMMA LimitPositive == Limit \in Nat \ {0}
BY EngineAssumption DEF Limit

LEMMA PermitInit == Init => PermitInv
<1> SUFFICES ASSUME Init PROVE PermitInv
    OBVIOUS
<1>1. /\ call = 0 /\ episode = [e \in Episodes |-> "none"] /\ permits = [c \in Calls |-> 0]
    BY DEF Init
<1>2. \A c \in Calls : c > 0
    BY EngineAssumption DEF Calls
<1> QED
    BY <1>1, <1>2, EngineAssumption DEF PermitInv, Episodes, Calls

(* An episode of a call takes the permit it runs with, ... *)
LEMMA StartPermit ==
    ASSUME PermitInv, NEW e \in Episodes, StartEpisode(e)
    PROVE  PermitInv'
<1>1. PICK c \in Calls, i \in Index : e = <<c, i>>
    BY DEF Episodes
<1>2. /\ episode[<<c, i>>] = "waiting" /\ permits[c] > 0 /\ call' = call
      /\ episode' = [episode EXCEPT ![<<c, i>>] = "running"]
      /\ permits' = [permits EXCEPT ![c] = @ - 1]
    BY <1>1 DEF StartEpisode
<1>3. permits[c] \in Nat /\ c <= call /\ permits[c] + Cardinality(Running(c)) = Limit
    BY <1>2 DEF PermitInv
<1>4. \A d \in Calls, j \in Index :
        episode'[<<d, j>>] = IF d = c /\ j = i THEN "running" ELSE episode[<<d, j>>]
    BY <1>2 DEF PermitInv, Episodes
<1>5. Running(c)' = Running(c) \union {i} /\ i \notin Running(c)
    BY <1>2, <1>4 DEF Running
<1>6. Cardinality(Running(c)') = Cardinality(Running(c)) + 1
    BY <1>5, RunningFinite, FS_AddElement
<1>7. \A d \in Calls \ {c} : Running(d)' = Running(d) /\ permits'[d] = permits[d]
    BY <1>2, <1>4 DEF Running, PermitInv
<1>8. permits'[c] = permits[c] - 1 /\ permits' \in [Calls -> Nat]
    BY <1>2, <1>3 DEF PermitInv
<1>9. permits'[c] + Cardinality(Running(c)') = Limit
    BY <1>3, <1>6, <1>8, RunningFinite
<1> QED
    BY <1>2, <1>3, <1>4, <1>7, <1>8, <1>9 DEF PermitInv

(* ... and gives it back when it ends, be it by failing. *)
LEMMA EndPermit ==
    ASSUME PermitInv, NEW e \in Episodes, EndEpisode(e) \/ FailEpisode(e)
    PROVE  PermitInv'
<1>1. PICK c \in Calls, i \in Index : e = <<c, i>>
    BY DEF Episodes
<1>2. PICK over \in {"done", "failed"} :
        /\ episode[<<c, i>>] = "running" /\ call' = call
        /\ episode' = [episode EXCEPT ![<<c, i>>] = over]
        /\ permits' = [permits EXCEPT ![c] = @ + 1]
    BY <1>1 DEF EndEpisode, FailEpisode
<1>3. permits[c] \in Nat /\ c <= call /\ permits[c] + Cardinality(Running(c)) = Limit
    BY <1>2 DEF PermitInv
<1>4. \A d \in Calls, j \in Index :
        episode'[<<d, j>>] = IF d = c /\ j = i THEN over ELSE episode[<<d, j>>]
    BY <1>2 DEF PermitInv, Episodes
<1>5. Running(c)' = Running(c) \ {i} /\ i \in Running(c)
    BY <1>2, <1>4 DEF Running
<1>6. Cardinality(Running(c)') = Cardinality(Running(c)) - 1
    BY <1>5, RunningFinite, FS_RemoveElement
<1>7. \A d \in Calls \ {c} : Running(d)' = Running(d) /\ permits'[d] = permits[d]
    BY <1>2, <1>4 DEF Running, PermitInv
<1>8. permits'[c] = permits[c] + 1 /\ permits' \in [Calls -> Nat]
    BY <1>2, <1>3 DEF PermitInv
<1>9. permits'[c] + Cardinality(Running(c)') = Limit
    BY <1>3, <1>6, <1>8, RunningFinite
<1> QED
    BY <1>2, <1>3, <1>4, <1>7, <1>8, <1>9 DEF PermitInv

(* A call begins with a semaphore of its own and none of its tasks running.  *)
LEMMA BeginPermit ==
    ASSUME PermitInv, NextBatch
    PROVE  PermitInv'
<1>0. call < MaxCalls /\ call + 1 \in Calls
    BY EngineAssumption DEF NextBatch, PermitInv, Calls
<1>n. PICK n \in Calls : n = call + 1
    BY <1>0
<1>m. n \in Nat /\ call \in Nat /\ ~(n <= call)
    BY <1>n DEF PermitInv
<1>1. call' = n /\ permits' = [permits EXCEPT ![n] = Limit]
    BY <1>n DEF NextBatch
<1>2. PICK reqs :
        episode' = [e \in Episodes |->
                      IF e[1] = call + 1 /\ e[2] \in DOMAIN reqs THEN "waiting" ELSE episode[e]]
    BY DEF NextBatch
<1>3. \A d \in Calls, j \in Index :
        episode'[<<d, j>>] =
          IF d = n /\ j \in DOMAIN reqs THEN "waiting" ELSE episode[<<d, j>>]
    BY <1>n, <1>2 DEF Episodes
<1>4. Running(n)' = {}
    <2>1. \A i \in Index : episode[<<n, i>>] = "none"
        BY <1>m DEF PermitInv
    <2> QED
        BY <1>3, <2>1 DEF Running
<1>5. Cardinality(Running(n)') = 0
    BY <1>4, FS_EmptySet
<1>6. \A d \in Calls \ {n} : Running(d)' = Running(d) /\ permits'[d] = permits[d]
    BY <1>1, <1>3 DEF Running, PermitInv
<1>7. permits'[n] = Limit /\ permits' \in [Calls -> Nat]
    BY <1>1, LimitPositive DEF PermitInv
<1>8. episode' = [e \in Episodes |-> episode'[e]]
    BY <1>2
<1>9. ASSUME NEW d \in Calls
      PROVE  IF d <= call' THEN permits'[d] + Cardinality(Running(d)') = Limit
             ELSE permits'[d] = 0 /\ \A i \in Index : episode'[<<d, i>>] = "none"
    <2>1. d \in Nat /\ call \in Nat
        BY EngineAssumption DEF Calls, PermitInv
    <2>2. CASE d = n
        BY <1>n, <1>1, <1>5, <1>7, <2>1, <2>2, LimitPositive
    <2>3. CASE d <= call
        BY <1>n, <1>1, <1>6, <2>1, <2>3 DEF PermitInv
    <2>4. CASE d > n
        <3>1. ~(d <= call) /\ ~(d <= call') /\ d # n
            BY <1>n, <1>m, <1>1, <2>1, <2>4
        <3>2. permits[d] = 0 /\ \A i \in Index : episode[<<d, i>>] = "none"
            BY <3>1 DEF PermitInv
        <3> QED
            BY <1>3, <1>6, <3>1, <3>2
    <2> QED
        BY <1>n, <1>m, <2>1, <2>2, <2>3, <2>4
<1> QED
    BY <1>n, <1>1, <1>7, <1>8, <1>9 DEF PermitInv

LEMMA PermitNext == PermitInv /\ [Next]_vars => PermitInv'
<1> SUFFICES ASSUME PermitInv, [Next]_vars PROVE PermitInv'
    OBVIOUS
<1>1. ASSUME UNCHANGED <<call, episode, permits>> PROVE PermitInv'
    BY <1>1 DEF PermitInv, Running
<1>2. CASE RunOut \/ GatherRaises \/ GatherReturns \/ UNCHANGED vars
    BY <1>1, <1>2 DEF RunOut, GatherRaises, GatherReturns, vars, taskVars
<1> QED
    BY <1>2, StartPermit, EndPermit, BeginPermit DEF Next, Task

(* At most max(1, concurrency) episodes of a call run at once, for any       *)
(* number of calls and failures: the semaphore of generate_rollouts.         *)
THEOREM CallWithinLimitAlways == Spec => []CallWithinLimit
<1>1. PermitInv => CallWithinLimit
    <2> SUFFICES ASSUME PermitInv, NEW c \in Calls PROVE Cardinality(Running(c)) <= Limit
        BY DEF CallWithinLimit
    <2>1. CASE c <= call
        BY <2>1, RunningFinite, LimitPositive DEF PermitInv
    <2>2. CASE ~(c <= call)
        <3>1. Running(c) = {}
            BY <2>2 DEF PermitInv, Running
        <3> QED
            BY <3>1, FS_EmptySet, LimitPositive
    <2> QED
        BY <2>1, <2>2
<1> QED
    BY PermitInit, PermitNext, <1>1, PTL DEF Spec

-----------------------------------------------------------------------------
(* The refinement of BatchService *)

(* What a step of the service depends on: the samples left are samples, and  *)
(* no answer of an earlier call is about while the next one is awaited.      *)
CallInv ==
    /\ conf \in Confs
    /\ call \in Nat
    /\ requests = [c \in Calls |-> requests[c]]
    /\ upcoming \in Seq(1 .. NumSamples)
    /\ phase \in {"idle", "awaiting", "stopped"}
    /\ call # 0 => call \in Calls
    /\ phase = "awaiting" => call # 0 /\ batch = NoBatch

LEMMA CallInit == Init => CallInv
<1> SUFFICES ASSUME Init PROVE CallInv
    OBVIOUS
<1>1. [i \in 1 .. NumSamples |-> i] \in Seq(1 .. NumSamples)
    BY EngineAssumption
<1> QED
    BY <1>1 DEF Init, CallInv

(* The samples of a fetch, and those it leaves. *)
LEMMA FetchesSamples ==
    ASSUME CallInv, NEW fetch \in Fetches
    PROVE  /\ fetch[1] \in Seq(1 .. NumSamples) /\ fetch[2] \in Seq(1 .. NumSamples)
           /\ Len(fetch[1]) <= PerCall
<1> DEFINE Samples == 1 .. NumSamples
           S == Seq(Samples)
<1>1. ASSUME NEW samples \in S, NEW n \in Nat, n <= Len(samples)
      PROVE  Cut(samples, n)[1] \in S /\ Cut(samples, n)[2] \in S /\ Len(Cut(samples, n)[1]) = n
    <2> HIDE DEF Samples
    <2>1. Len(samples) \in Nat /\ \A i \in 1 .. Len(samples) : samples[i] \in Samples
        BY <1>1
    <2>2. \A i \in 1 .. n : samples[i] \in Samples
        BY <1>1, <2>1
    <2>3. SubSeq(samples, 1, n) \in S /\ Len(SubSeq(samples, 1, n)) = n
        BY <1>1, <2>2, SubSeqProperties
    <2>4. \A i \in n + 1 .. Len(samples) : samples[i] \in Samples
        BY <1>1, <2>1
    <2>5. SubSeq(samples, n + 1, Len(samples)) \in S
        BY <2>1, <2>4, SubSeqProperties
    <2> QED
        BY <2>3, <2>5 DEF Cut
<1>2. PerCall \in Nat /\ NumSamples \in Nat \ {0} /\ PerCall <= NumSamples
    BY EngineAssumption
<1>3. upcoming \in S /\ Len(upcoming) \in Nat
    BY DEF CallInv
<1>4. ASSUME Len(upcoming) >= PerCall, fetch = Cut(upcoming, PerCall)
      PROVE  fetch[1] \in S /\ fetch[2] \in S /\ Len(fetch[1]) <= PerCall
    <2>1. PerCall <= Len(upcoming)
        BY <1>2, <1>3, <1>4
    <2> QED
        BY <1>1, <1>2, <1>3, <1>4, <2>1
<1>5. ASSUME Len(upcoming) < PerCall, fetch = Cut(upcoming, Len(upcoming))
      PROVE  fetch[1] \in S /\ fetch[2] \in S /\ Len(fetch[1]) <= PerCall
    <2>1. Len(upcoming) <= Len(upcoming)
        BY <1>3
    <2>2. /\ Cut(upcoming, Len(upcoming))[1] \in S /\ Cut(upcoming, Len(upcoming))[2] \in S
          /\ Len(Cut(upcoming, Len(upcoming))[1]) = Len(upcoming)
        BY <1>1, <1>3, <2>1
    <2> QED
        BY <1>2, <1>3, <1>5, <2>2
<1>6. ASSUME NEW order \in Orders, fetch = Cut(upcoming \o order, PerCall)
      PROVE  fetch[1] \in S /\ fetch[2] \in S /\ Len(fetch[1]) <= PerCall
    <2>1. order \in [Samples -> Samples]
        BY <1>2 DEF Orders
    <2>2. order \in S /\ Len(order) = NumSamples
        BY <1>2, <2>1
    <2>3. upcoming \o order \in S /\ Len(upcoming \o order) = Len(upcoming) + NumSamples
        BY <1>3, <2>2, ConcatProperties
    <2>4. PerCall <= Len(upcoming \o order)
        BY <1>2, <1>3, <2>3
    <2>5. /\ Cut(upcoming \o order, PerCall)[1] \in S /\ Cut(upcoming \o order, PerCall)[2] \in S
          /\ Len(Cut(upcoming \o order, PerCall)[1]) = PerCall
        BY <1>1, <1>2, <2>3, <2>4
    <2> QED
        BY <1>2, <1>6, <2>5
<1> QED
    BY <1>2, <1>3, <1>4, <1>5, <1>6 DEF Fetches

(* The quotient by g of a number below g * n is below n. *)
LEMMA DivBelow ==
    ASSUME NEW g \in Nat \ {0}, NEW n \in Nat, NEW m \in Nat, m < g * n
    PROVE  m \div g \in 0 .. n - 1 /\ m % g \in Nat
<1> DEFINE q == m \div g
<1>1. q \in Nat /\ m % g \in 0 .. g - 1 /\ m = g * q + (m % g)
    OBVIOUS
<1> HIDE DEF q
<1>2. ASSUME q >= n PROVE FALSE
    <2>1. q - n \in Nat /\ g * (q - n) = g * q - g * n
        BY <1>1, <1>2
    <2>2. g * (q - n) \in Nat /\ g * q \in Nat /\ g * n \in Nat
        BY <1>1, <2>1
    <2> QED
        BY <1>1, <2>1, <2>2
<1>3. q < n
    BY <1>1, <1>2
<1> QED
    BY <1>1, <1>3 DEF q

(* A number is (b - 1) * g + v with v below g for one b and one v only. *)
LEMMA DivUnique ==
    ASSUME NEW g \in Nat \ {0}, NEW m \in Nat, NEW q \in Nat
    PROVE  m \div g = q <=> m \in g * q .. g * q + g - 1
<1> DEFINE p == m \div g
           v == m % g
<1>1. p \in Nat /\ v \in 0 .. g - 1 /\ m = g * p + v
    OBVIOUS
<1> HIDE DEF p, v
<1>2. ASSUME NEW x \in Nat, NEW y \in Nat, x < y PROVE g * x + g <= g * y
    <2>1. y - x - 1 \in Nat /\ g * (y - x - 1) = g * y - g * x - g
        BY <1>2
    <2>2. g * (y - x - 1) \in Nat /\ g * x \in Nat /\ g * y \in Nat
        BY <2>1
    <2> QED
        BY <2>1, <2>2
<1>3. g * p \in Nat /\ g * q \in Nat
    BY <1>1
<1>4. CASE p = q
    BY <1>1, <1>3, <1>4 DEF p
<1>5. CASE p < q
    <2>1. g * p + g <= g * q
        BY <1>1, <1>2, <1>5
    <2> QED
        BY <1>1, <1>3, <1>5, <2>1 DEF p
<1>6. CASE q < p
    <2>1. g * q + g <= g * p
        BY <1>1, <1>2, <1>6
    <2> QED
        BY <1>1, <1>3, <1>6, <2>1 DEF p
<1> QED
    BY <1>1, <1>4, <1>5, <1>6

(* The requests of the dataset, before the strategy. *)
Plain == [sample : 1 .. NumSamples, envSeed : Nat, samplingSeed : Nat, group : {NoGroup}]

(* The requests of a group, by position. *)
Members(reqs, group) == {k \in DOMAIN reqs : reqs[k].group = group}

(* As many as the assigner expects; they share sample and environment seed   *)
(* with one request, and no two of them the seed they are sampled with.      *)
WholeGroup(reqs, group, one) ==
    /\ Cardinality(Members(reqs, group)) = GroupSize
    /\ \A k \in Members(reqs, group) :
         reqs[k].sample = one.sample /\ reqs[k].envSeed = one.envSeed
    /\ \A j, k \in Members(reqs, group) :
         reqs[j].samplingSeed = reqs[k].samplingSeed => j = k

(* GRPORequestStrategy.expand makes groups of exactly GroupSize requests:    *)
(* they share sample and environment seed, and no two of them the seed they  *)
(* are sampled with.  For every group size and every list of requests.       *)
THEOREM GroupsWhole ==
    ASSUME NEW n \in Nat, NEW reqs,
           reqs \in [1 .. n -> Plain],
           NEW b \in 1 .. n
    PROVE  WholeGroup(Expand(reqs), <<call + 1, b>>, reqs[b])
<1> DEFINE base(k) == ((k - 1) \div GroupSize) + 1
           variant(k) == (k - 1) % GroupSize
           members == {k \in DOMAIN Expand(reqs) : Expand(reqs)[k].group = <<call + 1, b>>}
<1>1. GroupSize \in Nat \ {0} /\ Len(reqs) = n
    BY CreditAssumption
<1>2. GroupSize * n \in Nat /\ GroupSize * b \in Nat /\ GroupSize * (b - 1) \in Nat
      /\ GroupSize * (b - 1) = GroupSize * b - GroupSize
    BY <1>1
<1>3. GroupSize * b <= GroupSize * n
    <2>1. n - b \in Nat /\ GroupSize * (n - b) = GroupSize * n - GroupSize * b
        BY <1>1
    <2>2. GroupSize * (n - b) \in Nat
        BY <1>1, <2>1
    <2> QED
        BY <1>2, <2>1, <2>2
<1>4. DOMAIN Expand(reqs) = 1 .. GroupSize * n
    BY <1>1 DEF Expand
<1>5. ASSUME NEW k \in 1 .. GroupSize * n
      PROVE  /\ base(k) \in 1 .. n /\ variant(k) \in Nat
             /\ k - 1 = GroupSize * (base(k) - 1) + variant(k)
             /\ Expand(reqs)[k].sample = reqs[base(k)].sample
             /\ Expand(reqs)[k].envSeed = reqs[base(k)].envSeed
             /\ Expand(reqs)[k].samplingSeed = reqs[base(k)].samplingSeed + variant(k)
             /\ Expand(reqs)[k].group = <<call + 1, base(k)>>
    <2>1. k - 1 \in Nat /\ k - 1 < GroupSize * n
        BY <1>2
    <2>2. base(k) \in 1 .. n /\ variant(k) \in Nat
        <3>1. (k - 1) \div GroupSize \in 0 .. n - 1 /\ variant(k) \in Nat
            BY <1>1, <2>1, DivBelow
        <3> QED
            BY <3>1
    <2>3. k - 1 = GroupSize * (base(k) - 1) + variant(k)
        BY <1>1, <2>1
    <2>4. Expand(reqs)[k] =
            [reqs[base(k)] EXCEPT !.samplingSeed = @ + variant(k),
                                  !.group = <<call + 1, base(k)>>]
        BY <1>1 DEF Expand
    <2> HIDE DEF base, variant
    <2>5. reqs[base(k)] \in Plain
        BY <2>2
    <2> QED
        BY <2>2, <2>3, <2>4, <2>5
<1>6. members = {k \in 1 .. GroupSize * n : base(k) = b}
    <2> HIDE DEF base
    <2>1. \A k \in 1 .. GroupSize * n : Expand(reqs)[k].group = <<call + 1, b>> <=> base(k) = b
        BY <1>5
    <2> QED
        BY <1>4, <2>1
<1>7. members = GroupSize * (b - 1) + 1 .. GroupSize * b
    <2>1. ASSUME NEW k \in 1 .. GroupSize * n
          PROVE  base(k) = b <=> k \in GroupSize * (b - 1) + 1 .. GroupSize * b
        <3>1. k - 1 \in Nat /\ b - 1 \in Nat
            BY <1>2
        <3>2. (k - 1) \div GroupSize = b - 1
                <=> k - 1 \in GroupSize * (b - 1) .. GroupSize * (b - 1) + GroupSize - 1
            BY <1>1, <3>1, DivUnique
        <3>3. (k - 1) \div GroupSize \in Int
            BY <1>1, <3>1
        <3> QED
            BY <1>1, <1>2, <3>1, <3>2, <3>3
    <2>2. GroupSize * (b - 1) + 1 .. GroupSize * b \subseteq 1 .. GroupSize * n
        BY <1>2, <1>3
    <2> HIDE DEF base, members
    <2> QED
        BY <1>6, <2>1, <2>2
<1>9. \A k \in members : k \in 1 .. GroupSize * n /\ base(k) = b
    BY <1>6
<1> HIDE DEF base, variant, members
<1>8. Cardinality(members) = GroupSize
    <2> DEFINE lo == GroupSize * (b - 1) + 1
               hi == GroupSize * b
    <2>1. lo \in Int /\ hi \in Int /\ lo <= hi /\ hi - lo + 1 = GroupSize /\ members = lo .. hi
        BY <1>1, <1>2, <1>7
    <2> HIDE DEF lo, hi
    <2> QED
        BY <2>1, FS_Interval
<1>10. \A k \in members : /\ Expand(reqs)[k].sample = reqs[b].sample
                          /\ Expand(reqs)[k].envSeed = reqs[b].envSeed
    BY <1>5, <1>9
<1>11. ASSUME NEW j \in members, NEW k \in members,
              Expand(reqs)[j].samplingSeed = Expand(reqs)[k].samplingSeed
       PROVE  j = k
    <2>1. /\ Expand(reqs)[j].samplingSeed = reqs[b].samplingSeed + variant(j)
          /\ Expand(reqs)[k].samplingSeed = reqs[b].samplingSeed + variant(k)
          /\ variant(j) \in Nat /\ variant(k) \in Nat
        BY <1>5, <1>9
    <2>4. reqs[b].samplingSeed \in Nat
        BY DEF Plain
    <2>2. variant(j) = variant(k)
        <3>1. reqs[b].samplingSeed + variant(j) = reqs[b].samplingSeed + variant(k)
            BY <1>11, <2>1
        <3> DEFINE s == reqs[b].samplingSeed
                   x == variant(j)
                   y == variant(k)
        <3>2. s \in Nat /\ x \in Nat /\ y \in Nat /\ s + x = s + y
            BY <2>1, <2>4, <3>1
        <3> HIDE DEF s, x, y
        <3>3. x = y
            BY <3>2
        <3> QED
            BY <3>3 DEF x, y
    <2>3. j - 1 = GroupSize * (b - 1) + variant(j) /\ k - 1 = GroupSize * (b - 1) + variant(k)
          /\ j \in Int /\ k \in Int
        BY <1>5, <1>9
    <2> QED
        BY <1>2, <2>2, <2>3
<1>12. Members(Expand(reqs), <<call + 1, b>>) = members
    BY DEF Members, members
<1> QED
    BY <1>8, <1>10, <1>11, <1>12 DEF WholeGroup

(* What the strategy makes of the requests of a call are requests. *)
LEMMA ExpandedRequests ==
    ASSUME NEW reqs, NEW n \in 0 .. PerCall, call + 1 \in Calls,
           reqs \in [1 .. n -> Plain]
    PROVE  Expanded(reqs) \in Seq(Request)
<1>1. /\ PerCall \in Nat /\ GroupSize \in Nat \ {0} /\ n \in Nat /\ n <= PerCall
      /\ Len(reqs) = n
    BY EngineAssumption, CreditAssumption
<1>2. CASE GroupSize = 1
    <2>1. \A k \in 1 .. n : reqs[k] \in Request
        BY DEF Request, Plain
    <2>2. reqs = [k \in 1 .. n |-> reqs[k]]
        OBVIOUS
    <2> QED
        BY <1>1, <1>2, <2>1, <2>2 DEF Expanded
<1>3. CASE GroupSize # 1
    <2>1. ASSUME NEW k \in 1 .. GroupSize * n
          PROVE  Expand(reqs)[k] \in Request
        <3> DEFINE base == ((k - 1) \div GroupSize) + 1
                   variant == (k - 1) % GroupSize
        <3>1. k - 1 \in Nat /\ k - 1 < GroupSize * n /\ GroupSize * n \in Nat
            BY <1>1
        <3>2. variant \in Nat /\ base \in 1 .. n
            <4>1. (k - 1) \div GroupSize \in 0 .. n - 1 /\ variant \in Nat
                BY <1>1, <3>1, DivBelow
            <4> QED
                BY <1>1, <4>1
        <3> HIDE DEF base, variant
        <3>3. /\ reqs[base].sample \in 1 .. NumSamples /\ reqs[base].envSeed \in Nat
              /\ reqs[base].samplingSeed \in Nat
              /\ reqs[base] \in Plain
            BY <3>2 DEF Plain
        <3>4. <<call + 1, base>> \in Calls \X (1 .. PerCall)
            BY <1>1, <3>2
        <3>5. reqs[base].samplingSeed + variant \in Nat
            BY <3>2, <3>3
        <3>6. [reqs[base] EXCEPT !.samplingSeed = @ + variant, !.group = <<call + 1, base>>]
                \in Request
            BY <3>3, <3>4, <3>5 DEF Request, Plain
        <3>7. Expand(reqs)[k] =
                [reqs[base] EXCEPT !.samplingSeed = @ + variant, !.group = <<call + 1, base>>]
            BY <1>1 DEF Expand, base, variant
        <3> QED
            BY <3>6, <3>7
    <2>2. Expand(reqs) = [k \in 1 .. GroupSize * n |-> Expand(reqs)[k]]
        BY <1>1 DEF Expand
    <2>3. GroupSize * n \in Nat
        BY <1>1
    <2> HIDE DEF Expand
    <2> QED
        BY <1>3, <2>1, <2>2, <2>3 DEF Expanded
<1> QED
    BY <1>2, <1>3

(* Expanded or without a group: what the assigners with a group contract    *)
(* take, and what makes the members of a group comparable.                   *)
Whole(reqs) ==
    \A k \in DOMAIN reqs :
      IF GroupSize = 1 THEN reqs[k].group = NoGroup
      ELSE /\ reqs[k].group # NoGroup
           /\ WholeGroup(reqs, reqs[k].group, reqs[k])

LEMMA ExpandedWhole ==
    ASSUME NEW reqs, NEW n \in 0 .. PerCall, call + 1 \in Calls,
           reqs \in [1 .. n -> Plain]
    PROVE  Whole(Expanded(reqs)) /\ DOMAIN Expanded(reqs) \subseteq Index
<1>1. /\ PerCall \in Nat /\ GroupSize \in Nat \ {0} /\ n \in Nat /\ n <= PerCall
      /\ Len(reqs) = n /\ DOMAIN reqs = 1 .. n
    BY EngineAssumption, CreditAssumption
<1>2. CASE GroupSize = 1
    <2>1. DOMAIN reqs \subseteq Index
        BY <1>1, <1>2 DEF Index
    <2> QED
        BY <1>1, <1>2, <2>1 DEF Expanded, Whole, Plain
<1>3. CASE GroupSize # 1
    <2> DEFINE all == Expand(reqs)
    <2>1. Expanded(reqs) = all /\ DOMAIN all = 1 .. GroupSize * n
        BY <1>1, <1>3 DEF Expanded, Expand
    <2>2. DOMAIN all \subseteq Index
        <3>1. GroupSize * n <= PerCall * GroupSize /\ GroupSize * n \in Nat
              /\ PerCall * GroupSize \in Nat
            <4>1. PerCall - n \in Nat
                BY <1>1
            <4>2. GroupSize * (PerCall - n) \in Nat
                BY <1>1, <4>1
            <4>3. GroupSize * (PerCall - n) = PerCall * GroupSize - GroupSize * n
                BY <1>1
            <4>4. GroupSize * n \in Nat /\ PerCall * GroupSize \in Nat
                BY <1>1
            <4> QED
                BY <4>2, <4>3, <4>4
        <3> QED
            BY <2>1, <3>1 DEF Index
    <2>3. ASSUME NEW k \in DOMAIN all
          PROVE  /\ all[k].group # NoGroup
                 /\ WholeGroup(all, all[k].group, all[k])
        <3> DEFINE b == ((k - 1) \div GroupSize) + 1
        <3>1. b \in 1 .. n
            <4>1. k - 1 \in Nat /\ k - 1 < GroupSize * n
                BY <1>1, <2>1
            <4>2. (k - 1) \div GroupSize \in 0 .. n - 1
                BY <1>1, <4>1, DivBelow
            <4> QED
                BY <1>1, <4>2
        <3>2. all[k].group = <<call + 1, b>>
            <4>1. reqs[b] \in Plain
                BY <3>1
            <4> HIDE DEF Plain
            <4> QED
                BY <1>1, <2>1, <4>1 DEF Expand, Plain
        <3> HIDE DEF b, all
        <3>3. all[k].group # NoGroup
            BY <1>1, <3>1, <3>2, EngineAssumption DEF Calls
        <3>4. WholeGroup(all, <<call + 1, b>>, reqs[b])
            <4> HIDE DEF Plain
            <4> QED
                BY <1>1, <3>1, GroupsWhole DEF all
        <3>5. k \in Members(all, all[k].group)
            BY DEF Members
        <3>6. /\ all[k].sample = reqs[b].sample /\ all[k].envSeed = reqs[b].envSeed
              /\ all[k].group = <<call + 1, b>>
            BY <3>2, <3>4, <3>5 DEF WholeGroup
        <3>7. WholeGroup(all, all[k].group, all[k])
            <4> HIDE DEF Members
            <4> QED
                BY <3>4, <3>6 DEF WholeGroup
        <3> QED
            BY <3>3, <3>7
    <2> HIDE DEF all
    <2> QED
        BY <1>3, <2>1, <2>2, <2>3 DEF Whole
<1> QED
    BY <1>2, <1>3

(* The requests of a call, and what a step of next_batch does with them. *)
LEMMA BatchRequests ==
    ASSUME CallInv, NextBatch
    PROVE  /\ call + 1 \in Calls
           /\ upcoming' \in Seq(1 .. NumSamples)
           /\ \E reqs \in Seq(Request) :
                /\ requests' = [requests EXCEPT ![call + 1] = reqs]
                /\ Whole(reqs) /\ DOMAIN reqs \subseteq Index
                /\ episode' = [e \in Episodes |->
                                 IF e[1] = call + 1 /\ e[2] \in DOMAIN reqs
                                 THEN "waiting" ELSE episode[e]]
<1>1. call + 1 \in Calls
    BY EngineAssumption DEF NextBatch, CallInv, Calls
<1>2. PICK fetch \in Fetches :
        LET reqs == Expanded([i \in DOMAIN fetch[1] |-> BuildRequest(fetch[1][i])])
        IN  /\ upcoming' = fetch[2]
            /\ requests' = [requests EXCEPT ![call + 1] = reqs]
            /\ episode' = [e \in Episodes |->
                             IF e[1] = call + 1 /\ e[2] \in DOMAIN reqs
                             THEN "waiting" ELSE episode[e]]
    BY DEF NextBatch
<1> DEFINE reqs == [i \in DOMAIN fetch[1] |-> BuildRequest(fetch[1][i])]
           n == Len(fetch[1])
<1>3. /\ fetch[1] \in Seq(1 .. NumSamples) /\ fetch[2] \in Seq(1 .. NumSamples)
      /\ n \in 0 .. PerCall /\ DOMAIN fetch[1] = 1 .. n
    BY FetchesSamples, EngineAssumption
<1> HIDE DEF n
<1>4. \A i \in 1 .. n : fetch[1][i] \in 1 .. NumSamples
    <2> DEFINE Samples == 1 .. NumSamples
    <2>1. fetch[1] \in Seq(Samples)
        BY <1>3
    <2> HIDE DEF Samples
    <2>2. \A i \in DOMAIN fetch[1] : fetch[1][i] \in Samples
        BY <2>1
    <2> QED
        BY <1>3, <2>2 DEF Samples
<1>5. \A sample \in 1 .. NumSamples :
        BuildRequest(sample) \in Plain
    BY EngineAssumption DEF BuildRequest, Plain
<1>6. reqs \in [1 .. n -> Plain]
    BY <1>3, <1>4, <1>5
<1> HIDE DEF reqs
<1>7. Expanded(reqs) \in Seq(Request)
    BY <1>1, <1>3, <1>6, ExpandedRequests
<1>8. Whole(Expanded(reqs)) /\ DOMAIN Expanded(reqs) \subseteq Index
    BY <1>1, <1>3, <1>6, ExpandedWhole
<1> QED
    BY <1>1, <1>2, <1>3, <1>7, <1>8 DEF reqs

LEMMA CallNext == CallInv /\ [Next]_vars => CallInv'
<1> SUFFICES ASSUME CallInv, [Next]_vars PROVE CallInv'
    OBVIOUS
<1>1. CASE NextBatch
    <2>1. /\ conf' = conf /\ call' = call + 1 /\ phase' = "awaiting" /\ batch' = NoBatch
          /\ requests' = [c \in Calls |-> requests'[c]]
        BY <1>1 DEF NextBatch, CallInv
    <2> QED
        BY <1>1, <2>1, BatchRequests DEF CallInv, NoBatch
<1>2. CASE RunOut
    BY <1>2 DEF RunOut, CallInv
<1>3. CASE GatherRaises \/ GatherReturns
    BY <1>3 DEF GatherRaises, GatherReturns, CallInv
<1>4. ASSUME NEW e \in Episodes, Task(e) PROVE CallInv'
    BY <1>4 DEF Task, StartEpisode, EndEpisode, FailEpisode, CallInv, NoBatch
<1>5. CASE UNCHANGED vars
    BY <1>5 DEF vars, CallInv, NoBatch
<1> QED
    BY <1>1, <1>2, <1>3, <1>4, <1>5 DEF Next

(* A function without arguments is the empty sequence: there is no answer.   *)
LEMMA NoAnswer == ASSUME NEW f, f = [k \in DOMAIN NoBatch.of |-> f[k]] PROVE f = <<>>
<1>1. DOMAIN f = 1 .. 0
    BY DEF NoBatch
<1>2. f \in Seq({}) /\ Len(f) = 0
    BY <1>1 DEF NoBatch
<1> QED
    BY <1>2, EmptySeq

(* Every step is a step of the service, or none. *)
LEMMA ServiceStep == CallInv /\ [Next]_vars => [Service!ServiceNext]_Service!serviceVars
<1> SUFFICES ASSUME CallInv, [Next]_vars
             PROVE  [Service!ServiceNext]_Service!serviceVars
    OBVIOUS
<1> DEFINE status == IF phase = "awaiting" THEN "busy" ELSE phase
           asked  == IF call = 0 \/ phase = "stopped" THEN <<>> ELSE requests[call]
           answer == [k \in DOMAIN batch.of |-> requests[batch.of[k][1]][batch.of[k][2]]]
<1>0. answer = [k \in DOMAIN batch.of |-> answer[k]]
    OBVIOUS
<1>1. ASSUME batch = NoBatch PROVE answer = <<>>
    BY <1>1, NoAnswer
<1>2. ASSUME batch' = NoBatch PROVE answer' = <<>>
    <2>1. answer' = [k \in DOMAIN NoBatch.of |-> answer'[k]]
        BY <1>2
    <2> HIDE DEF answer
    <2> QED
        BY <2>1, NoAnswer
<1>3. CASE NextBatch
    <2>1. /\ phase = "idle" /\ phase' = "awaiting" /\ batch' = NoBatch
          /\ call' = call + 1 /\ conf' = conf /\ call \in Nat
        BY <1>3 DEF NextBatch, CallInv
    <2>2. PICK reqs \in Seq(Request) : requests' = [requests EXCEPT ![call + 1] = reqs]
        BY <1>3, BatchRequests
    <2>3. asked' = reqs
        BY <1>3, <2>1, <2>2, BatchRequests DEF CallInv
    <2> HIDE DEF answer, asked
    <2>4. Service!Ask
        BY <1>2, <2>1, <2>2, <2>3 DEF Service!Ask, asked, answer
    <2> QED
        BY <2>4 DEF Service!ServiceNext
<1>4. CASE RunOut
    <2>1. Service!Exhausted
        BY <1>2, <1>4 DEF RunOut, Service!Exhausted
    <2> QED
        BY <2>1 DEF Service!ServiceNext
<1>5. CASE GatherRaises
    <2>1. /\ phase = "awaiting" /\ phase' = "idle" /\ call # 0 /\ batch' = NoBatch
          /\ UNCHANGED <<conf, call, requests>>
        BY <1>5 DEF GatherRaises, CallInv
    <2>2. answer' = <<>> /\ asked' = asked
        BY <1>2, <2>1
    <2>3. Service!Raise
        BY <2>1, <2>2 DEF Service!Raise
    <2> QED
        BY <2>3 DEF Service!ServiceNext
<1>6. CASE GatherReturns
    <2>1. /\ phase = "awaiting" /\ phase' = "idle" /\ call # 0 /\ call \in Nat
          /\ UNCHANGED <<conf, call, requests>>
        BY <1>6 DEF GatherReturns, CallInv
    <2>2. batch' = NoBatch \/ batch' = Collated(Gathered)
        BY <1>6 DEF GatherReturns
    <2>3. CASE batch' = NoBatch
        <3>1. answer' = <<>> /\ asked' = asked
            BY <1>2, <2>1, <2>3
        <3>2. Service!Raise
            BY <2>1, <3>1 DEF Service!Raise
        <3> QED
            BY <3>2 DEF Service!ServiceNext
    <2>4. CASE batch' = Collated(Gathered)
        <3>1. batch'.of = Gathered
            BY <2>4 DEF Collated
        <3>2. conf.agents \in Nat \ {0} /\ asked = requests[call] /\ asked' = asked
            BY <2>1, EngineAssumption DEF CallInv
        <3> DEFINE whole == [k \in 1 .. conf.agents * Len(asked) |->
                               asked[((k - 1) \div conf.agents) + 1]]
        <3>3. answer' = whole
            <4>1. DOMAIN Gathered = 1 .. conf.agents * Len(requests[call])
                BY DEF Gathered
            <4>2. \A k \in DOMAIN Gathered :
                    /\ Gathered[k][1] = call
                    /\ Gathered[k][2] = ((k - 1) \div conf.agents) + 1
                BY DEF Gathered
            <4> HIDE DEF Gathered
            <4>3. answer' = [k \in DOMAIN Gathered |-> requests[Gathered[k][1]][Gathered[k][2]]]
                BY <2>1, <3>1
            <4>4. \A k \in DOMAIN Gathered :
                    requests[Gathered[k][1]][Gathered[k][2]] =
                      asked[((k - 1) \div conf.agents) + 1]
                BY <3>2, <4>2
            <4>5. DOMAIN Gathered = 1 .. conf.agents * Len(asked)
                BY <3>2, <4>1
            <4> HIDE DEF answer, asked
            <4> QED
                BY <4>3, <4>4, <4>5
        <3> HIDE DEF answer, asked
        <3>4. Service!Answer
            BY <2>1, <3>2, <3>3 DEF Service!Answer, asked, answer
        <3> QED
            BY <3>4 DEF Service!ServiceNext
    <2> QED
        BY <2>2, <2>3, <2>4
<1>7. ASSUME UNCHANGED <<conf, phase, call, requests, batch>>
      PROVE  UNCHANGED Service!serviceVars
    BY <1>7 DEF Service!serviceVars
<1>8. ASSUME NEW e \in Episodes, Task(e) PROVE UNCHANGED Service!serviceVars
    BY <1>7, <1>8 DEF Task, StartEpisode, EndEpisode, FailEpisode
<1>9. CASE UNCHANGED vars
    BY <1>7, <1>9 DEF vars
<1> QED
    BY <1>3, <1>4, <1>5, <1>6, <1>8, <1>9 DEF Next

(* To its caller the engine is a batch source: an answer consists of the     *)
(* rollouts of the call's own requests, all of them and in order, however    *)
(* the tasks interleave and whatever an earlier call has left running.       *)
THEOREM ServiceRefined == Spec => Service!ServiceSafe
<1>1. Init => Service!ServiceInit
    <2> SUFFICES ASSUME Init PROVE Service!ServiceInit
        OBVIOUS
    <2>1. conf \in Confs /\ phase = "idle" /\ call = 0 /\ batch = NoBatch
        BY DEF Init
    <2>2. [k \in DOMAIN batch.of |-> requests[batch.of[k][1]][batch.of[k][2]]] = <<>>
        BY <2>1, NoAnswer
    <2> QED
        BY <2>1, <2>2, EngineAssumption DEF Service!ServiceInit
<1> QED
    BY <1>1, CallInit, CallNext, ServiceStep, PTL DEF Spec, Service!ServiceSafe
-----------------------------------------------------------------------------
(* Types *)

(* What the other invariants leave open: an episode has no line in the log   *)
(* before it ends, and one for each agent once it is done.                   *)
TaskInv ==
    /\ conf \in Confs
    /\ requests \in [Calls -> Seq(Request)]
    /\ episode \in [Episodes -> TaskStates]
    /\ logged \in [Episodes -> 0 .. conf.agents]
    /\ \A e \in Episodes :
         /\ logged[e] # 0 => episode[e] \in {"done", "failed"}
         /\ episode[e] = "done" => logged[e] = conf.agents
    /\ faults \in 0 .. MaxFaults

LEMMA TaskInit == Init => TaskInv
<1> SUFFICES ASSUME Init PROVE TaskInv
    OBVIOUS
<1>1. <<>> \in Seq(Request)
    OBVIOUS
<1> QED
    BY <1>1, EngineAssumption DEF Init, TaskInv, TaskStates

LEMMA TaskNext == TaskInv /\ CallInv /\ PermitInv /\ [Next]_vars => TaskInv'
<1> SUFFICES ASSUME TaskInv, CallInv, PermitInv, [Next]_vars PROVE TaskInv'
    OBVIOUS
<1>1. CASE NextBatch
    <2>1. UNCHANGED <<conf, logged, faults>>
        BY <1>1 DEF NextBatch
    <2>2. PICK reqs \in Seq(Request) :
            /\ requests' = [requests EXCEPT ![call + 1] = reqs]
            /\ episode' = [e \in Episodes |->
                             IF e[1] = call + 1 /\ e[2] \in DOMAIN reqs
                             THEN "waiting" ELSE episode[e]]
        BY <1>1, BatchRequests
    <2>3. requests' \in [Calls -> Seq(Request)] /\ episode' \in [Episodes -> TaskStates]
        BY <2>2 DEF TaskInv, TaskStates
    <2>4. ASSUME NEW e \in Episodes
          PROVE  /\ logged[e] # 0 => episode'[e] \in {"done", "failed"}
                 /\ episode'[e] = "done" => logged[e] = conf.agents
        <3>1. PICK c \in Calls, i \in Index : e = <<c, i>>
            BY DEF Episodes
        <3>2. CASE episode[e] = "none"
            <4>1. logged[e] = 0 /\ episode'[e] \in {"waiting", "none"}
                BY <2>2, <3>2 DEF TaskInv
            <4> QED
                BY <4>1
        <3>3. CASE episode[e] # "none"
            <4>1. c <= call /\ call \in Nat /\ c \in Nat
                <5>1. c <= call
                    BY <3>1, <3>3 DEF PermitInv
                <5> QED
                    BY <5>1 DEF CallInv, Calls
            <4>2. e[1] # call + 1
                BY <3>1, <4>1
            <4>3. episode'[e] = episode[e]
                BY <2>2, <4>2
            <4> QED
                BY <4>3 DEF TaskInv
        <3> QED
            BY <3>2, <3>3
    <2> QED
        BY <2>1, <2>3, <2>4 DEF TaskInv
<1>2. CASE RunOut \/ GatherRaises \/ GatherReturns \/ UNCHANGED vars
    BY <1>2 DEF RunOut, GatherRaises, GatherReturns, vars, taskVars, TaskInv
<1>3. ASSUME NEW e \in Episodes, StartEpisode(e) PROVE TaskInv'
    BY <1>3 DEF StartEpisode, TaskInv, TaskStates
<1>4. ASSUME NEW e \in Episodes, EndEpisode(e) PROVE TaskInv'
    <2>1. /\ episode[e] = "running" /\ episode' = [episode EXCEPT ![e] = "done"]
          /\ logged' = [logged EXCEPT ![e] = @ + conf.agents]
          /\ UNCHANGED <<conf, requests, faults>>
        BY <1>4 DEF EndEpisode
    <2>2. logged[e] = 0 /\ conf.agents \in Nat
        BY <2>1, EngineAssumption DEF TaskInv
    <2>3. logged' \in [Episodes -> 0 .. conf.agents] /\ logged'[e] = conf.agents
        BY <2>1, <2>2 DEF TaskInv
    <2> QED
        BY <2>1, <2>3 DEF TaskInv, TaskStates
<1>5. ASSUME NEW e \in Episodes, FailEpisode(e) PROVE TaskInv'
    <2>1. PICK n \in 0 .. conf.agents - 1 :
            /\ episode[e] = "running" /\ episode' = [episode EXCEPT ![e] = "failed"]
            /\ logged' = [logged EXCEPT ![e] = @ + n]
            /\ faults < MaxFaults /\ faults' = faults + 1
            /\ UNCHANGED <<conf, requests>>
        BY <1>5 DEF FailEpisode
    <2>2. logged[e] = 0 /\ conf.agents \in Nat
        BY <2>1, EngineAssumption DEF TaskInv
    <2>3. logged' \in [Episodes -> 0 .. conf.agents]
        BY <2>1, <2>2 DEF TaskInv
    <2>4. faults' \in 0 .. MaxFaults
        BY <2>1, EngineAssumption DEF TaskInv
    <2> QED
        BY <2>1, <2>3, <2>4 DEF TaskInv, TaskStates
<1> QED
    BY <1>1, <1>2, <1>3, <1>4, <1>5 DEF Next, Task

(* Every variable keeps its type, for any data set, group size, concurrency  *)
(* and number of calls and failures: an episode logs each agent's rollout    *)
(* at most once, one that returns exactly once, and a semaphore never holds more than its call began with.          *)
THEOREM EngineTypeCorrect == Spec => []TypeOK
<1>1. TaskInv /\ CallInv /\ PermitInv => TypeOK
    <2> SUFFICES ASSUME TaskInv, CallInv, PermitInv PROVE TypeOK
        OBVIOUS
    <2>1. ASSUME NEW c \in Calls PROVE permits[c] \in 0 .. Limit
        <3>1. permits[c] \in Nat
            BY DEF PermitInv
        <3>2. CASE c <= call
            BY <3>1, <3>2, RunningFinite, LimitPositive DEF PermitInv
        <3>3. CASE ~(c <= call)
            BY <3>3, LimitPositive DEF PermitInv
        <3> QED
            BY <3>2, <3>3
    <2>2. permits \in [Calls -> 0 .. Limit]
        BY <2>1 DEF PermitInv
    <2>3. call \in 0 .. MaxCalls
        BY EngineAssumption DEF CallInv, Calls
    <2> QED
        BY <2>2, <2>3 DEF TaskInv, CallInv, TypeOK
<1> QED
    BY <1>1, TaskInit, TaskNext, CallInit, CallNext, PermitInit, PermitNext, PTL DEF Spec

-----------------------------------------------------------------------------
(* What the assigner gets *)

(* The requests of the call are those of its tasks and make whole groups,    *)
(* and while it waits the episodes that are done have returned a rollout for *)
(* each agent.                                                               *)
WorkInv ==
    /\ rollouts = [e \in Episodes |-> rollouts[e]]
    /\ call # 0 =>
         /\ Whole(requests[call]) /\ DOMAIN requests[call] \subseteq Index
         /\ \A i \in Index : episode[<<call, i>>] # "none" <=> i \in DOMAIN requests[call]
         /\ phase = "awaiting" =>
              \A i \in Index : episode[<<call, i>>] = "done" =>
                rollouts[<<call, i>>] \in [1 .. conf.agents -> conf.shapes]

EngineInv == PermitInv /\ CallInv /\ TaskInv /\ WorkInv

LEMMA WorkInit == Init => WorkInv
BY DEF Init, WorkInv, NoRollouts

(* A step of a task leaves the requests alone and its episode created. *)
LEMMA TaskWork ==
    ASSUME EngineInv, NEW e \in Episodes, Task(e)
    PROVE  WorkInv'
<1>1. PICK c \in Calls, i \in Index : e = <<c, i>>
    BY DEF Episodes
<1>2. /\ episode \in [Episodes -> TaskStates]
      /\ rollouts = [d \in Episodes |-> rollouts[d]]
      /\ call # 0 => call \in Calls
    BY DEF EngineInv, TaskInv, WorkInv, CallInv
<1>3. UNCHANGED <<conf, call, phase, requests>> /\ episode[e] \in {"waiting", "running"}
    BY DEF Task, StartEpisode, EndEpisode, FailEpisode
<1>4. PICK state \in {"running", "done", "failed"} :
        /\ episode' = [episode EXCEPT ![e] = state]
        /\ state = "done" => EndEpisode(e)
        /\ state # "done" => rollouts' = rollouts
    BY DEF Task, StartEpisode, EndEpisode, FailEpisode
<1>5. ASSUME state = "done"
      PROVE  \E shapes \in [1 .. conf.agents -> conf.shapes] :
               rollouts' = IF Awaited(e) THEN [rollouts EXCEPT ![e] = shapes] ELSE rollouts
    BY <1>4, <1>5 DEF EndEpisode
<1>6. rollouts' = [d \in Episodes |-> rollouts'[d]]
    BY <1>2, <1>4, <1>5
<1>7. ASSUME call # 0, NEW j \in Index
      PROVE  /\ episode'[<<call, j>>] # "none" <=> j \in DOMAIN requests[call]
             /\ phase = "awaiting" /\ episode'[<<call, j>>] = "done" =>
                  rollouts'[<<call, j>>] \in [1 .. conf.agents -> conf.shapes]
    <2>1. <<call, j>> \in Episodes
        BY <1>2, <1>7 DEF Episodes
    <2>2. /\ episode[<<call, j>>] # "none" <=> j \in DOMAIN requests[call]
          /\ phase = "awaiting" /\ episode[<<call, j>>] = "done" =>
               rollouts[<<call, j>>] \in [1 .. conf.agents -> conf.shapes]
        BY <1>7 DEF EngineInv, WorkInv
    <2>3. CASE e = <<call, j>>
        <3>1. episode'[<<call, j>>] = state /\ episode[<<call, j>>] # "none"
            BY <1>2, <1>3, <1>4, <2>1, <2>3
        <3>2. phase = "awaiting" /\ state = "done" =>
                rollouts'[<<call, j>>] \in [1 .. conf.agents -> conf.shapes]
            BY <1>1, <1>2, <1>5, <2>1, <2>3 DEF Awaited
        <3> QED
            BY <2>2, <3>1, <3>2
    <2>4. CASE e # <<call, j>>
        <3>1. episode'[<<call, j>>] = episode[<<call, j>>]
            BY <1>2, <1>4, <2>1, <2>4
        <3>2. rollouts'[<<call, j>>] = rollouts[<<call, j>>]
            BY <1>2, <1>4, <1>5, <2>1, <2>4
        <3> QED
            BY <2>2, <3>1, <3>2
    <2> QED
        BY <2>3, <2>4
<1>8. call # 0 => Whole(requests[call]) /\ DOMAIN requests[call] \subseteq Index
    BY DEF EngineInv, WorkInv
<1>9. Whole(requests[call])' <=> Whole(requests[call])
    BY <1>3 DEF Whole
<1> QED
    BY <1>3, <1>6, <1>7, <1>8, <1>9 DEF WorkInv

LEMMA WorkNext == EngineInv /\ [Next]_vars => WorkInv'
<1> SUFFICES ASSUME EngineInv, [Next]_vars PROVE WorkInv'
    OBVIOUS
<1> USE DEF EngineInv
<1>1. CASE NextBatch
    <2>1. call' = call + 1 /\ call + 1 \in Calls /\ phase' = "awaiting" /\ rollouts' = rollouts
        BY <1>1, BatchRequests DEF NextBatch
    <2>2. PICK reqs \in Seq(Request) :
            /\ requests' = [requests EXCEPT ![call + 1] = reqs]
            /\ Whole(reqs) /\ DOMAIN reqs \subseteq Index
            /\ episode' = [e \in Episodes |->
                             IF e[1] = call + 1 /\ e[2] \in DOMAIN reqs
                             THEN "waiting" ELSE episode[e]]
        BY <1>1, BatchRequests
    <2>3. requests'[call'] = reqs
        BY <2>1, <2>2 DEF CallInv
    <2>4. Whole(requests'[call'])
        BY <2>2, <2>3
    <2>5. ASSUME NEW i \in Index
          PROVE  episode'[<<call', i>>] = IF i \in DOMAIN reqs THEN "waiting" ELSE "none"
        <3>1. <<call', i>> \in Episodes
            BY <2>1 DEF Episodes
        <3>2. episode[<<call', i>>] = "none"
            <4>1. ~(call + 1 <= call)
                BY DEF CallInv
            <4> QED
                BY <2>1, <4>1 DEF PermitInv
        <3> QED
            BY <2>1, <2>2, <3>1, <3>2
    <2>6. ASSUME NEW i \in Index
          PROVE  /\ episode'[<<call', i>>] # "none" <=> i \in DOMAIN requests'[call']
                 /\ episode'[<<call', i>>] # "done"
        BY <2>3, <2>5
    <2>7. rollouts' = [e \in Episodes |-> rollouts'[e]] /\ DOMAIN requests'[call'] \subseteq Index
        BY <2>1, <2>2, <2>3 DEF WorkInv
    <2> QED
        BY <2>4, <2>6, <2>7 DEF WorkInv
<1>2. CASE RunOut
    BY <1>2 DEF RunOut, taskVars, WorkInv, Whole
<1>3. CASE GatherRaises \/ GatherReturns
    BY <1>3 DEF GatherRaises, GatherReturns, NoRollouts, WorkInv, Whole
<1>4. ASSUME NEW e \in Episodes, Task(e) PROVE WorkInv'
    BY <1>4, TaskWork
<1>5. CASE UNCHANGED vars
    BY <1>5 DEF vars, taskVars, WorkInv, Whole
<1> QED
    BY <1>1, <1>2, <1>3, <1>4, <1>5 DEF Next

LEMMA EngineInit == Init => EngineInv
BY PermitInit, CallInit, TaskInit, WorkInit DEF EngineInv

LEMMA EngineNext == EngineInv /\ [Next]_vars => EngineInv'
BY PermitNext, CallNext, TaskNext, WorkNext DEF EngineInv

(* Of the whole part and the rest of a division by g, both are in range. *)
LEMMA DivParts ==
    ASSUME NEW g \in Nat \ {0}, NEW n \in Nat, NEW k \in 1 .. g * n
    PROVE  ((k - 1) \div g) + 1 \in 1 .. n /\ ((k - 1) % g) + 1 \in 1 .. g
<1>1. k - 1 \in Nat /\ k - 1 < g * n
    OBVIOUS
<1>2. (k - 1) \div g \in 0 .. n - 1
    BY <1>1, DivBelow
<1>3. (k - 1) % g \in 0 .. g - 1
    BY <1>1
<1> QED
    BY <1>2, <1>3

(* All the episodes of the call are done. *)
AllDone == phase = "awaiting" /\ \A i \in Created(call) : episode[<<call, i>>] = "done"

(* The assigner sees a rollout for each agent of each request, in order, of  *)
(* the group of its request, and what it sums is a number.                   *)
LEMMA GatheredView ==
    ASSUME EngineInv, AllDone
    PROVE  LET reqs == requests[call]
               view == CreditView(Gathered)
           IN  /\ DOMAIN Gathered = 1 .. conf.agents * Len(reqs) /\ DOMAIN view = DOMAIN Gathered
               /\ \A k \in DOMAIN Gathered :
                    /\ Gathered[k] = <<call, ((k - 1) \div conf.agents) + 1>>
                    /\ ((k - 1) \div conf.agents) + 1 \in DOMAIN reqs
                    /\ view[k].group = reqs[((k - 1) \div conf.agents) + 1].group
                    /\ TotalReturn(view[k]) \in Int
<1> DEFINE reqs == requests[call]
           view == CreditView(Gathered)
           at(k) == ((k - 1) \div conf.agents) + 1
<1>1. /\ conf.agents \in Nat \ {0} /\ call # 0 /\ call \in Calls /\ reqs \in Seq(Request)
      /\ Len(reqs) \in Nat /\ DOMAIN reqs = 1 .. Len(reqs)
    BY EngineAssumption DEF EngineInv, CallInv, TaskInv, AllDone
<1>2. DOMAIN Gathered = 1 .. conf.agents * Len(reqs) /\ DOMAIN view = DOMAIN Gathered
    BY DEF Gathered, CreditView
<1>3. ASSUME NEW k \in DOMAIN Gathered
      PROVE  /\ Gathered[k] = <<call, at(k)>> /\ at(k) \in DOMAIN reqs
             /\ view[k].group = reqs[at(k)].group
             /\ TotalReturn(view[k]) \in Int
    <2>1. at(k) \in DOMAIN reqs /\ AgentOf(k) \in 1 .. conf.agents
        BY <1>1, <1>2, DivParts DEF AgentOf
    <2>2. Gathered[k] = <<call, at(k)>>
        BY <1>2 DEF Gathered
    <2> HIDE DEF at
    <2> DEFINE steps == rollouts[Gathered[k]][AgentOf(k)]
    <2>3. at(k) \in Index /\ episode[<<call, at(k)>>] = "done"
        BY <1>1, <2>1 DEF EngineInv, WorkInv, AllDone, Created
    <2>4. rollouts[<<call, at(k)>>] \in [1 .. conf.agents -> conf.shapes]
        BY <1>1, <2>3 DEF EngineInv, WorkInv, AllDone
    <2>5. steps \in Seq(ReturnedStep)
        <3>1. steps = rollouts[<<call, at(k)>>][AgentOf(k)]
            BY <2>2
        <3>2. steps \in conf.shapes
            <4> HIDE DEF steps
            <4> QED
                BY <2>1, <2>4, <3>1
        <3> HIDE DEF steps
        <3> QED
            BY <3>2, ShapesAssumption DEF EngineInv, TaskInv
    <2>6. /\ view[k].group = reqs[Gathered[k][2]].group
          /\ view[k].rewards = [t \in DOMAIN steps |-> steps[t].reward]
          /\ view[k].counted \subseteq DOMAIN steps
        BY <1>2 DEF CreditView, Counted
    <2> HIDE DEF steps, view
    <2>7. /\ DOMAIN steps = 1 .. Len(steps) /\ Len(steps) \in Nat
          /\ \A t \in DOMAIN steps : steps[t].reward \in Int
        <3>1. /\ DOMAIN steps = 1 .. Len(steps) /\ Len(steps) \in Nat
              /\ \A t \in DOMAIN steps : steps[t] \in ReturnedStep
            BY <2>5
        <3>2. \A step \in ReturnedStep : step.reward \in Int
            BY DEF ReturnedStep
        <3> QED
            BY <3>1, <3>2
    <2>8. IsFiniteSet(view[k].counted)
        <3>1. IsFiniteSet(DOMAIN steps)
            BY <2>7, FS_Interval
        <3> QED
            BY <2>6, <3>1, FS_Subset
    <2>9. \A t \in view[k].counted : view[k].rewards[t] \in Int
        BY <2>6, <2>7
    <2>10. TotalReturn(view[k]) \in Int
        BY <2>8, <2>9, SumInt DEF TotalReturn
    <2> QED
        BY <2>1, <2>2, <2>6, <2>10
<1> QED
    BY <1>2, <1>3

(* With one agent an episode the k-th rollout is that of the k-th request.   *)
LEMMA OneAgentView ==
    ASSUME EngineInv, AllDone, conf.agents = 1
    PROVE  LET reqs == requests[call]
               view == CreditView(Gathered)
           IN  /\ DOMAIN view = DOMAIN reqs /\ DOMAIN Gathered = DOMAIN reqs
               /\ IsFiniteSet(DOMAIN reqs)
               /\ \A k \in DOMAIN reqs :
                    /\ Gathered[k] = <<call, k>> /\ view[k].group = reqs[k].group
                    /\ GroupOf(view, k) = Members(reqs, reqs[k].group)
<1> DEFINE reqs == requests[call]
           view == CreditView(Gathered)
<1>1. reqs \in Seq(Request) /\ Len(reqs) \in Nat /\ DOMAIN reqs = 1 .. Len(reqs)
    BY DEF EngineInv, CallInv, TaskInv, AllDone
<1>2. 1 * Len(reqs) = Len(reqs)
    BY <1>1
<1>3. DOMAIN Gathered = DOMAIN reqs /\ DOMAIN view = DOMAIN reqs
    BY <1>1, <1>2, GatheredView
<1>4. ASSUME NEW k \in DOMAIN reqs PROVE ((k - 1) \div conf.agents) + 1 = k
    <2>1. k - 1 \in Nat
        BY <1>1
    <2>2. (k - 1) \div 1 = k - 1
        BY <2>1, DivUnique
    <2> QED
        BY <1>1, <2>2
<1>5. ASSUME NEW k \in DOMAIN reqs PROVE Gathered[k] = <<call, k>> /\ view[k].group = reqs[k].group
    BY <1>3, <1>4, GatheredView
<1> HIDE DEF view, reqs
<1>6. ASSUME NEW k \in DOMAIN reqs PROVE GroupOf(view, k) = Members(reqs, reqs[k].group)
    BY <1>3, <1>5 DEF GroupOf, Members
<1>7. IsFiniteSet(DOMAIN reqs)
    BY <1>1, FS_Interval
<1> QED
    BY <1>3, <1>5, <1>6, <1>7 DEF view, reqs

(* Whole groups of rollouts of one agent each are not refused, ... *)
LEMMA WholeAccepted ==
    ASSUME EngineInv, AllDone, conf.agents = 1, GroupSize # 1
    PROVE  ~Refused(CreditView(Gathered))
<1> DEFINE reqs == requests[call]
           view == CreditView(Gathered)
<1>1. Whole(reqs)
    BY DEF EngineInv, WorkInv, CallInv, AllDone
<1>2. /\ DOMAIN view = DOMAIN reqs
      /\ \A k \in DOMAIN reqs :
           view[k].group = reqs[k].group /\ GroupOf(view, k) = Members(reqs, reqs[k].group)
    BY OneAgentView
<1> HIDE DEF reqs, view
<1>3. \A k \in DOMAIN reqs : /\ reqs[k].group # NoGroup
                             /\ Cardinality(Members(reqs, reqs[k].group)) = GroupSize
    BY <1>1 DEF Whole, WholeGroup
<1>4. ~Refused(view)
    BY <1>2, <1>3 DEF Refused
<1> QED
    BY <1>4 DEF view

(* ... and what collation refuses is a rollout that is not sound, whatever   *)
(* the assigner: of a rollout whose rewards are all finite it never gets a   *)
(* weight that is infinite or no number.                                     *)
LEMMA RefusedUnsound ==
    ASSUME EngineInv, AllDone, CollationRaises(Gathered)
    PROVE  \E i \in Created(call), a \in 1 .. conf.agents :
             ~IsSound(rollouts[<<call, i>>][a])
<1>1. PICK k \in DOMAIN Gathered :
        \E t \in DOMAIN rollouts[Gathered[k]][AgentOf(k)] :
          /\ rollouts[Gathered[k]][AgentOf(k)][t].final
          /\ ~ /\ TurnIsUsable(rollouts[Gathered[k]][AgentOf(k)], t)
               /\ IsNumeric(rollouts[Gathered[k]][AgentOf(k)], t)
    BY DEF CollationRaises
<1> DEFINE at == ((k - 1) \div conf.agents) + 1
           steps == rollouts[<<call, at>>][AgentOf(k)]
<1>2. /\ Gathered[k] = <<call, at>> /\ at \in DOMAIN requests[call]
      /\ k \in 1 .. conf.agents * Len(requests[call])
    BY GatheredView
<1>3. at \in Created(call)
    <2> HIDE DEF at
    <2> QED
        BY <1>2 DEF EngineInv, CallInv, WorkInv, AllDone, Created
<1>4. AgentOf(k) \in 1 .. conf.agents
    <2>1. conf.agents \in Nat \ {0} /\ Len(requests[call]) \in Nat
        BY EngineAssumption DEF EngineInv, CallInv, TaskInv, AllDone
    <2> QED
        BY <1>2, <2>1, DivParts DEF AgentOf
<1>5. ~IsSound(steps)
    <2>1. PICK t \in DOMAIN steps :
            steps[t].final /\ ~(TurnIsUsable(steps, t) /\ IsNumeric(steps, t))
        BY <1>1, <1>2
    <2> HIDE DEF steps
    <2>2. CASE ~TurnIsUsable(steps, t)
        BY <2>1, <2>2 DEF IsSound
    <2>3. CASE ~IsNumeric(steps, t)
        <3>1. \E u \in DOMAIN steps : ~steps[u].finite
            BY <2>1, <2>3 DEF IsNumeric, Diverges
        <3> QED
            BY <3>1 DEF IsSound
    <2> QED
        BY <2>1, <2>2, <2>3
<1> QED
    BY <1>3, <1>4, <1>5

(* A call raises only if an episode did or has returned a rollout that is    *)
(* not sound: what the request strategy expands, for any group size and      *)
(* whatever a queue still holds, no assigner with a group contract refuses,  *)
(* as long as each episode has one agent, and no weight of a sound rollout   *)
(* stops the collation.                                                      *)
THEOREM NothingRefusedAlways == Spec => NothingRefused
<1> DEFINE excused ==
             \/ \E i \in Created(call) : episode[<<call, i>>] = "failed"
             \/ \E i \in Created(call), a \in 1 .. conf.agents :
                    ~IsSound(rollouts[<<call, i>>][a])
             \/ conf.assigner \in GroupAssigners /\ (conf.agents > 1 \/ GroupSize = 1)
           allowed == phase = "awaiting" /\ phase' = "idle" /\ ~batch'.ok => excused
<1>1. EngineInv /\ [Next]_vars => [allowed]_vars
    <2> SUFFICES ASSUME EngineInv, [Next]_vars PROVE allowed
        OBVIOUS
    <2> HIDE DEF excused
    <2>1. CASE NextBatch \/ RunOut
        BY <2>1 DEF NextBatch, RunOut
    <2>2. CASE GatherRaises
        BY <2>2 DEF GatherRaises, excused
    <2>3. CASE GatherReturns
        <3>1. AllDone
            BY <2>3 DEF GatherReturns, AllDone
        <3>2. CASE CreditRaises(conf.assigner, CreditView(Gathered))
            <4>1. conf.assigner \in GroupAssigners /\ Refused(CreditView(Gathered))
                BY <3>2 DEF CreditRaises
            <4>2. conf.agents \in Nat \ {0}
                BY EngineAssumption DEF EngineInv, CallInv
            <4>3. conf.agents = 1 => GroupSize = 1
                BY <3>1, <4>1, WholeAccepted
            <4>4. conf.agents > 1 \/ GroupSize = 1
                BY <4>2, <4>3
            <4> QED
                BY <4>1, <4>4 DEF excused
        <3>3. CASE CollationRaises(Gathered)
            BY <3>1, <3>3, RefusedUnsound DEF excused
        <3>4. CASE ~ (\/ CreditRaises(conf.assigner, CreditView(Gathered))
                      \/ CollationRaises(Gathered))
            <4>1. batch'.ok
                BY <2>3, <3>4 DEF GatherReturns, Collated
            <4> QED
                BY <4>1
        <3> QED
            BY <3>2, <3>3, <3>4
    <2>4. ASSUME UNCHANGED phase PROVE allowed
        BY <2>4
    <2>5. ASSUME NEW e \in Episodes, Task(e) PROVE UNCHANGED phase
        BY <2>5 DEF Task, StartEpisode, EndEpisode, FailEpisode
    <2>6. CASE UNCHANGED vars
        BY <2>4, <2>6 DEF vars
    <2> QED
        BY <2>1, <2>2, <2>3, <2>4, <2>5, <2>6 DEF Next
<1> QED
    BY <1>1, EngineInit, EngineNext, PTL DEF Spec, NothingRefused

(* ... and those of several agents always are: a group of theirs has as many *)
(* rollouts as its requests have agents.                                     *)
LEMMA SeveralRefused ==
    ASSUME EngineInv, AllDone, conf.agents > 1, GroupSize # 1, DOMAIN Gathered # {}
    PROVE  Refused(CreditView(Gathered))
<1> DEFINE reqs == requests[call]
           view == CreditView(Gathered)
           n == conf.agents
           at(k) == ((k - 1) \div n) + 1
           M == Members(reqs, reqs[1].group)
           O == GroupOf(view, 1)
<1> SUFFICES ASSUME ~Refused(view) PROVE FALSE
    OBVIOUS
<1>1. /\ n \in Nat /\ n > 1 /\ reqs \in Seq(Request) /\ Len(reqs) \in Nat
      /\ DOMAIN reqs = 1 .. Len(reqs) /\ Whole(reqs)
    BY EngineAssumption DEF EngineInv, CallInv, TaskInv, WorkInv, AllDone
<1>2. /\ DOMAIN Gathered = 1 .. n * Len(reqs) /\ DOMAIN view = DOMAIN Gathered
      /\ \A k \in DOMAIN view : at(k) \in DOMAIN reqs /\ view[k].group = reqs[at(k)].group
    BY GatheredView
<1> HIDE DEF reqs, view, n
<1>3. Len(reqs) > 0 /\ n * Len(reqs) >= n
    <2>1. Len(reqs) # 0
        BY <1>1, <1>2
    <2>2. Len(reqs) - 1 \in Nat /\ n * (Len(reqs) - 1) = n * Len(reqs) - n
        BY <1>1, <2>1
    <2>3. n * (Len(reqs) - 1) \in Nat /\ n * Len(reqs) \in Nat
        BY <1>1, <2>2
    <2> QED
        BY <1>1, <2>1, <2>2, <2>3
<1>4. 1 \in DOMAIN view /\ 2 \in DOMAIN view /\ 1 \in DOMAIN reqs
    BY <1>1, <1>2, <1>3
<1>5. at(1) = 1 /\ at(2) = 1
    <2>1. 0 \div n = 0 /\ 1 \div n = 0
        BY <1>1, DivUnique
    <2> QED
        BY <2>1
<1>6. O = {k \in DOMAIN view : reqs[at(k)].group = reqs[1].group}
    BY <1>2, <1>4, <1>5 DEF GroupOf
<1>7. Cardinality(M) = GroupSize /\ Cardinality(O) = GroupSize /\ IsFiniteSet(O)
    <2>1. Cardinality(M) = GroupSize
        BY <1>1, <1>4 DEF Whole, WholeGroup
    <2>2. Cardinality(O) = GroupSize
        BY <1>4 DEF Refused
    <2>3. IsFiniteSet(DOMAIN view)
        BY <1>1, <1>2, <1>3, FS_Interval
    <2>4. O \subseteq DOMAIN view
        BY DEF GroupOf
    <2> QED
        BY <2>1, <2>2, <2>3, <2>4, FS_Subset
<1> DEFINE f == [p \in M |-> n * (p - 1) + 1]
<1>8. ASSUME NEW p \in DOMAIN reqs
      PROVE  n * (p - 1) + 1 \in DOMAIN view /\ at(n * (p - 1) + 1) = p
    <2>1. p - 1 \in Nat /\ n * (p - 1) \in Nat /\ Len(reqs) - p \in Nat
        BY <1>1
    <2>2. n * (Len(reqs) - p) \in Nat /\ n * (Len(reqs) - p) = n * Len(reqs) - n * (p - 1) - n
        BY <1>1, <2>1
    <2>3. n * Len(reqs) \in Nat
        BY <1>1
    <2>4. n * (p - 1) + 1 \in 1 .. n * Len(reqs)
        <3> DEFINE x == n * (p - 1)
                   y == n * Len(reqs)
                   z == n * (Len(reqs) - p)
        <3>1. x \in Nat /\ y \in Nat /\ z \in Nat /\ z = y - x - n /\ n \in Nat /\ n > 1
            BY <1>1, <2>1, <2>2, <2>3
        <3> HIDE DEF x, y, z
        <3>2. x + 1 \in 1 .. y
            BY <3>1
        <3> QED
            BY <3>2 DEF x, y
    <2>5. (n * (p - 1)) \div n = p - 1
        <3> DEFINE q == p - 1
                   m == n * q
        <3>1. q \in Nat /\ m \in Nat /\ m \in n * q .. n * q + n - 1
            BY <1>1, <2>1
        <3> HIDE DEF q, m
        <3>2. m \div n = q
            BY <1>1, <3>1, DivUnique
        <3> QED
            BY <3>2 DEF q, m
    <2>6. n * (p - 1) + 1 - 1 = n * (p - 1)
        BY <2>1
    <2>7. at(n * (p - 1) + 1) = p
        BY <2>1, <2>5, <2>6
    <2> QED
        BY <1>2, <2>4, <2>7
<1>9. f \in Injection(M, O)
    <2>1. M \subseteq DOMAIN reqs
        BY DEF Members
    <2>2. ASSUME NEW p \in M PROVE f[p] \in O /\ at(f[p]) = p
        <3>1. p \in DOMAIN reqs /\ reqs[p].group = reqs[1].group /\ f[p] = n * (p - 1) + 1
            BY DEF Members
        <3>2. f[p] \in DOMAIN view /\ at(f[p]) = p
            BY <1>8, <3>1
        <3> HIDE DEF f, at, O, M
        <3> QED
            BY <1>6, <3>1, <3>2
    <2> HIDE DEF at, O, M
    <2>3. f \in [M -> O]
        BY <2>2
    <2>4. \A p, q \in M : f[p] = f[q] => p = q
        <3> HIDE DEF f
        <3> QED
            BY <2>2
    <2> QED
        BY <2>3, <2>4 DEF Injection, IsInjective
<1>10. f \in Surjection(M, O)
    <2> HIDE DEF f, M, O
    <2> QED
        BY <1>7, <1>9, FS_Injection
<1>11. 2 \in O
    BY <1>4, <1>5, <1>6
<1>12. PICK p \in M : f[p] = 2
    <2> HIDE DEF f, M, O
    <2> QED
        BY <1>10, <1>11 DEF Surjection
<1>13. p \in Nat \ {0} /\ n * (p - 1) = 1
    BY <1>1, <1>12 DEF Members
<1>14. CASE p = 1
    BY <1>1, <1>13, <1>14
<1>15. CASE p # 1
    <2>1. p - 2 \in Nat /\ n * (p - 2) \in Nat /\ n * (p - 1) = n * (p - 2) + n
        BY <1>1, <1>13, <1>15
    <2> QED
        BY <1>1, <1>13, <2>1
<1> QED
    BY <1>14, <1>15

-----------------------------------------------------------------------------
(* What a batch consists of *)

(* The advantages in a group that is not refused are deviations from its     *)
(* mean, so they cancel out.                                                 *)
LEMMA CentredCancel ==
    ASSUME NEW view, NEW S, IsFiniteSet(S), Cardinality(S) = GroupSize, S \subseteq DOMAIN view,
           \A k \in S : TotalReturn(view[k]) \in Int /\ GroupOf(view, k) = S
    PROVE  /\ \A k \in S : Centred(view, k) \in Int
           /\ SumFunctionOnSet([k \in S |-> Centred(view, k)], S) = 0
<1> DEFINE R == Returns(view)
           total == SumFunctionOnSet(R, S)
<1>1. GroupSize \in Int
    BY CreditAssumption
<1>2. \A k \in S : R[k] = TotalReturn(view[k]) /\ R[k] \in Int
    BY DEF Returns
<1>3. \A k \in S : Centred(view, k) = GroupSize * R[k] - total
    BY <1>2 DEF Centred
<1> HIDE DEF R
<1>4. total \in Int
    BY <1>2, SumInt
<1> HIDE DEF total
<1>5. [k \in S |-> Centred(view, k)] = [k \in S |-> GroupSize * R[k] - total]
    BY <1>3
<1>6. SumFunctionOnSet([k \in S |-> GroupSize * R[k] - total], S)
        = GroupSize * SumFunctionOnSet(R, S) - Cardinality(S) * total
    <2>1. \A k \in S : R[k] \in Int
        BY <1>2
    <2> QED
        BY <1>1, <1>4, <2>1, SumScaled, Zenon
<1>7. GroupSize * total - GroupSize * total = 0
    BY <1>1, <1>4
<1>8. \A k \in S : Centred(view, k) \in Int
    BY <1>1, <1>2, <1>3, <1>4
<1> QED
    BY <1>5, <1>6, <1>7, <1>8 DEF total

(* An item is of some rollout, whose request and whose credit it has. *)
LEMMA ItemsAre ==
    ASSUME conf.assigner \in {"group", "hybrid"}, NEW x \in Collated(Gathered).items
    PROVE  \E k \in DOMAIN Gathered :
             /\ x.of = Gathered[k]
             /\ x.request = requests[call][Gathered[k][2]]
             /\ x.weight = Centred(CreditView(Gathered), k)
<1> DEFINE view == CreditView(Gathered)
<1>1. PICK k \in DOMAIN Gathered : x \in ItemsOf(Gathered, view, k)
    BY DEF Collated
<1> HIDE DEF view
<1>2. PICK t :
        /\ x.of = Gathered[k]
        /\ x.request = requests[call][Gathered[k][2]]
        /\ x.weight = Weight(conf.assigner, view, k, t)
    BY <1>1 DEF ItemsOf
<1>3. Weight(conf.assigner, view, k, t) = Centred(view, k)
    BY DEF Weight
<1> QED
    BY <1>2, <1>3 DEF view

(* GroupsComparable, of any set of items. *)
WeightsOf(items, group) ==
    {<<item.of, item.weight>> : item \in {x \in items : x.request.group = group}}

Comparable(items) ==
    LET reqs == {item.request : item \in items}
    IN  /\ \A a, b \in reqs : a.group = b.group => a.sample = b.sample /\ a.envSeed = b.envSeed
        /\ \A x, y \in items : x.request.group = y.request.group /\ x.of # y.of
             => x.request.samplingSeed # y.request.samplingSeed
        /\ \A g \in {a.group : a \in reqs} :
             Cardinality(WeightsOf(items, g)) = GroupSize =>
               SumFunction([w \in WeightsOf(items, g) |-> w[2]]) = 0

(* Items that carry the requests of whole groups and credit that cancels out *)
(* over each of them are comparable.                                         *)
LEMMA ItemsComparable ==
    ASSUME NEW items, NEW reqs, Whole(reqs), GroupSize # 1, IsFiniteSet(DOMAIN reqs), NEW c, NEW w,
           \A x \in items : \E k \in DOMAIN reqs :
              x.of = <<c, k>> /\ x.request = reqs[k] /\ x.weight = w[k],
           \A k \in DOMAIN reqs :
              /\ w[k] \in Int
              /\ SumFunctionOnSet(w, Members(reqs, reqs[k].group)) = 0
    PROVE  Comparable(items)
<1> DEFINE used == {item.request : item \in items}
<1>1. \A k \in DOMAIN reqs : WholeGroup(reqs, reqs[k].group, reqs[k])
    BY DEF Whole
<1>2. ASSUME NEW j \in DOMAIN reqs, NEW k \in DOMAIN reqs, reqs[j].group = reqs[k].group
      PROVE  /\ reqs[j].sample = reqs[k].sample /\ reqs[j].envSeed = reqs[k].envSeed
             /\ reqs[j].samplingSeed = reqs[k].samplingSeed => j = k
    <2>1. j \in Members(reqs, reqs[k].group) /\ k \in Members(reqs, reqs[k].group)
        BY <1>2 DEF Members
    <2> QED
        BY <1>1, <2>1 DEF WholeGroup
<1>3. ASSUME NEW a \in used, NEW b \in used, a.group = b.group
      PROVE  a.sample = b.sample /\ a.envSeed = b.envSeed
    <2>1. PICK j \in DOMAIN reqs, k \in DOMAIN reqs : a = reqs[j] /\ b = reqs[k]
        OBVIOUS
    <2> QED
        BY <1>2, <1>3, <2>1
<1>4. ASSUME NEW x \in items, NEW y \in items,
             x.request.group = y.request.group, x.of # y.of
      PROVE  x.request.samplingSeed # y.request.samplingSeed
    <2>1. PICK j \in DOMAIN reqs, k \in DOMAIN reqs :
            /\ x.of = <<c, j>> /\ x.request = reqs[j]
            /\ y.of = <<c, k>> /\ y.request = reqs[k]
        OBVIOUS
    <2>2. j # k /\ reqs[j].group = reqs[k].group
        BY <1>4, <2>1
    <2> QED
        BY <1>2, <2>1, <2>2
<1>5. ASSUME NEW g \in {a.group : a \in used}, Cardinality(WeightsOf(items, g)) = GroupSize
      PROVE  SumFunction([v \in WeightsOf(items, g) |-> v[2]]) = 0
    <2>1. PICK one \in DOMAIN reqs : reqs[one].group = g
        OBVIOUS
    <2> DEFINE M == Members(reqs, g)
               K == {k \in M : <<<<c, k>>, w[k]>> \in WeightsOf(items, g)}
               h == [k \in K |-> <<<<c, k>>, w[k]>>]
               second == [v \in WeightsOf(items, g) |-> v[2]]
    <2>2. WeightsOf(items, g) = {h[k] : k \in K}
        <3>1. ASSUME NEW v \in WeightsOf(items, g) PROVE \E k \in K : v = h[k]
            <4>1. PICK x \in items : x.request.group = g /\ v = <<x.of, x.weight>>
                BY DEF WeightsOf
            <4>2. PICK k \in DOMAIN reqs : x.of = <<c, k>> /\ x.request = reqs[k] /\ x.weight = w[k]
                OBVIOUS
            <4>3. k \in M
                BY <4>1, <4>2 DEF Members
            <4> HIDE DEF M
            <4>4. v = <<<<c, k>>, w[k]>>
                BY <4>1, <4>2
            <4> QED
                BY <4>3, <4>4
        <3>2. ASSUME NEW k \in K PROVE h[k] \in WeightsOf(items, g)
            OBVIOUS
        <3> HIDE DEF h, K
        <3> QED
            BY <3>1, <3>2
    <2>3. IsFiniteSet(M) /\ Cardinality(M) = GroupSize
        <3>1. M \subseteq DOMAIN reqs
            BY DEF Members
        <3>2. IsFiniteSet(M)
            BY <3>1, FS_Subset
        <3>3. Cardinality(M) = GroupSize
            BY <1>1, <2>1 DEF WholeGroup
        <3> QED
            BY <3>2, <3>3
    <2>4. K \subseteq M /\ IsFiniteSet(K)
        BY <2>3, FS_Subset
    <2>5. \A j, k \in K : h[j] = h[k] => j = k
        OBVIOUS
    <2>6. K = M
        <3>1. h \in Surjection(K, WeightsOf(items, g))
            <4>1. h \in [K -> WeightsOf(items, g)]
                OBVIOUS
            <4> HIDE DEF h, K
            <4> QED
                BY <2>2, <4>1 DEF Surjection
        <3> HIDE DEF h, K, M
        <3>2. Cardinality(WeightsOf(items, g)) <= Cardinality(K) /\ Cardinality(K) <= Cardinality(M)
            BY <2>3, <2>4, <3>1, FS_Surjection, FS_Subset
        <3>3. Cardinality(K) \in Nat /\ Cardinality(M) \in Nat
            BY <2>3, <2>4, FS_CardinalityType
        <3>4. Cardinality(K) = Cardinality(M)
            BY <1>5, <2>3, <3>2, <3>3
        <3> QED
            BY <2>3, <2>4, <3>4, FS_Subset
    <2>7. \A k \in K : second[h[k]] = w[k] /\ w[k] \in Int
        <3>1. \A k \in K : h[k] \in WeightsOf(items, g) /\ h[k][2] = w[k]
            OBVIOUS
        <3>2. \A k \in K : k \in DOMAIN reqs
            BY DEF Members
        <3> HIDE DEF h, K
        <3> QED
            BY <3>1, <3>2
    <2>8. SumFunction(second) = SumFunctionOnSet(second, WeightsOf(items, g))
        BY DEF SumFunction
    <2> HIDE DEF second, h, K
    <2>9. SumFunctionOnSet(second, {h[k] : k \in K})
            = SumFunctionOnSet([k \in K |-> second[h[k]]], K)
        BY <2>4, <2>5, <2>7, SumImage
    <2>10. SumFunctionOnSet([k \in K |-> second[h[k]]], K) = SumFunctionOnSet(w, K)
        <3> DEFINE u == [k \in K |-> second[h[k]]]
        <3>1. \A k \in K : u[k] = w[k]
            BY <2>7
        <3> HIDE DEF u
        <3>2. SumFunctionOnSet(u, K) = SumFunctionOnSet(w, K)
            BY <2>4, <3>1, SumSame
        <3> QED
            BY <3>2 DEF u
    <2>11. SumFunctionOnSet(w, M) = 0
        BY <2>1
    <2>12. SumFunction(second) = 0
        BY <2>2, <2>6, <2>8, <2>9, <2>10, <2>11
    <2> QED
        BY <2>12 DEF second
<1> QED
    BY <1>3, <1>4, <1>5 DEF Comparable

LEMMA CollatedComparable ==
    ASSUME EngineInv, AllDone, conf.assigner \in {"group", "hybrid"},
           ~Refused(CreditView(Gathered))
    PROVE  Comparable(Collated(Gathered).items)
<1> DEFINE reqs == requests[call]
           view == CreditView(Gathered)
           items == Collated(Gathered).items
<1>1. /\ conf.agents \in Nat \ {0} /\ Whole(reqs)
      /\ \A x \in items : \E k \in DOMAIN Gathered :
           /\ x.of = Gathered[k] /\ x.request = reqs[Gathered[k][2]]
           /\ x.weight = Centred(view, k)
    <2>1. conf.agents \in Nat \ {0} /\ Whole(reqs)
        BY EngineAssumption DEF EngineInv, CallInv, WorkInv, AllDone
    <2> HIDE DEF items
    <2>2. ASSUME NEW x \in items
          PROVE  \E k \in DOMAIN Gathered :
                   /\ x.of = Gathered[k] /\ x.request = reqs[Gathered[k][2]]
                   /\ x.weight = Centred(view, k)
        BY ItemsAre DEF items
    <2> QED
        BY <2>1, <2>2
<1>2. CASE DOMAIN Gathered = {}
    <2>1. items = {}
        BY <1>1, <1>2
    <2> HIDE DEF items
    <2> QED
        BY <2>1 DEF Comparable, items
<1>3. CASE DOMAIN Gathered # {}
    <2>1. PICK k \in DOMAIN Gathered : TRUE
        BY <1>3
    <2>2. GroupSize # 1
        <3> DEFINE p == ((k - 1) \div conf.agents) + 1
        <3>1. p \in DOMAIN reqs /\ view[k].group = reqs[p].group /\ k \in DOMAIN view
            BY GatheredView
        <3> HIDE DEF p, view
        <3>2. view[k].group # NoGroup
            BY <3>1 DEF Refused, view
        <3> QED
            BY <1>1, <3>1, <3>2 DEF Whole
    <2>3. conf.agents = 1
        <3>1. ~(conf.agents > 1)
            BY <1>3, <2>2, SeveralRefused
        <3> QED
            BY <1>1, <3>1
    <2>4. /\ DOMAIN view = DOMAIN reqs /\ DOMAIN Gathered = DOMAIN reqs /\ IsFiniteSet(DOMAIN reqs)
          /\ \A j \in DOMAIN reqs :
               /\ Gathered[j] = <<call, j>> /\ view[j].group = reqs[j].group
               /\ GroupOf(view, j) = Members(reqs, reqs[j].group)
        BY <2>3, OneAgentView
    <2>5. \A j \in DOMAIN reqs : TotalReturn(view[j]) \in Int
        BY <2>4, GatheredView
    <2> HIDE DEF view, reqs, items
    <2> DEFINE w == [j \in DOMAIN reqs |-> Centred(view, j)]
    <2>6. ASSUME NEW j \in DOMAIN reqs
          PROVE  w[j] \in Int /\ SumFunctionOnSet(w, Members(reqs, reqs[j].group)) = 0
        <3> DEFINE S == Members(reqs, reqs[j].group)
        <3>1. /\ S \subseteq DOMAIN view /\ j \in S /\ IsFiniteSet(S)
              /\ \A i \in S : i \in DOMAIN reqs /\ reqs[i].group = reqs[j].group
            BY <2>4, FS_Subset DEF Members
        <3>2. Cardinality(S) = GroupSize
            BY <1>1, <2>2 DEF Whole, WholeGroup
        <3>3. \A i \in S : TotalReturn(view[i]) \in Int /\ GroupOf(view, i) = S
            BY <2>4, <2>5, <3>1
        <3> HIDE DEF S
        <3>4. /\ \A i \in S : Centred(view, i) \in Int
              /\ SumFunctionOnSet([i \in S |-> Centred(view, i)], S) = 0
            BY <3>1, <3>2, <3>3, CentredCancel
        <3> DEFINE u == [i \in S |-> Centred(view, i)]
        <3>5. \A i \in S : u[i] = w[i]
            BY <3>1
        <3>6. w[j] \in Int
            BY <3>1, <3>4
        <3> HIDE DEF u, w
        <3>7. SumFunctionOnSet(u, S) = SumFunctionOnSet(w, S)
            BY <3>1, <3>5, SumSame
        <3>8. SumFunctionOnSet(w, S) = 0
            BY <3>4, <3>7 DEF u
        <3> QED
            BY <3>6, <3>8 DEF S
    <2>7. \A x \in items : \E j \in DOMAIN reqs :
            x.of = <<call, j>> /\ x.request = reqs[j] /\ x.weight = w[j]
        <3>1. ASSUME NEW x \in items
              PROVE  \E j \in DOMAIN reqs :
                       x.of = <<call, j>> /\ x.request = reqs[j] /\ x.weight = w[j]
            <4>1. PICK j \in DOMAIN Gathered :
                    /\ x.of = Gathered[j] /\ x.request = reqs[Gathered[j][2]]
                    /\ x.weight = Centred(view, j)
                BY <1>1
            <4>2. j \in DOMAIN reqs /\ Gathered[j] = <<call, j>> /\ Gathered[j][2] = j
                BY <2>4
            <4> QED
                BY <4>1, <4>2
        <3> HIDE DEF w
        <3> QED
            BY <3>1
    <2> HIDE DEF w
    <2>8. Comparable(items)
        BY <1>1, <2>2, <2>4, <2>6, <2>7, ItemsComparable
    <2> QED
        BY <2>8 DEF items
<1> QED
    BY <1>2, <1>3

(* What makes advantages within a group comparable, for any group size,      *)
(* rewards and filters: the items of a group answer the same sample in the   *)
(* same environment under different sampling seeds, and if the filters leave *)
(* an item of each member, its advantages cancel out.  Rewards of another    *)
(* group, of an earlier call or of another order of the episodes never enter.*)
THEOREM GroupsComparableAlways == Spec => []GroupsComparable
<1>1. Init => GroupsComparable
    BY DEF Init, NoBatch, GroupsComparable
<1>2. EngineInv /\ GroupsComparable /\ [Next]_vars => GroupsComparable'
    <2> SUFFICES ASSUME EngineInv, GroupsComparable, [Next]_vars PROVE GroupsComparable'
        OBVIOUS
    <2>1. ASSUME batch'.items = {} PROVE GroupsComparable'
        BY <2>1 DEF GroupsComparable
    <2>2. CASE NextBatch \/ RunOut
        BY <2>1, <2>2 DEF NextBatch, RunOut, NoBatch
    <2>3. CASE GatherReturns
        <3>1. AllDone /\ conf' = conf
            BY <2>3 DEF GatherReturns, AllDone
        <3>2. CASE \/ CreditRaises(conf.assigner, CreditView(Gathered))
                   \/ CollationRaises(Gathered)
            BY <2>1, <2>3, <3>2 DEF GatherReturns, NoBatch
        <3>3. CASE ~ (\/ CreditRaises(conf.assigner, CreditView(Gathered))
                      \/ CollationRaises(Gathered))
            <4>1. batch' = Collated(Gathered)
                BY <2>3, <3>3 DEF GatherReturns
            <4>2. ASSUME conf.assigner \in {"group", "hybrid"} PROVE Comparable(batch'.items)
                <5>1. ~Refused(CreditView(Gathered))
                    BY <3>3, <4>2 DEF CreditRaises, GroupAssigners
                <5> QED
                    BY <3>1, <4>1, <4>2, <5>1, CollatedComparable
            <4> QED
                BY <3>1, <4>2 DEF GroupsComparable, Comparable, GroupWeights, WeightsOf
        <3> QED
            BY <3>2, <3>3
    <2>4. ASSUME UNCHANGED <<conf, batch>> PROVE GroupsComparable'
        BY <2>4 DEF GroupsComparable, GroupWeights
    <2>5. CASE GatherRaises
        BY <2>4, <2>5 DEF GatherRaises
    <2>6. ASSUME NEW e \in Episodes, Task(e) PROVE GroupsComparable'
        BY <2>4, <2>6 DEF Task, StartEpisode, EndEpisode, FailEpisode
    <2>7. CASE UNCHANGED vars
        BY <2>4, <2>7 DEF vars
    <2> QED
        BY <2>2, <2>3, <2>5, <2>6, <2>7 DEF Next
<1> QED
    BY <1>1, <1>2, EngineInit, EngineNext, PTL DEF Spec
=============================================================================
