--------------------------- MODULE RolloutProofs ---------------------------
(***************************************************************************)
(* What a rollout keeps as it grows by the steps of an act, by a step of   *)
(* the environment and by the mark of the time limit: the lemmas the       *)
(* proofs about both protocols rest on.                                    *)
(*                                                                         *)
(* s is a rollout, c the calls of the act in progress, x the context of    *)
(* the agent, n its turn, b whether an answer that does not parse ends the *)
(* episode, and o the observation the protocol holds.                      *)
(***************************************************************************)
EXTENDS AgentLoop, FunctionTheorems, FiniteSetTheorems, WellFoundedInduction, TLAPS

-----------------------------------------------------------------------------
(* Sums *)

(* Of a property of subsets that not all finite sets have, some set is a    *)
(* smallest exception.                                                       *)
LEMMA SmallestException ==
    ASSUME NEW S, IsFiniteSet(S), NEW Bad \in SUBSET SUBSET S, Bad # {}
    PROVE  \E T \in Bad : IsFiniteSet(T) /\ \A x \in T : T \ {x} \notin Bad
<1>1. Bad \subseteq FiniteSubsetsOf(S)
    BY FS_FiniteSubsetsOfFinite
<1>2. PICK T \in Bad : \A U \in Bad : ~ (<<U, T>> \in StrictSubsetOrdering(S))
    BY <1>1, FS_StrictSubsetOrderingWellFounded, WFMin, Zenon
<1>3. \A x \in T : T \ {x} \notin Bad
    BY <1>2 DEF StrictSubsetOrdering
<1>4. IsFiniteSet(T)
    BY FS_Subset
<1> QED
    BY <1>3, <1>4

AnyOf(S) == CHOOSE x \in S : TRUE

LEMMA AnyOfIn == \A S : S # {} => AnyOf(S) \in S
BY DEF AnyOf

(* sums is the function by which the sum over S is defined. *)
IsSum(sums, f, S) ==
    sums = [s \in SUBSET S |-> IF s = {} THEN 0 ELSE f[AnyOf(s)] + sums[s \ {AnyOf(s)}]]

LEMMA SumIs ==
    ASSUME NEW f, NEW S
    PROVE  SumFunctionOnSet(f, S) = (CHOOSE sums : IsSum(sums, f, S))[S]
BY DEF SumFunctionOnSet, FoldFunctionOnSet, MapThenFoldSet, IsSum, AnyOf

LEMMA SumsAgree ==
    ASSUME NEW f, NEW g, NEW S, NEW T, IsFiniteSet(S), \A x \in S \cap T : f[x] = g[x],
           NEW a, IsSum(a, f, S), NEW b, IsSum(b, g, T)
    PROVE  \A s \in SUBSET (S \cap T) : a[s] = b[s]
<1> DEFINE Bad == {s \in SUBSET (S \cap T) : a[s] # b[s]}
<1> SUFFICES ASSUME Bad # {} PROVE FALSE
    OBVIOUS
<1>1. IsFiniteSet(S \cap T)
    BY FS_Intersection
<1>2. PICK s \in Bad : \A x \in s : s \ {x} \notin Bad
    BY <1>1, SmallestException
<1>3. s \in SUBSET S /\ s \in SUBSET T /\ a[s] # b[s]
    OBVIOUS
<1>4. /\ a[s] = IF s = {} THEN 0 ELSE f[AnyOf(s)] + a[s \ {AnyOf(s)}]
      /\ b[s] = IF s = {} THEN 0 ELSE g[AnyOf(s)] + b[s \ {AnyOf(s)}]
    BY <1>3 DEF IsSum
<1>5. s # {} /\ AnyOf(s) \in s
    BY <1>3, <1>4, AnyOfIn
<1>6. a[s \ {AnyOf(s)}] = b[s \ {AnyOf(s)}]
    BY <1>2, <1>5
<1> QED
    BY <1>3, <1>4, <1>5, <1>6

LEMMA SumExists ==
    ASSUME NEW f, NEW S, IsFiniteSet(S)
    PROVE  \E sums : IsSum(sums, f, S)
<1> DEFINE Bad == {T \in SUBSET S : ~ \E sums : IsSum(sums, f, T)}
<1> SUFFICES ASSUME Bad # {} PROVE FALSE
    OBVIOUS
<1>1. PICK T \in Bad : IsFiniteSet(T) /\ \A x \in T : T \ {x} \notin Bad
    BY SmallestException
<1> DEFINE F(U) == CHOOSE sums : IsSum(sums, f, U)
           V(s) == IF s = {} THEN 0
                   ELSE f[AnyOf(s)] + F(s \ {AnyOf(s)})[s \ {AnyOf(s)}]
           whole == [s \in SUBSET T |-> V(s)]
<1>2. ASSUME NEW s \in SUBSET T, s # T PROVE IsSum(F(s), f, s)
    <2>1. PICK x \in T : x \notin s
        BY <1>2
    <2>2. PICK a : IsSum(a, f, T \ {x})
        BY <1>1
    <2>3. IsSum([u \in SUBSET s |-> a[u]], f, s)
        <3>1. ASSUME NEW u \in SUBSET s
              PROVE  /\ u \in SUBSET (T \ {x}) 
                     /\ u # {} => u \ {AnyOf(u)} \in SUBSET s
                     /\ a[u] = IF u = {} THEN 0 ELSE f[AnyOf(u)] + a[u \ {AnyOf(u)}]
            <4>1. u \in SUBSET (T \ {x})
                BY <2>1
            <4> QED
                BY <2>2, <4>1 DEF IsSum
        <3> QED
            BY <3>1 DEF IsSum
    <2> QED
        BY <2>3
<1>3. ASSUME NEW s \in SUBSET T, s # T PROVE V(s) = F(s)[s]
    <2>1. IsSum(F(s), f, s)
        BY <1>2, <1>3
    <2>2. F(s)[s] = IF s = {} THEN 0 ELSE f[AnyOf(s)] + F(s)[s \ {AnyOf(s)}]
        <3> HIDE DEF F
        <3> QED
            BY <2>1 DEF IsSum
    <2>3. ASSUME s # {} PROVE F(s)[s \ {AnyOf(s)}] = F(s \ {AnyOf(s)})[s \ {AnyOf(s)}]
        <3> DEFINE u == s \ {AnyOf(s)}
        <3>1. u \in SUBSET T /\ u # T /\ u \in SUBSET (s \cap u) /\ IsFiniteSet(s)
            BY <2>3, <1>1, <1>3, AnyOfIn, FS_Subset
        <3>2. IsSum(F(u), f, u)
            BY <1>2, <3>1
        <3> HIDE DEF F, u
        <3>3. F(s)[u] = F(u)[u]
            BY <2>1, <3>1, <3>2, SumsAgree
        <3> QED
            BY <3>3 DEF u
    <2> HIDE DEF F
    <2> QED
        BY <2>2, <2>3
<1>4. IsSum(whole, f, T)
    <2>1. ASSUME NEW s \in SUBSET T, s # {}
          PROVE  V(s) = f[AnyOf(s)] + whole[s \ {AnyOf(s)}]
        <3>1. s \ {AnyOf(s)} \in SUBSET T /\ s \ {AnyOf(s)} # T
            BY <2>1, AnyOfIn
        <3>2. whole[s \ {AnyOf(s)}] = F(s \ {AnyOf(s)})[s \ {AnyOf(s)}]
            <4>1. whole[s \ {AnyOf(s)}] = V(s \ {AnyOf(s)})
                BY <3>1
            <4> HIDE DEF V, whole, F
            <4> QED
                BY <1>3, <3>1, <4>1
        <3> HIDE DEF whole, F
        <3> QED
            BY <2>1, <3>2
    <2>2. \A s \in SUBSET T : whole[s] = IF s = {} THEN 0
                                         ELSE f[AnyOf(s)] + whole[s \ {AnyOf(s)}]
        <3>1. \A s \in SUBSET T : whole[s] = V(s) /\ (s = {} => V(s) = 0)
            OBVIOUS
        <3> HIDE DEF whole, V
        <3> QED
            BY <2>1, <3>1
    <2>3. whole = [s \in SUBSET T |-> whole[s]]
        OBVIOUS
    <2> HIDE DEF whole
    <2> QED
        BY <2>2, <2>3 DEF IsSum
<1> HIDE DEF whole
<1> QED
    BY <1>1, <1>4

(* What defines the sum: that of no element is 0, ...                        *)
LEMMA SumEmpty ==
    ASSUME NEW f
    PROVE  SumFunctionOnSet(f, {}) = 0
<1> DEFINE a == CHOOSE sums : IsSum(sums, f, {})
<1>1. IsSum(a, f, {})
    BY SumExists, FS_EmptySet
<1>2. SumFunctionOnSet(f, {}) = a[{}]
    BY SumIs
<1> HIDE DEF a
<1>3. a[{}] = 0
    BY <1>1 DEF IsSum
<1> QED
    BY <1>2, <1>3

(* ... and that of others is that of some one and of the rest.               *)
LEMMA SumAny ==
    ASSUME NEW f, NEW S, IsFiniteSet(S), S # {}
    PROVE  SumFunctionOnSet(f, S) = f[AnyOf(S)] + SumFunctionOnSet(f, S \ {AnyOf(S)})
<1> DEFINE T == S \ {AnyOf(S)}
           a == CHOOSE sums : IsSum(sums, f, S)
           b == CHOOSE sums : IsSum(sums, f, T)
<1>1. IsFiniteSet(T) /\ T \in SUBSET (S \cap T) /\ T \in SUBSET S
    BY FS_Subset
<1>2. IsSum(a, f, S)
    BY SumExists
<1>3. IsSum(b, f, T)
    BY <1>1, SumExists
<1>4. SumFunctionOnSet(f, S) = a[S] /\ SumFunctionOnSet(f, T) = b[T]
    BY SumIs
<1> HIDE DEF a, b
<1>5. a[S] = f[AnyOf(S)] + a[T]
    BY <1>2 DEF IsSum
<1>6. a[T] = b[T]
    <2> HIDE DEF T
    <2> QED
        BY <1>1, <1>2, <1>3, SumsAgree
<1> QED
    BY <1>4, <1>5, <1>6

(* Functions that agree on a set have the same sum there. *)
LEMMA SumSame ==
    ASSUME NEW f, NEW g, NEW S, IsFiniteSet(S), \A x \in S : f[x] = g[x]
    PROVE  SumFunctionOnSet(f, S) = SumFunctionOnSet(g, S)
<1> DEFINE a == CHOOSE sums : IsSum(sums, f, S)
           b == CHOOSE sums : IsSum(sums, g, S)
<1>1. IsSum(a, f, S) /\ IsSum(b, g, S)
    BY SumExists
<1>2. SumFunctionOnSet(f, S) = a[S] /\ SumFunctionOnSet(g, S) = b[S]
    BY SumIs
<1> HIDE DEF a, b
<1>3. S \in SUBSET (S \cap S) /\ \A x \in S \cap S : f[x] = g[x]
    OBVIOUS
<1>4. \A s \in SUBSET (S \cap S) : a[s] = b[s]
    BY <1>1, <1>3, SumsAgree
<1> QED
    BY <1>2, <1>3, <1>4

LEMMA SumInt ==
    ASSUME NEW f, NEW S, IsFiniteSet(S), \A x \in S : f[x] \in Int
    PROVE  SumFunctionOnSet(f, S) \in Int
<1> DEFINE Bad == {T \in SUBSET S : SumFunctionOnSet(f, T) \notin Int}
<1> SUFFICES ASSUME Bad # {} PROVE FALSE
    OBVIOUS
<1>1. PICK T \in Bad : IsFiniteSet(T) /\ \A x \in T : T \ {x} \notin Bad
    BY SmallestException
<1>2. T # {} /\ AnyOf(T) \in T
    BY SumEmpty, AnyOfIn
<1>3. SumFunctionOnSet(f, T \ {AnyOf(T)}) \in Int
    BY <1>1, <1>2
<1> QED
    BY <1>1, <1>2, <1>3, SumAny

(* A sum of integers is that of any one of them and of the rest. *)
LEMMA SumRemove ==
    ASSUME NEW f, NEW S, IsFiniteSet(S), \A x \in S : f[x] \in Int, NEW x \in S
    PROVE  SumFunctionOnSet(f, S) = f[x] + SumFunctionOnSet(f, S \ {x})
<1> DEFINE Sum(T) == SumFunctionOnSet(f, T)
           Bad == {T \in SUBSET S : \E y \in T : Sum(T) # f[y] + Sum(T \ {y})}
<1> SUFFICES ASSUME Bad # {} PROVE FALSE
    BY DEF Bad
<1>1. PICK T \in Bad : IsFiniteSet(T) /\ \A y \in T : T \ {y} \notin Bad
    BY SmallestException
<1>2. PICK y \in T : Sum(T) # f[y] + Sum(T \ {y})
    OBVIOUS
<1> DEFINE z == AnyOf(T)
<1>3. z \in T /\ Sum(T) = f[z] + Sum(T \ {z}) /\ z # y
    <2>1. z \in T
        BY AnyOfIn
    <2>2. Sum(T) = f[z] + Sum(T \ {z})
        BY <1>1, SumAny
    <2> HIDE DEF Sum, z
    <2> QED
        BY <1>2, <2>1, <2>2
<1> HIDE DEF z
<1>4. /\ Sum(T \ {z}) = f[y] + Sum((T \ {z}) \ {y})
      /\ Sum(T \ {y}) = f[z] + Sum((T \ {y}) \ {z})
    <2>1. T \ {z} \in SUBSET S /\ T \ {y} \in SUBSET S /\ y \in T \ {z} /\ z \in T \ {y}
        BY <1>3
    <2> HIDE DEF Sum
    <2> QED
        BY <1>1, <1>2, <1>3, <2>1
<1>5. (T \ {z}) \ {y} = (T \ {y}) \ {z}
    OBVIOUS
<1>6. Sum((T \ {z}) \ {y}) \in Int /\ f[y] \in Int /\ f[z] \in Int
    <2>1. IsFiniteSet((T \ {z}) \ {y}) /\ \A v \in (T \ {z}) \ {y} : f[v] \in Int
        BY <1>1, FS_Subset
    <2>2. Sum((T \ {z}) \ {y}) \in Int
        BY <2>1, SumInt
    <2> QED
        BY <1>2, <1>3, <2>2
<1> HIDE DEF Sum
<1> QED
    BY <1>2, <1>3, <1>4, <1>5, <1>6

(* What is 0 does not count. *)
LEMMA SumNonZero ==
    ASSUME NEW f, NEW S, IsFiniteSet(S), \A x \in S : f[x] \in Int,
           NEW T \in SUBSET S, \A x \in S \ T : f[x] = 0
    PROVE  SumFunctionOnSet(f, S) = SumFunctionOnSet(f, T)
<1> DEFINE Sum(U) == SumFunctionOnSet(f, U)
           Bad == {U \in SUBSET S : T \subseteq U /\ Sum(U) # Sum(T)}
<1> SUFFICES ASSUME Bad # {} PROVE FALSE
    OBVIOUS
<1>1. PICK U \in Bad : IsFiniteSet(U) /\ \A x \in U : U \ {x} \notin Bad
    <2>1. Bad \in SUBSET SUBSET S
        OBVIOUS
    <2> HIDE DEF Bad
    <2> QED
        BY <2>1, SmallestException
<1>2. PICK x \in U : x \notin T
    OBVIOUS
<1>3. Sum(U \ {x}) = Sum(T)
    BY <1>1, <1>2
<1>4. Sum(U) = f[x] + Sum(U \ {x}) /\ f[x] = 0
    BY <1>1, <1>2, SumRemove
<1>5. Sum(T) \in Int
    BY SumInt, FS_Subset
<1> HIDE DEF Sum
<1> QED
    BY <1>1, <1>3, <1>4, <1>5

(* The sum over the images of a one-to-one function. *)
LEMMA SumImage ==
    ASSUME NEW g, NEW h, NEW S, IsFiniteSet(S),
           \A x \in S : g[h[x]] \in Int, \A x, y \in S : h[x] = h[y] => x = y
    PROVE  SumFunctionOnSet(g, {h[x] : x \in S}) = SumFunctionOnSet([x \in S |-> g[h[x]]], S)
<1> DEFINE f == [x \in S |-> g[h[x]]]
           Im(T) == {h[x] : x \in T}
           Bad == {T \in SUBSET S : SumFunctionOnSet(g, Im(T)) # SumFunctionOnSet(f, T)}
<1> SUFFICES ASSUME Bad # {} PROVE FALSE
    OBVIOUS
<1>1. PICK T \in Bad : IsFiniteSet(T) /\ \A x \in T : T \ {x} \notin Bad
    BY SmallestException
<1>2. CASE T = {}
    <2>1. Im(T) = {}
        BY <1>2
    <2> HIDE DEF Im, f
    <2> QED
        BY <1>2, <2>1, SumEmpty
<1>3. CASE T # {}
    <2>1. PICK x \in T : TRUE
        BY <1>3
    <2>2. Im(T \ {x}) = Im(T) \ {h[x]} /\ h[x] \in Im(T)
        OBVIOUS
    <2>3. \A y \in Im(T) : g[y] \in Int
        OBVIOUS
    <2>4. IsFiniteSet(Im(T))
        <3> DEFINE k == [v \in T |-> h[v]]
        <3>1. k \in Surjection(T, Im(T))
            BY DEF Surjection
        <3> QED
            BY <1>1, <3>1, FS_Surjection
    <2>5. \A y \in T : f[y] \in Int /\ f[y] = g[h[y]]
        OBVIOUS
    <2>6. SumFunctionOnSet(g, Im(T \ {x})) = SumFunctionOnSet(f, T \ {x})
        BY <1>1
    <2> HIDE DEF Im, f
    <2>7. SumFunctionOnSet(g, Im(T)) = g[h[x]] + SumFunctionOnSet(g, Im(T) \ {h[x]})
        BY <2>2, <2>3, <2>4, SumRemove
    <2>8. SumFunctionOnSet(f, T) = f[x] + SumFunctionOnSet(f, T \ {x})
        BY <1>1, <2>5, SumRemove
    <2> QED
        BY <2>2, <2>5, <2>6, <2>7, <2>8
<1> QED
    BY <1>2, <1>3

(* The sum of what is scaled and shifted. *)
LEMMA SumScaled ==
    ASSUME NEW f, NEW S, IsFiniteSet(S), \A x \in S : f[x] \in Int, NEW n \in Int, NEW d \in Int
    PROVE  SumFunctionOnSet([x \in S |-> n * f[x] - d], S)
             = n * SumFunctionOnSet(f, S) - Cardinality(S) * d
<1> DEFINE g == [x \in S |-> n * f[x] - d]
           Bad == {T \in SUBSET S : SumFunctionOnSet(g, T)
                                      # n * SumFunctionOnSet(f, T) - Cardinality(T) * d}
<1> SUFFICES ASSUME Bad # {} PROVE FALSE
    OBVIOUS
<1>1. PICK T \in Bad : IsFiniteSet(T) /\ \A x \in T : T \ {x} \notin Bad
    BY SmallestException
<1>2. CASE T = {}
    BY <1>2, SumEmpty, FS_EmptySet
<1>3. CASE T # {}
    <2>1. PICK x \in T : TRUE
        BY <1>3
    <2> DEFINE a == SumFunctionOnSet(f, T \ {x})
               b == SumFunctionOnSet(g, T \ {x})
               c == Cardinality(T \ {x})
    <2>2. b = n * a - c * d
        BY <1>1
    <2>3. f[x] \in Int /\ g[x] = n * f[x] - d
        OBVIOUS
    <2>4. \A y \in T : f[y] \in Int /\ g[y] \in Int
        OBVIOUS
    <2> HIDE DEF g
    <2>5. SumFunctionOnSet(f, T) = f[x] + a /\ SumFunctionOnSet(g, T) = g[x] + b
        BY <1>1, <2>4, SumRemove
    <2>6. IsFiniteSet(T \ {x}) /\ a \in Int
        BY <1>1, <2>4, FS_Subset, SumInt
    <2>7. Cardinality(T) = c + 1 /\ c \in Nat
        BY <1>1, <2>6, FS_RemoveElement, FS_CardinalityType
    <2> HIDE DEF a, b, c
    <2>8. n * (f[x] + a) = n * f[x] + n * a /\ (c + 1) * d = c * d + d
        BY <2>3, <2>6, <2>7
    <2>9. n * f[x] \in Int /\ n * a \in Int /\ c * d \in Int
        BY <2>3, <2>6, <2>7
    <2>10. g[x] + b = n * (f[x] + a) - (c + 1) * d
        BY <2>2, <2>3, <2>8, <2>9
    <2>11. SumFunctionOnSet(g, T) = n * SumFunctionOnSet(f, T) - Cardinality(T) * d
        BY <2>5, <2>7, <2>10
    <2> QED
        BY <2>11
<1> QED
    BY <1>2, <1>3

-----------------------------------------------------------------------------
(* Prefixes *)

(* A prefix, element by element. *)
LEMMA PrefixElementwise ==
    ASSUME NEW S, NEW s \in Seq(S), NEW u \in Seq(S)
    PROVE  IsPrefix(s, u) <=> /\ Len(s) <= Len(u)
                              /\ \A i \in 1..Len(s) : s[i] = u[i]
<1>1. ASSUME Len(s) <= Len(u)
      PROVE  SubSeq(s, 1, Len(s)) = SubSeq(u, 1, Len(s)) <=>
                \A i \in 1..Len(s) : s[i] = u[i]
    <2>1. Len(s) \in Nat /\ Len(u) \in Nat
        OBVIOUS
    <2>2. SubSeq(s, 1, Len(s)) = [i \in 1..Len(s) |-> s[i]]
        BY <2>1
    <2>3. SubSeq(u, 1, Len(s)) = [i \in 1..Len(s) |-> u[i]]
        BY <2>1, <1>1
    <2> QED
        BY <2>2, <2>3
<1> QED
    BY <1>1 DEF IsPrefix

(* What a sequence extends, any extension of it extends. *)
LEMMA PrefixConcat ==
    ASSUME NEW S, NEW s \in Seq(S), NEW u \in Seq(S), NEW v \in Seq(S),
           IsPrefix(s, u)
    PROVE  IsPrefix(s, u \o v)
<1>1. u \o v \in Seq(S) /\ Len(u \o v) = Len(u) + Len(v)
    OBVIOUS
<1>2. Len(s) <= Len(u) /\ \A i \in 1..Len(s) : s[i] = u[i]
    BY PrefixElementwise
<1>3. \A i \in 1..Len(s) : (u \o v)[i] = u[i]
    BY <1>2
<1> DEFINE w == u \o v
<1>4. w \in Seq(S) /\ Len(s) <= Len(w) /\ \A i \in 1..Len(s) : s[i] = w[i]
    BY <1>1, <1>2, <1>3
<1>5. ASSUME NEW x \in Seq(S), Len(s) <= Len(x), \A i \in 1..Len(s) : s[i] = x[i]
      PROVE  IsPrefix(s, x)
    BY <1>5, PrefixElementwise
<1> HIDE DEF w
<1>6. IsPrefix(s, w)
    BY <1>4, <1>5
<1> QED
    BY <1>6 DEF w

LEMMA PrefixAppend ==
    ASSUME NEW S, NEW s \in Seq(S), NEW u \in Seq(S), NEW x \in S,
           IsPrefix(s, u)
    PROVE  IsPrefix(s, Append(u, x))
<1>1. Append(u, x) = u \o <<x>> /\ <<x>> \in Seq(S)
    OBVIOUS
<1>2. ASSUME NEW v \in Seq(S) PROVE IsPrefix(s, u \o v)
    BY <1>2, PrefixConcat
<1> QED
    BY <1>1, <1>2

LEMMA PrefixSelf ==
    ASSUME NEW S, NEW s \in Seq(S)
    PROVE  IsPrefix(s, s)
BY PrefixElementwise

-----------------------------------------------------------------------------
(* Types *)

(* The messages the loop and the protocol write. *)
LEMMA Messages ==
    /\ \A o \in Int : User(o) \in Message
    /\ \A p \in Parses \cup {"none"} : Assistant(p) \in Message
    /\ ToolResult \in Message /\ FinalInstruction \in Message
BY DEF User, Assistant, ToolResult, FinalInstruction, Message

(* The steps recorded for an act are agent steps of the turn, one for each *)
(* call, with its prompt and its reply.                                    *)
LEMMA RecordedEach ==
    ASSUME NEW c \in Seq(Call), NEW n \in Nat, NEW b \in BOOLEAN, NEW k \in 1..Len(c)
    PROVE  LET s == Recorded(c, n, b)[k]
           IN  /\ s \in StepRecord
               /\ s.kind = "agent" /\ s.turn = n
               /\ s.prompt = c[k].prompt /\ s.parse = c[k].parse
               /\ ~s.trunc /\ s.why = "none"
<1> DEFINE stop == c[k].target = "env" /\ c[k].parse = "error" /\ b
<1>1. c[k] \in Call /\ DOMAIN c = 1..Len(c)
    OBVIOUS
<1>2. Recorded(c, n, b)[k] = AgentStep(c[k], n, stop)
    BY <1>1 DEF Recorded
<1>3. PICK e \in BOOLEAN : e = stop
    OBVIOUS
<1> HIDE DEF stop
<1>4. Recorded(c, n, b)[k] = AgentStep(c[k], n, e)
    BY <1>2, <1>3
<1>5. /\ c[k].target \in Targets /\ c[k].parse \in Parses \cup {"none"}
      /\ c[k].prompt \in Seq(Message)
    BY <1>1 DEF Call
<1>6. AgentReward(c[k].target, c[k].parse) \in Int
    BY <1>5 DEF AgentReward, ParserReward, Parses
<1>7. AgentStep(c[k], n, e) \in StepRecord
    BY <1>5, <1>6 DEF AgentStep, StepRecord, NoObs
<1> DEFINE s == Recorded(c, n, b)[k]
<1>8. s.kind = "agent" /\ s.turn = n /\ s.prompt = c[k].prompt
        /\ s.parse = c[k].parse /\ ~s.trunc /\ s.why = "none"
    BY <1>4 DEF AgentStep
<1>9. s \in StepRecord
    BY <1>4, <1>7
<1> QED
    BY <1>8, <1>9

(* Such a step ends the episode only for an answer that does not parse, and *)
(* only where that was asked for.                                           *)
LEMMA RecordedEnds ==
    ASSUME NEW c \in Seq(Call), NEW n \in Nat, NEW b \in BOOLEAN, NEW k \in 1..Len(c)
    PROVE  Recorded(c, n, b)[k].term <=> c[k].target = "env" /\ c[k].parse = "error" /\ b
<1>1. DOMAIN c = 1..Len(c)
    OBVIOUS
<1> QED
    BY <1>1 DEF Recorded, AgentStep

LEMMA RecordedSeq ==
    ASSUME NEW c \in Seq(Call), NEW n \in Nat, NEW b \in BOOLEAN
    PROVE  Recorded(c, n, b) \in Seq(StepRecord) /\ Len(Recorded(c, n, b)) = Len(c)
<1> DEFINE r == Recorded(c, n, b)
<1>1. DOMAIN c = 1..Len(c) /\ Len(c) \in Nat
    OBVIOUS
<1>2. r = [k \in 1..Len(c) |-> r[k]]
    BY <1>1 DEF Recorded
<1>3. \A k \in 1..Len(c) : r[k] \in StepRecord
    BY RecordedEach
<1> HIDE DEF r
<1>4. r \in [1..Len(c) -> StepRecord]
    BY <1>2, <1>3
<1>5. r \in Seq(StepRecord) /\ Len(r) = Len(c)
    BY <1>1, <1>4
<1> QED
    BY <1>5 DEF r

(* The rollout with the steps of an act behind those it had. *)
Act(s, c, n, b) == s \o Recorded(c, n, b)

LEMMA ActSteps ==
    ASSUME NEW s \in Seq(StepRecord), NEW c \in Seq(Call), NEW n \in Nat,
           NEW b \in BOOLEAN
    PROVE  LET w == Act(s, c, n, b)
           IN  /\ w \in Seq(StepRecord)
               /\ Len(w) = Len(s) + Len(c) /\ Len(w) \in Nat
               /\ \A k \in 1..Len(s) : w[k] = s[k]
               /\ \A k \in 1..Len(c) : w[Len(s) + k] = Recorded(c, n, b)[k]
               /\ \A i \in 1..Len(w) :
                    i \in 1..Len(s) \/ \E k \in 1..Len(c) : i = Len(s) + k
<1> DEFINE r == Recorded(c, n, b)
           w == s \o r
<1>1. r \in Seq(StepRecord) /\ Len(r) = Len(c) /\ Len(s) \in Nat /\ Len(c) \in Nat
    BY RecordedSeq
<1> HIDE DEF r
<1>2. w \in Seq(StepRecord) /\ Len(w) = Len(s) + Len(c)
    BY <1>1
<1>3. \A k \in 1..Len(s) : w[k] = s[k]
    BY <1>1
<1>4. \A k \in 1..Len(c) : w[Len(s) + k] = r[k]
    BY <1>1
<1> HIDE DEF w
<1>5. ASSUME NEW i \in 1..Len(w)
      PROVE  i \in 1..Len(s) \/ \E k \in 1..Len(c) : i = Len(s) + k
    <2>1. CASE i <= Len(s)
        BY <1>1, <1>2, <2>1
    <2>2. CASE i > Len(s)
        <3>1. i - Len(s) \in 1..Len(c) /\ i = Len(s) + (i - Len(s))
            BY <1>1, <1>2, <2>2
        <3> QED
            BY <3>1
    <2> QED
        BY <1>1, <1>2, <2>1, <2>2
<1>6. Act(s, c, n, b) = w
    BY DEF Act, r, w
<1>7. /\ w \in Seq(StepRecord) /\ Len(w) \in Nat
      /\ \A k \in 1..Len(c) : w[Len(s) + k] = Recorded(c, n, b)[k]
    BY <1>1, <1>2, <1>4 DEF r
<1> QED
    BY <1>2, <1>3, <1>5, <1>6, <1>7

(* What the environment returned, as a step. *)
LEMMA EnvironmentStepIs ==
    ASSUME NEW call \in Call, NEW n \in Nat, NEW o \in Int, NEW k \in Nat,
           NEW out \in Outcome
    PROVE  LET e == EnvironmentStep(call, n, o, k, out)
           IN  /\ e \in StepRecord
               /\ e.kind = "env" /\ e.turn = n /\ e.source = k /\ e.seen = o
               /\ e.why = "none" /\ (Ends(e) <=> Ends(out))
<1>1. EnvReward + EnvParserReward(call.target, call.parse) \in Int
    BY DEF Call, EnvReward, EnvParserReward, ParserReward, Parses
<1>2. out.term \in BOOLEAN /\ out.trunc \in BOOLEAN
    BY DEF Outcome
<1>3. call.target \in Targets /\ call.parse \in Parses \cup {"none"}
    BY DEF Call
<1>4. EnvironmentStep(call, n, o, k, out) \in StepRecord
    BY <1>1, <1>2, <1>3 DEF EnvironmentStep, StepRecord
<1> QED
    BY <1>4 DEF EnvironmentStep, Ends

(* The mark of the time limit touches nothing but the flag and the reason. *)
LEMMA MarkedSteps ==
    ASSUME NEW s \in Seq(StepRecord)
    PROVE  /\ Marked(s) \in Seq(StepRecord) /\ Len(Marked(s)) = Len(s)
           /\ \A k \in 1..Len(s) :
                /\ Marked(s)[k].kind = s[k].kind /\ Marked(s)[k].turn = s[k].turn
                /\ Marked(s)[k].prompt = s[k].prompt
                /\ Marked(s)[k].parse = s[k].parse
                /\ Marked(s)[k].source = s[k].source /\ Marked(s)[k].seen = s[k].seen
                /\ Marked(s)[k].term = s[k].term
                /\ Marked(s)[k].target = s[k].target
                /\ Marked(s)[k].reward = s[k].reward
<1> DEFINE e == EndStep(s)
           m == [s EXCEPT ![e] = [@ EXCEPT !.trunc = TRUE, !.why = "max_steps"]]
<1>1. Marked(s) = s \/ Marked(s) = m
    BY DEF Marked
<1> HIDE DEF e
<1>2. \A k \in 1..Len(s) : s[k] \in StepRecord
    OBVIOUS
<1>0. DOMAIN s = 1..Len(s) /\ Len(s) \in Nat
    OBVIOUS
<1>3. DOMAIN m = 1..Len(s) /\ \A k \in 1..Len(s) :
         m[k] = IF k = e THEN [s[k] EXCEPT !.trunc = TRUE, !.why = "max_steps"] ELSE s[k]
    BY <1>0
<1>4. ASSUME NEW x \in StepRecord
      PROVE  LET y == [x EXCEPT !.trunc = TRUE, !.why = "max_steps"]
             IN  /\ y \in StepRecord
                 /\ y.kind = x.kind /\ y.turn = x.turn /\ y.prompt = x.prompt
                 /\ y.parse = x.parse /\ y.source = x.source /\ y.seen = x.seen
                 /\ y.term = x.term /\ y.target = x.target /\ y.reward = x.reward
    BY DEF StepRecord
<1>5. \A k \in 1..Len(s) : m[k] \in StepRecord
    <2> HIDE DEF m
    <2> QED
        BY <1>2, <1>3, <1>4
<1>6. m \in Seq(StepRecord) /\ Len(m) = Len(s)
    <2>1. m \in [1..Len(s) -> StepRecord]
        BY <1>0, <1>5
    <2> HIDE DEF m
    <2> QED
        BY <1>0, <2>1
<1>7. ASSUME NEW k \in 1..Len(s), NEW x, x = s[k] \/ x = m[k]
      PROVE  /\ x.kind = s[k].kind /\ x.turn = s[k].turn
             /\ x.prompt = s[k].prompt /\ x.parse = s[k].parse
             /\ x.source = s[k].source /\ x.seen = s[k].seen
             /\ x.term = s[k].term
             /\ x.target = s[k].target /\ x.reward = s[k].reward
    <2> HIDE DEF m
    <2>1. s[k] \in StepRecord
        BY <1>2
    <2>2. x = s[k] \/ x = [s[k] EXCEPT !.trunc = TRUE, !.why = "max_steps"]
        BY <1>3, <1>7
    <2> QED
        BY <2>1, <2>2 DEF StepRecord
<1> QED
    BY <1>1, <1>6, <1>7

-----------------------------------------------------------------------------
(* What a call of the model and a message do *)

(* The reply and, of a tool of the agent's own, the result. *)
Heard(target, parse) ==
    <<Assistant(parse)>> \o IF target = "internal" THEN <<ToolResult>> ELSE <<>>

(* The call made, with its prompt and what came of it. *)
Made(a, target, parse) == [target |-> target, prompt |-> Prompt(a), parse |-> parse]

ReplyParse(target, parse) == IF target = "external" THEN "none" ELSE parse

LEMMA AgentTyped ==
    ASSUME AgentTypeOK, NEW a \in Agents
    PROVE  /\ ctx[a] \in Seq(Message) /\ calls[a] \in Seq(Call)
           /\ Len(calls[a]) \in Nat /\ Len(calls[a]) <= MaxReact
           /\ DOMAIN ctx = Agents /\ DOMAIN calls = Agents
BY DEF AgentTypeOK

LEMMA Called ==
    ASSUME AgentTypeOK, NEW a \in Agents, NEW target \in Targets, NEW parse \in Parses,
           ModelCall(a, target, parse)
    PROVE  LET p == ReplyParse(target, parse)
           IN  /\ calls'[a] = Append(calls[a], Made(a, target, p))
               /\ ctx'[a] = ctx[a] \o Heard(target, p)
               /\ \A b \in Agents \ {a} : calls'[b] = calls[b] /\ ctx'[b] = ctx[b]
               /\ p \in Parses \cup {"none"}
               /\ Made(a, target, p) \in Call
               /\ Heard(target, p) \in Seq(Message)
               /\ calls' \in [Agents -> Seq(Call)] /\ ctx' \in [Agents -> Seq(Message)]
<1> USE Messages
<1> DEFINE p == ReplyParse(target, parse)
           m == Made(a, target, p)
<1>1. p \in Parses \cup {"none"}
    BY DEF ReplyParse
<1>2. ctx \in [Agents -> Seq(Message)] /\ calls \in [Agents -> Seq(Call)]
    BY DEF AgentTypeOK
<1>3. calls' = [calls EXCEPT ![a] = Append(@, m)]
    BY DEF ModelCall, Made, ReplyParse
<1>4. ctx' = [ctx EXCEPT ![a] = @ \o <<Assistant(p)>>
                 \o IF target = "internal" THEN <<ToolResult>> ELSE <<>>]
    BY DEF ModelCall, ReplyParse
<1>5. Prompt(a) \in Seq(Message)
    BY <1>2 DEF Prompt
<1>6. m \in Call
    BY <1>1, <1>5 DEF Made, Call
<1> HIDE DEF p, m
<1>7. <<Assistant(p)>> \in Seq(Message) /\ <<ToolResult>> \in Seq(Message)
        /\ <<>> \in Seq(Message)
    BY <1>1
<1>8. Heard(target, p) \in Seq(Message)
    BY <1>7 DEF Heard
<1>9. ctx' = [ctx EXCEPT ![a] = @ \o Heard(target, p)]
    <2>1. ASSUME NEW u \in Seq(Message), NEW v \in Seq(Message), NEW w \in Seq(Message)
          PROVE  u \o v \o w = u \o (v \o w)
        OBVIOUS
    <2>2. ctx[a] \o <<Assistant(p)>> \o (IF target = "internal" THEN <<ToolResult>> ELSE <<>>)
            = ctx[a] \o Heard(target, p)
        BY <1>2, <1>7, <2>1 DEF Heard
    <2> QED
        BY <1>2, <1>4, <2>2
<1>10. calls' \in [Agents -> Seq(Call)] /\ ctx' \in [Agents -> Seq(Message)]
    BY <1>2, <1>3, <1>6, <1>8, <1>9
<1> QED
    BY <1>1, <1>2, <1>3, <1>6, <1>8, <1>9, <1>10 DEF p, m

(* The last call an act may make is the answer. *)
LastTry(a) == Len(calls[a]) = MaxReact => FinalCall(a).target = "env"

(* The reply of an external tool's call is not parsed, any other is.       *)
Replies(c) == \A k \in 1..Len(c) :
    c[k].parse \in IF c[k].target = "external" THEN {"none"} ELSE Parses

LoopInv ==
    /\ AgentTypeOK
    /\ \A a \in Agents : LastTry(a) /\ Replies(calls[a])

LEMMA LoopInit == AgentInit => LoopInv
BY AgentLoopAssumption, Messages DEF AgentInit, LoopInv, AgentTypeOK, LastTry, Replies, FirstObs

LEMMA LoopCall ==
    ASSUME LoopInv, NEW a \in Agents, NEW target \in Targets, NEW parse \in Parses,
           ModelCall(a, target, parse)
    PROVE  LoopInv'
<1> USE AgentLoopAssumption
<1> DEFINE m == Made(a, target, ReplyParse(target, parse))
           d == calls'[a]
<1>1. /\ d = Append(calls[a], m) /\ m \in Call
      /\ \A b \in Agents \ {a} : calls'[b] = calls[b]
      /\ calls' \in [Agents -> Seq(Call)] /\ ctx' \in [Agents -> Seq(Message)]
    BY Called DEF LoopInv
<1>2. m.target = target
    BY DEF Made
<1>3. /\ calls[a] \in Seq(Call) /\ Len(calls[a]) \in Nat
      /\ \A b \in Agents : Len(calls[b]) <= MaxReact
    BY AgentTyped DEF LoopInv
<1>4. Len(calls[a]) < MaxReact
    BY <1>3 DEF ModelCall, Returned, LoopInv, LastTry, FinalCall
<1>5. Len(calls[a]) = MaxReact - 1 => target = "env"
    BY DEF ModelCall, FinalTry
<1> HIDE DEF m
<1>6. Len(d) = Len(calls[a]) + 1 /\ d # <<>> /\ d[Len(d)] = m
    BY <1>1, <1>3
<1>7. AgentTypeOK'
    <2>1. Len(d) <= MaxReact
        BY <1>3, <1>4, <1>6
    <2>2. ASSUME NEW b \in Agents PROVE Len(calls'[b]) <= MaxReact
        BY <1>1, <1>3, <2>1
    <2> QED
        BY <1>1, <2>2 DEF AgentTypeOK
<1>8. ASSUME NEW b \in Agents PROVE LastTry(b)'
    <2>1. CASE b = a
        BY <1>2, <1>3, <1>5, <1>6, <2>1 DEF LastTry, FinalCall, Last
    <2>2. CASE b # a
        <3>1. LastTry(b) /\ calls'[b] = calls[b]
            BY <1>1, <2>2 DEF LoopInv
        <3> QED
            BY <3>1 DEF LastTry, FinalCall
    <2> QED
        BY <2>1, <2>2
<1>9. ASSUME NEW b \in Agents PROVE Replies(calls'[b])
    <2>1. Replies(calls[b])
        BY DEF LoopInv
    <2>2. CASE b = a
        <3>1. m.parse \in IF m.target = "external" THEN {"none"} ELSE Parses
            BY DEF m, Made, ReplyParse
        <3> DEFINE c == calls[a]
        <3>2. d = Append(c, m) /\ m \in Call /\ c \in Seq(Call)
            BY <1>1, <1>3
        <3>3. Replies(c) /\ d = calls'[b]
            BY <2>1, <2>2
        <3> HIDE DEF c, d
        <3>4. \A k \in 1..Len(d) : (k \in 1..Len(c) /\ d[k] = c[k]) \/ d[k] = m
            BY <3>2
        <3>5. \A k \in 1..Len(d) : d[k].parse \in IF d[k].target = "external" THEN {"none"} ELSE Parses
            BY <3>1, <3>3, <3>4 DEF Replies
        <3> QED
            BY <3>3, <3>5 DEF Replies
    <2>3. CASE b # a
        BY <1>1, <2>1, <2>3
    <2> QED
        BY <2>2, <2>3
<1> QED
    BY <1>7, <1>8, <1>9 DEF LoopInv

LEMMA LoopHear ==
    ASSUME LoopInv, NEW heard, NEW again,
           \A a \in Agents \cap DOMAIN heard : heard[a] \in Message,
           Hear(heard, again)
    PROVE  LoopInv'
<1>1. /\ ctx' = [a \in Agents |->
                   IF a \in DOMAIN heard THEN Append(ctx[a], heard[a]) ELSE ctx[a]]
      /\ calls' = [a \in Agents |-> IF a \in again THEN <<>> ELSE calls[a]]
    BY DEF Hear
<1>2. \A a \in Agents : ctx[a] \in Seq(Message) /\ calls[a] \in Seq(Call)
                         /\ Len(calls[a]) <= MaxReact
    BY AgentTyped DEF LoopInv
<1>3. \A a \in Agents \cap DOMAIN heard : Append(ctx[a], heard[a]) \in Seq(Message)
    BY <1>2
<1>4. ctx' \in [Agents -> Seq(Message)]
    BY <1>1, <1>2, <1>3
<1>5. calls' \in [Agents -> Seq(Call)] /\ \A a \in Agents : Len(calls'[a]) <= MaxReact
    BY <1>1, <1>2, AgentLoopAssumption
<1>6. ASSUME NEW a \in Agents PROVE LastTry(a)'
    <2>1. calls'[a] = <<>> \/ calls'[a] = calls[a]
        BY <1>1
    <2> QED
        BY <2>1, AgentLoopAssumption DEF LastTry, FinalCall, LoopInv
<1>7. ASSUME NEW a \in Agents PROVE Replies(calls'[a])
    <2>1. calls'[a] = <<>> \/ calls'[a] = calls[a]
        BY <1>1
    <2> QED
        BY <2>1 DEF Replies, LoopInv
<1> QED
    BY <1>4, <1>5, <1>6, <1>7 DEF LoopInv, AgentTypeOK

LEMMA LoopSame ==
    ASSUME LoopInv, UNCHANGED agentVars
    PROVE  LoopInv'
BY DEF LoopInv, AgentTypeOK, LastTry, FinalCall, agentVars

-----------------------------------------------------------------------------
(* The shape of a turn *)

(* The prompt x answered and the answer, at the head of p. *)
Spoken(x, p) == IsPrefix(Append(x.prompt, Assistant(x.parse)), p)

(* An environment step follows an agent step of its turn and closes the    *)
(* turn; each agent step of a turn starts from what the one before left.   *)
Shaped(s) ==
    /\ \A i, j \in 1..Len(s) :
          i < j /\ s[i].kind = "env" => s[i].turn # s[j].turn
    /\ \A i \in 1..Len(s) : s[i].kind = "env" =>
          i > 1 /\ s[i - 1].kind = "agent" /\ s[i - 1].turn = s[i].turn
    /\ \A i, j \in 1..Len(s) :
          i < j /\ s[i].kind = "agent" /\ s[j].kind = "agent" /\ s[i].turn = s[j].turn
            => Spoken(s[i], s[j].prompt)

(* No environment step of the turn yet, and whatever was said in it is at  *)
(* the head of the context and of the prompts that follow.  Of the calls   *)
(* of an act, all but the last used tools of the agent's own.              *)
Open(s, c, x, n) ==
    /\ \A i \in 1..Len(s) :
         /\ s[i].turn <= n
         /\ s[i].turn = n =>
              /\ s[i].kind = "agent"
              /\ Spoken(s[i], x)
              /\ \A k \in 1..Len(c) : Spoken(s[i], c[k].prompt)
    /\ \A k \in 1..Len(c) :
         /\ k < Len(c) => c[k].target = "internal"
         /\ c[k].target # "env" => Spoken(c[k], x)
         /\ \A l \in 1..Len(c) : k < l => Spoken(c[k], c[l].prompt)

(* A shaped rollout is what _collect_turns and _build_turn_saw_item ask for. *)
LEMMA ShapedIsCollectable ==
    ASSUME NEW s \in Seq(StepRecord), Shaped(s)
    PROVE  Collectable(s)
<1>1. DOMAIN s = 1..Len(s) /\ Len(s) \in Nat
    OBVIOUS
<1>2. \A i \in 1..Len(s) : s[i].kind \in {"agent", "env"} /\ s[i].turn \in Nat
    <2> TAKE i \in 1..Len(s)
    <2>1. s[i] \in StepRecord
        OBVIOUS
    <2> QED
        BY <2>1 DEF StepRecord
<1>3. ASSUME NEW i \in 1..Len(s), NEW j \in 1..Len(s), i < j, SameTurn(s, i, j)
      PROVE  s[i].turn = s[j].turn
    BY <1>1, <1>3 DEF SameTurn
<1> DEFINE agents == {k \in DOMAIN s : s[k].kind = "agent"}
           envs == DOMAIN s \ agents
<1>4. \A i \in envs : i \in 1..Len(s) /\ s[i].kind = "env"
    BY <1>1, <1>2
<1>5. \A i \in agents : i \in 1..Len(s) /\ s[i].kind = "agent"
    BY <1>1
<1>6. \A i, j \in envs : ~(i < j /\ SameTurn(s, i, j))
    <2> HIDE DEF envs
    <2> QED
        BY <1>3, <1>4 DEF Shaped
<1>7. ASSUME NEW i \in envs PROVE \E j \in agents : j < i /\ SameTurn(s, j, i)
    <2>1. i \in 1..Len(s) /\ i > 1 /\ s[i - 1].kind = "agent" /\ s[i - 1].turn = s[i].turn
        BY <1>4 DEF Shaped
    <2>2. i - 1 \in agents /\ i - 1 < i
        BY <1>1, <2>1
    <2>3. \A k \in i - 1..i : k = i - 1 \/ k = i
        BY <2>1
    <2>4. SameTurn(s, i - 1, i)
        BY <2>1, <2>3 DEF SameTurn
    <2> QED
        BY <2>2, <2>4
<1>8. \A i, j \in agents : i < j /\ SameTurn(s, i, j) => Spoken(s[i], s[j].prompt)
    <2> HIDE DEF agents
    <2> QED
        BY <1>3, <1>5 DEF Shaped
<1> HIDE DEF agents
<1> QED
    BY <1>6, <1>7, <1>8 DEF Collectable, Spoken, agents

(* The mark leaves the shape alone. *)
LEMMA MarkKeepsShape ==
    ASSUME NEW s \in Seq(StepRecord), Shaped(s)
    PROVE  Shaped(Marked(s))
<1> DEFINE m == Marked(s)
<1>1. Len(m) = Len(s) /\ Len(s) \in Nat
    BY MarkedSteps
<1>2. \A k \in 1..Len(s) : m[k].kind = s[k].kind /\ m[k].turn = s[k].turn
                            /\ m[k].prompt = s[k].prompt /\ m[k].parse = s[k].parse
    BY MarkedSteps
<1> HIDE DEF m
<1>3. \A k \in 1..Len(s) : \A q : Spoken(s[k], q) => Spoken(m[k], q)
    BY <1>2 DEF Spoken
<1>4. \A i, j \in 1..Len(m) : i < j /\ m[i].kind = "env" => m[i].turn # m[j].turn
    BY <1>1, <1>2 DEF Shaped
<1>5. \A i \in 1..Len(m) : m[i].kind = "env" =>
          i > 1 /\ m[i - 1].kind = "agent" /\ m[i - 1].turn = m[i].turn
    <2> TAKE i \in 1..Len(m)
    <2> HAVE m[i].kind = "env"
    <2>1. i > 1 /\ s[i - 1].kind = "agent" /\ s[i - 1].turn = s[i].turn
        BY <1>1, <1>2 DEF Shaped
    <2>2. i - 1 \in 1..Len(s)
        BY <1>1, <2>1
    <2> QED
        BY <1>1, <1>2, <2>1, <2>2
<1>6. \A i, j \in 1..Len(m) :
          i < j /\ m[i].kind = "agent" /\ m[j].kind = "agent" /\ m[i].turn = m[j].turn
            => Spoken(m[i], m[j].prompt)
    BY <1>1, <1>2, <1>3 DEF Shaped
<1> QED
    BY <1>4, <1>5, <1>6 DEF Shaped, m

(* What was said stays said. *)
LEMMA SpokenGrows ==
    ASSUME NEW x, x.prompt \in Seq(Message), x.parse \in Parses \cup {"none"},
           NEW p \in Seq(Message), NEW v \in Seq(Message), Spoken(x, p)
    PROVE  Spoken(x, p \o v)
<1>1. Append(x.prompt, Assistant(x.parse)) \in Seq(Message)
    BY Messages
<1> QED
    BY <1>1, PrefixConcat DEF Spoken

LEMMA SpokenAppend ==
    ASSUME NEW x, x.prompt \in Seq(Message), x.parse \in Parses \cup {"none"},
           NEW p \in Seq(Message), NEW m \in Message, Spoken(x, p)
    PROVE  Spoken(x, Append(p, m))
<1>1. Append(x.prompt, Assistant(x.parse)) \in Seq(Message)
    BY Messages
<1> QED
    BY <1>1, PrefixAppend DEF Spoken

(* The reply to a call that did not ask for the final answer is said. *)
LEMMA SpokenNow ==
    ASSUME NEW p \in Seq(Message), NEW target, NEW parse \in Parses \cup {"none"}
    PROVE  IsPrefix(Append(p, Assistant(parse)), p \o Heard(target, parse))
<1> DEFINE q == Append(p, Assistant(parse))
           w == IF target = "internal" THEN <<ToolResult>> ELSE <<>>
<1>1. Assistant(parse) \in Message /\ ToolResult \in Message
    BY Messages
<1>2. q \in Seq(Message) /\ w \in Seq(Message)
    BY <1>1
<1>3. p \o Heard(target, parse) = q \o w
    <2>1. ASSUME NEW m \in Message, NEW u \in Seq(Message)
          PROVE  p \o (<<m>> \o u) = Append(p, m) \o u
        OBVIOUS
    <2> QED
        BY <1>1, <1>2, <2>1 DEF Heard
<1> HIDE DEF q, w
<1>4. IsPrefix(q, q \o w)
    BY <1>2, PrefixSelf, PrefixConcat
<1> QED
    BY <1>3, <1>4 DEF q

(* The steps of an act go on with its turn and keep the shape. *)
LEMMA ActKeepsShape ==
    ASSUME NEW s \in Seq(StepRecord), NEW c \in Seq(Call), NEW n \in Nat,
           NEW b \in BOOLEAN, NEW x, Shaped(s), Open(s, c, x, n)
    PROVE  LET w == Act(s, c, n, b)
           IN  /\ Shaped(w)
               /\ \A i \in 1..Len(w) :
                    /\ w[i].turn <= n /\ w[i].turn < n + 1
                    /\ w[i].turn = n => w[i].kind = "agent"
               /\ c # <<>> => /\ Len(w) \in 1..Len(w)
                             /\ w[Len(w)].kind = "agent" /\ w[Len(w)].turn = n
                             /\ w[Len(w)].prompt = c[Len(c)].prompt
               /\ (\A k \in 1..Len(c) : c[k].target # "env") =>
                    \A i \in 1..Len(w) : w[i].turn = n => Spoken(w[i], x)
<1> DEFINE w == Act(s, c, n, b)
           p == Len(s)
<1>1. /\ w \in Seq(StepRecord) /\ Len(w) = p + Len(c) /\ Len(w) \in Nat
      /\ \A k \in 1..p : w[k] = s[k]
      /\ \A k \in 1..Len(c) : w[p + k] = Recorded(c, n, b)[k]
    BY ActSteps
<1>2. p \in Nat /\ Len(c) \in Nat
    OBVIOUS
<1>3. ASSUME NEW k \in 1..Len(c)
      PROVE  /\ w[p + k].kind = "agent" /\ w[p + k].turn = n
             /\ w[p + k].prompt = c[k].prompt /\ w[p + k].parse = c[k].parse
    <2> DEFINE r == Recorded(c, n, b)[k]
    <2>1. r.kind = "agent" /\ r.turn = n /\ r.prompt = c[k].prompt /\ r.parse = c[k].parse
        BY RecordedEach
    <2>2. w[p + k] = r
        BY <1>1
    <2> HIDE DEF r, w, p
    <2> QED
        BY <2>1, <2>2
<1>4. /\ \A i \in 1..p :
           /\ s[i].turn <= n
           /\ s[i].turn = n =>
                /\ s[i].kind = "agent"
                /\ Spoken(s[i], x)
                /\ \A k \in 1..Len(c) : Spoken(s[i], c[k].prompt)
      /\ \A k \in 1..Len(c) :
           /\ c[k].target # "env" => Spoken(c[k], x)
           /\ \A l \in 1..Len(c) : k < l => Spoken(c[k], c[l].prompt)
    BY DEF Open
<1>5. \A i \in 1..Len(w) : i \in 1..p \/ \E k \in 1..Len(c) : i = p + k
    BY ActSteps
<1> HIDE DEF w, p
<1>6. \A k \in 1..Len(c) : \A q : Spoken(w[p + k], q) <=> Spoken(c[k], q)
    BY <1>3 DEF Spoken
<1>7. \A i \in 1..Len(w) : w[i].turn <= n /\ (w[i].turn = n => w[i].kind = "agent")
    <2> TAKE i \in 1..Len(w)
    <2>1. CASE i \in 1..p
        BY <1>1, <1>4, <2>1
    <2>2. ASSUME NEW k \in 1..Len(c), i = p + k PROVE w[i].turn = n /\ w[i].kind = "agent"
        BY <1>3, <2>2
    <2> QED
        BY <1>5, <2>1, <2>2
<1>8. \A i \in 1..Len(w) : w[i].turn < n + 1
    <2> TAKE i \in 1..Len(w)
    <2>1. w[i] \in StepRecord
        BY <1>1
    <2>2. w[i].turn \in Nat
        BY <2>1 DEF StepRecord
    <2> QED
        BY <1>7, <2>2
<1>9. Shaped(w)
    <2>1. ASSUME NEW i \in 1..Len(w), NEW j \in 1..Len(w), i < j, w[i].kind = "env"
          PROVE  w[i].turn # w[j].turn
        <3>1. i \in 1..p
            BY <1>3, <1>5, <2>1
        <3>2. CASE j \in 1..p
            BY <1>1, <2>1, <3>1, <3>2 DEF Shaped, p
        <3>3. ASSUME NEW k \in 1..Len(c), j = p + k PROVE w[i].turn # w[j].turn
            BY <1>1, <1>3, <1>7, <2>1, <3>1, <3>3
        <3> QED
            BY <1>5, <3>2, <3>3
    <2>2. ASSUME NEW i \in 1..Len(w), w[i].kind = "env"
          PROVE  i > 1 /\ w[i - 1].kind = "agent" /\ w[i - 1].turn = w[i].turn
        <3>1. i \in 1..p
            BY <1>3, <1>5, <2>2
        <3>2. i > 1 /\ s[i - 1].kind = "agent" /\ s[i - 1].turn = s[i].turn
            BY <1>1, <2>2, <3>1 DEF Shaped, p
        <3>3. i - 1 \in 1..p
            BY <1>2, <3>1, <3>2
        <3> QED
            BY <1>1, <3>1, <3>2, <3>3
    <2>3. ASSUME NEW i \in 1..Len(w), NEW j \in 1..Len(w), i < j,
                 w[i].kind = "agent", w[j].kind = "agent", w[i].turn = w[j].turn
          PROVE  Spoken(w[i], w[j].prompt)
        <3>1. CASE j \in 1..p
            <4>1. i \in 1..p
                BY <1>2, <2>3, <3>1
            <4> QED
                BY <1>1, <2>3, <3>1, <4>1 DEF Shaped, p
        <3>2. ASSUME NEW l \in 1..Len(c), j = p + l PROVE Spoken(w[i], w[j].prompt)
            <4>1. w[j].turn = n /\ w[j].prompt = c[l].prompt
                BY <1>3, <3>2
            <4>2. CASE i \in 1..p
                BY <1>1, <1>4, <2>3, <4>1, <4>2
            <4>3. ASSUME NEW k \in 1..Len(c), i = p + k PROVE Spoken(w[i], w[j].prompt)
                <5>1. k < l
                    BY <1>2, <2>3, <3>2, <4>3
                <5>2. Spoken(c[k], c[l].prompt)
                    BY <1>4, <5>1
                <5> QED
                    BY <1>6, <4>1, <4>3, <5>2
            <4> QED
                BY <1>5, <4>2, <4>3
        <3> QED
            BY <1>5, <3>1, <3>2
    <2> QED
        BY <2>1, <2>2, <2>3 DEF Shaped
<1>10. c # <<>> => /\ Len(w) \in 1..Len(w) /\ w[Len(w)].kind = "agent"
                    /\ w[Len(w)].turn = n /\ w[Len(w)].prompt = c[Len(c)].prompt
    <2> HAVE c # <<>>
    <2>1. Len(c) \in 1..Len(c)
        BY <1>2
    <2> QED
        BY <1>1, <1>2, <1>3, <2>1
<1>11. ASSUME \A k \in 1..Len(c) : c[k].target # "env",
              NEW i \in 1..Len(w), w[i].turn = n
       PROVE  Spoken(w[i], x)
    <2>1. CASE i \in 1..p
        BY <1>1, <1>4, <1>11, <2>1
    <2>2. ASSUME NEW k \in 1..Len(c), i = p + k PROVE Spoken(w[i], x)
        BY <1>4, <1>6, <1>11, <2>2
    <2> QED
        BY <1>5, <2>1, <2>2
<1> QED
    BY <1>7, <1>8, <1>9, <1>10, <1>11 DEF w

(* A new turn is open. *)
LEMMA FreshIsOpen ==
    ASSUME NEW s \in Seq(StepRecord), NEW n \in Nat, NEW x,
           \A i \in 1..Len(s) : s[i].turn < n
    PROVE  Open(s, <<>>, x, n)
<1>1. \A i \in 1..Len(s) : s[i].turn \in Nat
    <2> TAKE i \in 1..Len(s)
    <2>1. s[i] \in StepRecord
        OBVIOUS
    <2> QED
        BY <2>1 DEF StepRecord
<1>2. \A i \in 1..Len(s) : s[i].turn <= n /\ s[i].turn # n
    BY <1>1
<1> QED
    BY <1>2 DEF Open

(* A turn whose calls did not answer stays open. *)
LEMMA ActIsOpen ==
    ASSUME NEW s \in Seq(StepRecord), NEW c \in Seq(Call), NEW n \in Nat,
           NEW b \in BOOLEAN, NEW x, Shaped(s), Open(s, c, x, n),
           \A k \in 1..Len(c) : c[k].target # "env"
    PROVE  Open(Act(s, c, n, b), <<>>, x, n)
<1> DEFINE w == Act(s, c, n, b)
<1>1. /\ \A i \in 1..Len(w) : w[i].turn <= n /\ (w[i].turn = n => w[i].kind = "agent")
      /\ \A i \in 1..Len(w) : w[i].turn = n => Spoken(w[i], x)
    BY ActKeepsShape
<1> HIDE DEF w
<1> QED
    BY <1>1 DEF Open, w

(* Whatever the agent hears next, the turn stays open. *)
LEMMA OpenHears ==
    ASSUME NEW s \in Seq(StepRecord), NEW n \in Nat, NEW x \in Seq(Message),
           NEW m \in Message, Open(s, <<>>, x, n)
    PROVE  Open(s, <<>>, Append(x, m), n)
<1>1. ASSUME NEW i \in 1..Len(s), s[i].turn = n
      PROVE  Spoken(s[i], Append(x, m))
    <2>1. s[i] \in StepRecord
        OBVIOUS
    <2>2. s[i].prompt \in Seq(Message) /\ s[i].parse \in Parses \cup {"none"}
        BY <2>1 DEF StepRecord
    <2> QED
        BY <1>1, <2>2, SpokenAppend DEF Open
<1> QED
    BY <1>1 DEF Open

(* A call starts from the context, with the final instruction or without. *)
LEMMA PromptExtends ==
    ASSUME AgentTypeOK, NEW a \in Agents,
           NEW x, x.prompt \in Seq(Message), x.parse \in Parses \cup {"none"},
           Spoken(x, ctx[a])
    PROVE  Spoken(x, Prompt(a))
<1>1. ctx[a] \in Seq(Message)
    BY AgentTyped
<1>2. Spoken(x, Append(ctx[a], FinalInstruction))
    BY <1>1, Messages, SpokenAppend
<1> QED
    BY <1>2 DEF Prompt

(* A call of the model keeps the round as it should be. *)
LEMMA CallKeepsOpen ==
    ASSUME AgentTypeOK, NEW a \in Agents, NEW s \in Seq(StepRecord), NEW n \in Nat,
           Open(s, calls[a], ctx[a], n), NEW target \in Targets, NEW parse \in Parses,
           ModelCall(a, target, parse)
    PROVE  Open(s, calls'[a], ctx'[a], n)
<1> DEFINE c == calls[a]
           m == Made(a, target, ReplyParse(target, parse))
           h == Heard(target, ReplyParse(target, parse))
           x == ctx[a]
<1>1. /\ calls'[a] = Append(c, m) /\ ctx'[a] = x \o h
      /\ m \in Call /\ h \in Seq(Message)
    BY Called
<1>2. /\ c \in Seq(Call) /\ x \in Seq(Message)
    BY AgentTyped
<1>3. /\ \A i \in 1..Len(s) :
           s[i].prompt \in Seq(Message) /\ s[i].parse \in Parses \cup {"none"}
      /\ \A k \in 1..Len(c) :
           c[k].prompt \in Seq(Message) /\ c[k].parse \in Parses \cup {"none"}
    <2> HIDE DEF c
    <2>1. ASSUME NEW i \in 1..Len(s)
          PROVE  s[i].prompt \in Seq(Message) /\ s[i].parse \in Parses \cup {"none"}
        <3>1. s[i] \in StepRecord
            BY <1>2
        <3> QED
            BY <3>1 DEF StepRecord
    <2>2. ASSUME NEW k \in 1..Len(c)
          PROVE  c[k].prompt \in Seq(Message) /\ c[k].parse \in Parses \cup {"none"}
        <3>1. c[k] \in Call
            BY <1>2
        <3> QED
            BY <3>1 DEF Call
    <2> QED
        BY <2>1, <2>2
<1>4. \A k \in 1..Len(c) : c[k].target = "internal"
    <2>1. c # <<>> => c[Len(c)].target = "internal"
        BY DEF ModelCall, Returned, FinalCall, Last
    <2>2. \A k \in 1..Len(c) : k < Len(c) => c[k].target = "internal"
        BY DEF Open
    <2> HIDE DEF c
    <2> QED
        BY <1>2, <2>1, <2>2
<1>5. m.prompt = Prompt(a) /\ m.target = target /\ m.parse = ReplyParse(target, parse)
    BY DEF Made
<1>6. /\ \A i \in 1..Len(s) :
           /\ s[i].turn <= n
           /\ s[i].turn = n =>
                /\ s[i].kind = "agent"
                /\ Spoken(s[i], x)
                /\ \A k \in 1..Len(c) : Spoken(s[i], c[k].prompt)
      /\ \A k \in 1..Len(c) :
           /\ Spoken(c[k], x)
           /\ \A l \in 1..Len(c) : k < l => Spoken(c[k], c[l].prompt)
    BY <1>4 DEF Open
<1>7. target # "env" => Spoken(m, x \o h)
    <2> HAVE target # "env"
    <2>1. m.prompt = x
        BY <1>5 DEF ModelCall, Prompt
    <2>2. ReplyParse(target, parse) \in Parses \cup {"none"}
        BY DEF ReplyParse
    <2> HIDE DEF m, x
    <2> QED
        BY <1>2, <1>5, <2>1, <2>2, SpokenNow DEF Spoken
<1>8. \A i \in 1..Len(s) : s[i].turn = n =>
         Spoken(s[i], x \o h) /\ Spoken(s[i], m.prompt)
    <2> HIDE DEF m, h
    <2> QED
        BY <1>1, <1>2, <1>3, <1>5, <1>6, SpokenGrows, PromptExtends
<1>9. \A k \in 1..Len(c) : Spoken(c[k], x \o h) /\ Spoken(c[k], m.prompt)
    <2> HIDE DEF m, h, c
    <2> QED
        BY <1>1, <1>2, <1>3, <1>5, <1>6, SpokenGrows, PromptExtends
<1> DEFINE d == Append(c, m)
<1>10. calls'[a] = d /\ ctx'[a] = x \o h
    BY <1>1
<1> HIDE DEF m, h, c, x
<1>11. /\ Len(d) = Len(c) + 1 /\ Len(c) \in Nat
       /\ \A k \in 1..Len(c) : d[k] = c[k]
       /\ d[Len(c) + 1] = m
    BY <1>1, <1>2
<1> HIDE DEF d
<1>12. \A k \in 1..Len(d) : k \in 1..Len(c) \/ k = Len(c) + 1
    BY <1>11
<1>13. ASSUME NEW i \in 1..Len(s), s[i].turn = n, NEW k \in 1..Len(d)
       PROVE  Spoken(s[i], d[k].prompt)
    BY <1>6, <1>8, <1>11, <1>12, <1>13
<1>14. ASSUME NEW k \in 1..Len(d)
       PROVE  /\ k < Len(d) => d[k].target = "internal"
              /\ d[k].target # "env" => Spoken(d[k], x \o h)
              /\ \A l \in 1..Len(d) : k < l => Spoken(d[k], d[l].prompt)
    <2>1. CASE k \in 1..Len(c)
        BY <1>4, <1>6, <1>9, <1>11, <1>12, <2>1
    <2>2. CASE k = Len(c) + 1
        BY <1>5, <1>7, <1>11, <2>2
    <2> QED
        BY <1>12, <2>1, <2>2
<1> QED
    BY <1>6, <1>8, <1>10, <1>13, <1>14 DEF Open

(* The step of the environment closes the turn. *)
LEMMA EnvKeepsShape ==
    ASSUME NEW w \in Seq(StepRecord), NEW e \in StepRecord, Shaped(w),
           e.kind = "env", Len(w) \in 1..Len(w),
           w[Len(w)].kind = "agent", w[Len(w)].turn = e.turn,
           \A i \in 1..Len(w) : w[i].turn = e.turn => w[i].kind = "agent"
    PROVE  Shaped(Append(w, e))
<1> DEFINE s == Append(w, e)
           n == Len(w)
<1>1. /\ n \in Nat /\ Len(s) = n + 1 /\ s[n + 1] = e
      /\ \A i \in 1..n : s[i] = w[i]
    OBVIOUS
<1> HIDE DEF s
<1>2. \A i \in 1..Len(s) : i \in 1..n \/ i = n + 1
    BY <1>1
<1>3. \A i, j \in 1..Len(s) : i < j => i \in 1..n
    BY <1>1
<1>4. ASSUME NEW i \in 1..Len(s), NEW j \in 1..Len(s), i < j, s[i].kind = "env"
      PROVE  s[i].turn # s[j].turn
    BY <1>1, <1>2, <1>3, <1>4 DEF Shaped
<1>5. ASSUME NEW i \in 1..Len(s), s[i].kind = "env"
      PROVE  i > 1 /\ s[i - 1].kind = "agent" /\ s[i - 1].turn = s[i].turn
    <2>1. CASE i \in 1..n
        <3>1. i > 1 /\ w[i - 1].kind = "agent" /\ w[i - 1].turn = w[i].turn
            BY <1>1, <1>5, <2>1 DEF Shaped
        <3>2. i - 1 \in 1..n
            BY <1>1, <2>1, <3>1
        <3> QED
            BY <1>1, <2>1, <3>1, <3>2
    <2>2. CASE i = n + 1
        BY <1>1, <2>2
    <2> QED
        BY <1>2, <2>1, <2>2
<1>6. ASSUME NEW i \in 1..Len(s), NEW j \in 1..Len(s), i < j,
             s[i].kind = "agent", s[j].kind = "agent", s[i].turn = s[j].turn
      PROVE  Spoken(s[i], s[j].prompt)
    BY <1>1, <1>2, <1>3, <1>6 DEF Shaped
<1> QED
    BY <1>4, <1>5, <1>6 DEF Shaped, s
(* What the turn was for is done: after its environment step it is closed. *)
LEMMA AppendTurns ==
    ASSUME NEW w \in Seq(StepRecord), NEW e \in StepRecord, NEW n \in Nat,
           \A i \in 1..Len(w) : w[i].turn < n, e.turn < n
    PROVE  \A i \in 1..Len(Append(w, e)) : Append(w, e)[i].turn < n
<1>1. /\ Len(Append(w, e)) = Len(w) + 1 /\ Append(w, e)[Len(w) + 1] = e
      /\ \A i \in 1..Len(w) : Append(w, e)[i] = w[i]
    OBVIOUS
<1> QED
    BY <1>1

-----------------------------------------------------------------------------

(* No step carries an end, or the last one alone does. *)
NoEnd(s) == \A i \in 1..Len(s) : ~Ends(s[i])
LastEnds(s) ==
    /\ s # <<>> /\ Ends(s[Len(s)])
    /\ \A i \in 1..Len(s) : i < Len(s) => ~Ends(s[i])
    /\ s[Len(s)].kind = "agent" => s[Len(s)].term
Unmarked(s) == \A i \in 1..Len(s) : s[i].why = "none"

(* A set of positions that is not empty has a last one. *)
LEMMA MaxExists ==
    ASSUME NEW n \in Nat, NEW S \in SUBSET (1..n), S # {}
    PROVE  Max(S) \in S /\ \A i \in S : i <= Max(S)
<1> DEFINE T == {n - i : i \in S}
<1>0. \A i \in S : i \in 1..n
    OBVIOUS
<1>1. T \subseteq Nat /\ T # {}
    <2>1. \A i \in S : n - i \in Nat
        BY <1>0
    <2>2. T # {}
        OBVIOUS
    <2> QED
        BY <2>1, <2>2
<1>2. PICK x \in T : \A y \in T : ~ (<<y, x>> \in OpToRel(<, Nat))
    BY <1>1, NatLessThanWellFounded, WFMin, Zenon
<1>3. \A y \in T : ~ (y < x)
    BY <1>1, <1>2 DEF OpToRel
<1>4. PICK h \in S : x = n - h
    OBVIOUS
<1>5. \A i \in S : h >= i
    <2> TAKE i \in S
    <2>1. n - i \in T
        OBVIOUS
    <2>2. ~ (n - i < n - h)
        BY <1>3, <1>4, <2>1
    <2> HIDE DEF T
    <2> QED
        BY <2>2
<1>6. Max(S) \in S /\ \A i \in S : Max(S) >= i
    BY <1>5 DEF Max
<1> HIDE DEF T
<1> QED
    BY <1>6

EnvSteps(s) == {i \in 1..Len(s) : s[i].kind = "env"}

(* The step that carries the end: the last of the environment, else the last. *)
LEMMA EndStepIs ==
    ASSUME NEW s \in Seq(StepRecord), s # <<>>
    PROVE  /\ EndStep(s) \in 1..Len(s)
           /\ EndStep(s) = IF EnvSteps(s) # {} THEN Max(EnvSteps(s)) ELSE Len(s)
           /\ s[Len(s)].kind = "env" => EndStep(s) = Len(s)
<1>1. Len(s) \in Nat /\ Len(s) \in 1..Len(s)
    OBVIOUS
<1> DEFINE I == EnvSteps(s)
<1>2. EndStep(s) = LET e == IF I # {} THEN Max(I) ELSE 0
                   IN  IF e # 0 THEN e ELSE Len(s)
    BY DEF EndStep, SelectLastInSeq, EnvSteps
<1>3. I \in SUBSET (1..Len(s))
    BY DEF EnvSteps
<1>4. I # {} => Max(I) \in I /\ \A i \in I : i <= Max(I)
    <2> HIDE DEF I
    <2> QED
        BY <1>1, <1>3, MaxExists
<1>5. s[Len(s)].kind = "env" => Len(s) \in I
    BY <1>1 DEF EnvSteps
<1> HIDE DEF I
<1>6. I # {} => Max(I) \in 1..Len(s)
    BY <1>3, <1>4
<1>7. EndStep(s) = IF I # {} THEN Max(I) ELSE Len(s)
    BY <1>2, <1>6
<1>8. Len(s) \in I => Max(I) = Len(s)
    <2> HAVE Len(s) \in I
    <2>1. Len(s) <= Max(I) /\ Max(I) \in 1..Len(s)
        BY <1>4, <1>6
    <2> QED
        BY <1>1, <2>1
<1> QED
    BY <1>1, <1>5, <1>6, <1>7, <1>8 DEF I

(* An episode ended by its last step ends once. *)
LEMMA LastEndsOnce ==
    ASSUME NEW s \in Seq(StepRecord), LastEnds(s), Unmarked(s)
    PROVE  EndedOnce(s)
<1> DEFINE e == Len(s)
           d == EndStep(s)
<1>1. e \in 1..e /\ DOMAIN s = 1..e /\ e \in Nat /\ s # <<>>
    BY DEF LastEnds
<1>2. d \in 1..e /\ (s[e].kind = "env" => d = e)
    BY <1>1, EndStepIs
<1>3. \A i \in 1..e : s[i].kind \in {"agent", "env"} /\ s[i].term \in BOOLEAN
                       /\ s[i].trunc \in BOOLEAN /\ s[i].why = "none"
    <2> TAKE i \in 1..e
    <2>1. s[i] \in StepRecord
        OBVIOUS
    <2>2. s[i].kind \in {"agent", "env"} /\ s[i].term \in BOOLEAN /\ s[i].trunc \in BOOLEAN
        BY <2>1 DEF StepRecord
    <2> QED
        BY <2>2 DEF Unmarked
<1>4. Ends(s[e]) /\ \A i \in 1..e : Ends(s[i]) => i = e
    <2>1. ASSUME NEW n \in Nat, NEW i \in 1..n PROVE i < n \/ i = n
        OBVIOUS
    <2> QED
        BY <1>1, <2>1 DEF LastEnds
<1>5. {k \in DOMAIN s : Ends(s[k])} = {e}
    BY <1>1, <1>4
<1>6. Reason(s) = IF s[d].term \/ ~s[d].trunc THEN "none" ELSE "env"
    BY <1>1, <1>2, <1>3 DEF Reason
<1>7. Reason(s) = IF s[e].term THEN "none" ELSE "env"
    <2>1. CASE d = e
        BY <1>3, <1>4, <1>6, <2>1 DEF Ends
    <2>2. CASE d # e
        <3>1. ~Ends(s[d])
            BY <1>2, <1>4, <2>2
        <3>2. s[e].term
            BY <1>1, <1>2, <1>3, <2>2 DEF LastEnds
        <3> QED
            BY <1>6, <3>1, <3>2 DEF Ends
    <2> QED
        BY <2>1, <2>2
<1> QED
    BY <1>1, <1>3, <1>5, <1>7 DEF EndedOnce

(* An episode the time limit ended ends once, where the mark is. *)
LEMMA MarkEndsOnce ==
    ASSUME NEW s \in Seq(StepRecord), NoEnd(s), s # <<>>
    PROVE  EndedOnce(Marked(s))
<1> DEFINE m == Marked(s)
           e == EndStep(s)
<1>1. e \in 1..Len(s) /\ DOMAIN s = 1..Len(s) /\ ~Ends(s[e])
    BY EndStepIs DEF NoEnd
<1>2. m = [s EXCEPT ![e] = [@ EXCEPT !.trunc = TRUE, !.why = "max_steps"]]
    BY <1>1 DEF Marked
<1>3. m \in Seq(StepRecord) /\ Len(m) = Len(s) /\ DOMAIN m = 1..Len(s) /\ m # <<>>
    BY <1>1, <1>2, MarkedSteps
<1>4. \A k \in 1..Len(s) : m[k].kind = s[k].kind /\ (m[k].term <=> s[k].term)
    BY MarkedSteps
<1>5. EndStep(m) = e
    <2>1. EnvSteps(m) = EnvSteps(s)
        BY <1>3, <1>4 DEF EnvSteps
    <2> QED
        BY <1>3, <2>1, EndStepIs
<1> HIDE DEF e
<1>6. m[e].trunc /\ m[e].why = "max_steps"
    <2>1. s[e] \in StepRecord
        BY <1>1
    <2>2. m[e] = [s[e] EXCEPT !.trunc = TRUE, !.why = "max_steps"]
        BY <1>1, <1>2
    <2> QED
        BY <2>1, <2>2 DEF StepRecord
<1>7. ~m[e].term
    BY <1>1, <1>4 DEF Ends
<1>8. \A k \in 1..Len(s) : k # e => ~Ends(m[k])
    BY <1>1, <1>2 DEF NoEnd
<1> HIDE DEF m
<1>9. {k \in DOMAIN m : Ends(m[k])} = {e}
    BY <1>1, <1>3, <1>6, <1>8 DEF Ends
<1>10. Reason(m) = "max_steps"
    BY <1>3, <1>5, <1>6, <1>7 DEF Reason
<1> QED
    BY <1>1, <1>3, <1>6, <1>7, <1>9, <1>10 DEF EndedOnce, m

(* Of the steps an act adds, only the last can end the episode, for an      *)
(* answer that does not parse.                                              *)
LEMMA ActEnds ==
    ASSUME NEW s \in Seq(StepRecord), NEW c \in Seq(Call), NEW n \in Nat,
           NEW b \in BOOLEAN, NEW x, Open(s, c, x, n), c # <<>>, NoEnd(s), Unmarked(s)
    PROVE  LET w == Act(s, c, n, b)
               m == Len(w)
               ends == c[Len(c)].target = "env" /\ c[Len(c)].parse = "error" /\ b
           IN  /\ Unmarked(w)
               /\ ends => LastEnds(w)
               /\ ~ends => NoEnd(w)
<1> DEFINE w == Act(s, c, n, b)
           p == Len(s)
<1>1. /\ w \in Seq(StepRecord) /\ Len(w) = p + Len(c) /\ Len(w) \in Nat
      /\ \A k \in 1..p : w[k] = s[k]
      /\ \A k \in 1..Len(c) : w[p + k] = Recorded(c, n, b)[k]
      /\ \A i \in 1..Len(w) : i \in 1..p \/ \E k \in 1..Len(c) : i = p + k
    BY ActSteps
<1>2. p \in Nat /\ Len(c) \in Nat /\ Len(c) \in 1..Len(c)
    OBVIOUS
<1>3. ASSUME NEW k \in 1..Len(c)
      PROVE  /\ w[p + k].why = "none"
             /\ Ends(w[p + k]) <=> c[k].target = "env" /\ c[k].parse = "error" /\ b
             /\ Ends(w[p + k]) => w[p + k].term
    <2> DEFINE r == Recorded(c, n, b)[k]
    <2>1. ~r.trunc /\ r.why = "none"
        BY RecordedEach
    <2>2. r.term <=> c[k].target = "env" /\ c[k].parse = "error" /\ b
        BY RecordedEnds
    <2>3. w[p + k] = r
        BY <1>1
    <2> HIDE DEF r, w, p
    <2> QED
        BY <2>1, <2>2, <2>3 DEF Ends
<1>4. \A k \in 1..Len(c) : k < Len(c) => c[k].target = "internal"
    BY DEF Open
<1>5. \A i \in 1..p : ~Ends(s[i]) /\ s[i].why = "none"
    BY DEF NoEnd, Unmarked
<1> HIDE DEF w, p
<1>6. Unmarked(w)
    BY <1>1, <1>3, <1>5 DEF Unmarked
<1>7. ASSUME NEW i \in 1..Len(w), i < Len(w) PROVE ~Ends(w[i])
    <2>1. CASE i \in 1..p
        BY <1>1, <1>5, <2>1
    <2>2. ASSUME NEW k \in 1..Len(c), i = p + k PROVE ~Ends(w[i])
        <3>1. k < Len(c)
            BY <1>1, <1>2, <1>7, <2>2
        <3> QED
            BY <1>3, <1>4, <2>2, <3>1
    <2> QED
        BY <1>1, <2>1, <2>2
<1>8. Len(w) \in 1..Len(w) /\ w[Len(w)] = w[p + Len(c)] /\ w # <<>>
    BY <1>1, <1>2
<1> DEFINE ends == c[Len(c)].target = "env" /\ c[Len(c)].parse = "error" /\ b
<1>9. (Ends(w[Len(w)]) <=> ends) /\ (Ends(w[Len(w)]) => w[Len(w)].term)
    BY <1>2, <1>3, <1>8
<1> HIDE DEF ends
<1>10. \A i \in 1..Len(w) : i < Len(w) \/ i = Len(w)
    BY <1>1
<1>11. (ends => LastEnds(w)) /\ (~ends => NoEnd(w))
    BY <1>7, <1>8, <1>9, <1>10 DEF LastEnds, NoEnd
<1> QED
    BY <1>6, <1>11 DEF w, ends

(* The step of the environment ends the rollout if its outcome does. *)
LEMMA EnvEnds ==
    ASSUME NEW w \in Seq(StepRecord), NEW e \in StepRecord, NoEnd(w), Unmarked(w),
           e.kind = "env", e.why = "none"
    PROVE  /\ Unmarked(Append(w, e))
           /\ Ends(e) => LastEnds(Append(w, e))
           /\ ~Ends(e) => NoEnd(Append(w, e))
<1> DEFINE s == Append(w, e)
           n == Len(w)
<1>1. /\ n \in Nat /\ Len(s) = n + 1 /\ s[n + 1] = e /\ s # <<>>
      /\ \A i \in 1..n : s[i] = w[i]
    OBVIOUS
<1> HIDE DEF s
<1>2. \A i \in 1..Len(s) : i \in 1..n \/ i = n + 1
    BY <1>1
<1>3. Unmarked(s)
    BY <1>1, <1>2 DEF Unmarked
<1>4. \A i \in 1..Len(s) : i < Len(s) => ~Ends(s[i])
    BY <1>1, <1>2 DEF NoEnd
<1>5. Ends(e) => LastEnds(s)
    BY <1>1, <1>4 DEF LastEnds
<1>6. ~Ends(e) => NoEnd(s)
    BY <1>1, <1>2, <1>4 DEF NoEnd
<1> QED
    BY <1>3, <1>5, <1>6 DEF s

-----------------------------------------------------------------------------
(* What the agent saw *)

(* The latest user message of p is the observation o. *)
SaidLast(p, o) ==
    \E k \in 1..Len(p) :
        /\ p[k] = User(o)
        /\ \A l \in 1..Len(p) : l > k => p[l][1] # "user"

(* The source of an environment step is there, in its turn, and answered   *)
(* what the step says was seen.                                            *)
Sourced(s) ==
    \A e \in 1..Len(s) : s[e].kind = "env" =>
        LET k == s[e].source
        IN  /\ k \in 1..Len(s)
            /\ s[k].kind = "agent" /\ s[k].turn = s[e].turn
            /\ SaidLast(s[k].prompt, s[e].seen)

(* In a round everything the agent is asked ends with the observation the  *)
(* protocol will name.                                                     *)
Said(c, x, o) ==
    SaidLast(x, o) /\ \A k \in 1..Len(c) : SaidLast(c[k].prompt, o)

LEMMA SaidLastAppend ==
    ASSUME NEW p \in Seq(Message), NEW o, SaidLast(p, o),
           NEW m \in Message, m[1] # "user"
    PROVE  SaidLast(Append(p, m), o)
<1> DEFINE q == Append(p, m)
<1>1. /\ Len(q) = Len(p) + 1 /\ q[Len(p) + 1] = m /\ Len(p) \in Nat
      /\ \A l \in 1..Len(p) : q[l] = p[l]
    OBVIOUS
<1>2. PICK k \in 1..Len(p) : p[k] = User(o) /\ \A l \in 1..Len(p) : l > k => p[l][1] # "user"
    BY DEF SaidLast
<1> HIDE DEF q
<1>3. k \in 1..Len(q) /\ q[k] = User(o)
    BY <1>1, <1>2
<1>4. ASSUME NEW l \in 1..Len(q), l > k PROVE q[l][1] # "user"
    <2>1. l \in 1..Len(p) \/ l = Len(p) + 1
        BY <1>1
    <2> QED
        BY <1>1, <1>2, <1>4, <2>1
<1> QED
    BY <1>3, <1>4 DEF SaidLast, q

LEMMA SaidLastNow ==
    ASSUME NEW p \in Seq(Message), NEW o \in Int
    PROVE  SaidLast(Append(p, User(o)), o)
<1> DEFINE q == Append(p, User(o))
<1>1. Len(q) = Len(p) + 1 /\ q[Len(p) + 1] = User(o) /\ Len(p) \in Nat
    OBVIOUS
<1> HIDE DEF q
<1> QED
    BY <1>1 DEF SaidLast, q

(* No other message the loop writes is the user's. *)
LEMMA OtherMessages ==
    /\ \A p : Assistant(p)[1] # "user"
    /\ ToolResult[1] # "user" /\ FinalInstruction[1] # "user"
    /\ \A o : User(o)[1] = "user"
BY DEF Assistant, ToolResult, FinalInstruction, User

(* Sourced is what is asked of a rollout. *)
LEMMA SourcedSaw ==
    ASSUME NEW s \in Seq(StepRecord), Sourced(s)
    PROVE  SourceSaw(s)
<1> SUFFICES ASSUME NEW e \in DOMAIN s, s[e].kind = "env"
             PROVE  LET a == s[s[e].source]
                        said == SelectLastInSeq(a.prompt, LAMBDA m : m[1] = "user")
                    IN  /\ a.kind = "agent" /\ a.turn = s[e].turn
                        /\ a.prompt[said] = User(s[e].seen)
    BY DEF SourceSaw
<1>1. e \in 1..Len(s)
    OBVIOUS
<1> DEFINE a == s[s[e].source]
           p == a.prompt
           I == {i \in 1..Len(p) : p[i][1] = "user"}
<1>2. /\ s[e].source \in 1..Len(s)
      /\ a.kind = "agent" /\ a.turn = s[e].turn /\ SaidLast(p, s[e].seen)
    BY <1>1 DEF Sourced
<1>3. p \in Seq(Message)
    <2>1. a \in StepRecord
        BY <1>2
    <2> QED
        BY <2>1 DEF StepRecord
<1>4. SelectLastInSeq(p, LAMBDA m : m[1] = "user") = IF I # {} THEN Max(I) ELSE 0
    BY DEF SelectLastInSeq
<1> HIDE DEF p
<1>5. PICK k \in 1..Len(p) :
        p[k] = User(s[e].seen) /\ \A l \in 1..Len(p) : l > k => p[l][1] # "user"
    BY <1>2 DEF SaidLast
<1>6. k \in I /\ Len(p) \in Nat
    BY <1>3, <1>5, OtherMessages
<1>7. \A i \in I : k >= i
    BY <1>5, <1>6
<1>8. Max(I) = k
    <2>1. Max(I) \in I /\ \A i \in I : Max(I) >= i
        BY <1>6, <1>7 DEF Max
    <2>2. Max(I) >= k /\ k >= Max(I) /\ Max(I) \in Int
        BY <1>6, <1>7, <2>1
    <2> HIDE DEF I
    <2> QED
        BY <2>2
<1> QED
    BY <1>2, <1>4, <1>5, <1>6, <1>8 DEF p

(* The steps of an act bring no environment step. *)
LEMMA ActKeepsSources ==
    ASSUME NEW s \in Seq(StepRecord), NEW c \in Seq(Call), NEW n \in Nat,
           NEW b \in BOOLEAN, Sourced(s)
    PROVE  Sourced(Act(s, c, n, b))
<1> DEFINE w == Act(s, c, n, b)
           p == Len(s)
<1>1. /\ w \in Seq(StepRecord) /\ Len(w) = p + Len(c) /\ Len(w) \in Nat
      /\ \A k \in 1..p : w[k] = s[k]
      /\ \A k \in 1..Len(c) : w[p + k] = Recorded(c, n, b)[k]
      /\ \A i \in 1..Len(w) : i \in 1..p \/ \E k \in 1..Len(c) : i = p + k
    BY ActSteps
<1>2. p \in Nat /\ Len(c) \in Nat
    OBVIOUS
<1>3. ASSUME NEW k \in 1..Len(c) PROVE w[p + k].kind = "agent"
    <2> DEFINE r == Recorded(c, n, b)[k]
    <2>1. r.kind = "agent"
        BY RecordedEach
    <2>2. w[p + k] = r
        BY <1>1
    <2> HIDE DEF r, w, p
    <2> QED
        BY <2>1, <2>2
<1> HIDE DEF w, p
<1>4. ASSUME NEW e \in 1..Len(w), w[e].kind = "env"
      PROVE  /\ w[e].source \in 1..Len(w)
             /\ w[w[e].source].kind = "agent" /\ w[w[e].source].turn = w[e].turn
             /\ SaidLast(w[w[e].source].prompt, w[e].seen)
    <2>1. e \in 1..p
        BY <1>1, <1>3, <1>4
    <2>2. w[e] = s[e]
        BY <1>1, <2>1
    <2>3. /\ s[e].source \in 1..p
          /\ s[s[e].source].kind = "agent" /\ s[s[e].source].turn = s[e].turn
          /\ SaidLast(s[s[e].source].prompt, s[e].seen)
        BY <1>4, <2>1, <2>2 DEF Sourced, p
    <2> QED
        BY <1>1, <1>2, <2>2, <2>3
<1> QED
    BY <1>4 DEF Sourced, w

(* The step of the environment names the last call of the act. *)
LEMMA EnvKeepsSources ==
    ASSUME NEW w \in Seq(StepRecord), NEW e \in StepRecord, Sourced(w),
           Len(w) \in 1..Len(w), w[Len(w)].kind = "agent", w[Len(w)].turn = e.turn,
           e.source = Len(w), SaidLast(w[Len(w)].prompt, e.seen)
    PROVE  Sourced(Append(w, e))
<1> DEFINE s == Append(w, e)
           n == Len(w)
<1>1. /\ Len(s) = n + 1 /\ s[n + 1] = e /\ n \in Nat
      /\ \A i \in 1..n : s[i] = w[i]
    OBVIOUS
<1> HIDE DEF s
<1>2. ASSUME NEW i \in 1..Len(s), s[i].kind = "env"
      PROVE  /\ s[i].source \in 1..Len(s)
             /\ s[s[i].source].kind = "agent" /\ s[s[i].source].turn = s[i].turn
             /\ SaidLast(s[s[i].source].prompt, s[i].seen)
    <2>1. CASE i \in 1..n
        <3>1. /\ w[i].source \in 1..n
              /\ w[w[i].source].kind = "agent" /\ w[w[i].source].turn = w[i].turn
              /\ SaidLast(w[w[i].source].prompt, w[i].seen)
            BY <1>1, <1>2, <2>1 DEF Sourced
        <3> QED
            BY <1>1, <2>1, <3>1
    <2>2. CASE i = n + 1
        BY <1>1, <2>2
    <2> QED
        BY <1>1, <2>1, <2>2
<1> QED
    BY <1>2 DEF Sourced, s

LEMMA MarkKeepsSources ==
    ASSUME NEW s \in Seq(StepRecord), Sourced(s)
    PROVE  Sourced(Marked(s))
<1> DEFINE m == Marked(s)
<1>1. Len(m) = Len(s) /\ \A k \in 1..Len(s) :
         /\ m[k].kind = s[k].kind /\ m[k].turn = s[k].turn /\ m[k].prompt = s[k].prompt
         /\ m[k].source = s[k].source /\ m[k].seen = s[k].seen
    BY MarkedSteps
<1> HIDE DEF m
<1>2. ASSUME NEW e \in 1..Len(m), m[e].kind = "env"
      PROVE  /\ m[e].source \in 1..Len(m)
             /\ m[m[e].source].kind = "agent" /\ m[m[e].source].turn = m[e].turn
             /\ SaidLast(m[m[e].source].prompt, m[e].seen)
    BY <1>1, <1>2 DEF Sourced
<1> QED
    BY <1>2 DEF Sourced, m

(* A call of the model hides nothing of what was said. *)
LEMMA CallKeepsSaid ==
    ASSUME AgentTypeOK, NEW a \in Agents, NEW o, Said(calls[a], ctx[a], o),
           NEW target \in Targets, NEW parse \in Parses, ModelCall(a, target, parse)
    PROVE  Said(calls'[a], ctx'[a], o)
<1> DEFINE q == ReplyParse(target, parse)
           c == calls[a]
           m == Made(a, target, q)
           h == Heard(target, q)
           x == ctx[a]
           d == Append(c, m)
<1>1. /\ calls'[a] = d /\ ctx'[a] = x \o h
      /\ m \in Call /\ q \in Parses \cup {"none"}
    BY Called
<1>2. c \in Seq(Call) /\ x \in Seq(Message)
    BY AgentTyped
<1>3. SaidLast(x, o) /\ \A k \in 1..Len(c) : SaidLast(c[k].prompt, o)
    BY DEF Said
<1>4. SaidLast(m.prompt, o)
    <2>1. SaidLast(Append(x, FinalInstruction), o)
        <3> HIDE DEF x
        <3> QED
            BY <1>2, <1>3, Messages, OtherMessages, SaidLastAppend
    <2> QED
        BY <1>3, <2>1 DEF Made, Prompt
<1> HIDE DEF q, c, m, x, d
<1>5. SaidLast(x \o h, o)
    <2>1. Assistant(q) \in Message /\ ToolResult \in Message
        BY <1>1, Messages
    <2> DEFINE y == Append(x, Assistant(q))
    <2>2. y \in Seq(Message) /\ SaidLast(y, o)
        BY <1>2, <1>3, <2>1, OtherMessages, SaidLastAppend
    <2> HIDE DEF y
    <2>3. SaidLast(Append(y, ToolResult), o)
        BY <2>1, <2>2, OtherMessages, SaidLastAppend
    <2>4. ASSUME NEW u \in Message, NEW v \in Message
          PROVE  /\ x \o (<<u>> \o <<v>>) = Append(Append(x, u), v)
                 /\ x \o (<<u>> \o <<>>) = Append(x, u)
        BY <1>2
    <2>5. x \o h = y \/ x \o h = Append(y, ToolResult)
        BY <2>1, <2>4 DEF Heard, y
    <2> QED
        BY <2>2, <2>3, <2>5
<1>6. /\ Len(d) = Len(c) + 1 /\ Len(c) \in Nat
      /\ \A k \in 1..Len(c) : d[k] = c[k]
      /\ d[Len(c) + 1] = m
    BY <1>1, <1>2 DEF d
<1> HIDE DEF h
<1>7. ASSUME NEW k \in 1..Len(d) PROVE SaidLast(d[k].prompt, o)
    <2>1. k \in 1..Len(c) \/ k = Len(c) + 1
        BY <1>6
    <2> QED
        BY <1>3, <1>4, <1>6, <2>1
<1> QED
    BY <1>1, <1>5, <1>7 DEF Said

-----------------------------------------------------------------------------
(* What is paid *)

(* A step whose reward counts: the environment's, and that of an answer     *)
(* that does not parse.                                                      *)
Paid(x) == x.kind = "env" \/ (x.target = "env" /\ x.parse = "error")
PaidSteps(s) == {k \in 1..Len(s) : Paid(s[k])}

(* A step that is paid closes its turn, and one that is not paid and has a  *)
(* reward does not: another step of the turn follows.                        *)
Settled(s) ==
    \A k \in 1..Len(s) :
        /\ Paid(s[k]) => (k < Len(s) => s[k + 1].turn # s[k].turn)
        /\ ~Paid(s[k]) /\ s[k].reward # 0 => k < Len(s) /\ s[k + 1].turn = s[k].turn

(* No step of the turn has been paid. *)
Owing(s, n) == s # <<>> /\ s[Len(s)].turn = n => ~Paid(s[Len(s)])

Rewards(s) == [k \in DOMAIN s |-> s[k].reward]

LEMMA FiniteUpTo ==
    ASSUME NEW s \in Seq(StepRecord), NEW T, T \subseteq 1..Len(s)
    PROVE  IsFiniteSet(T)
<1>1. Len(s) \in Int /\ 1 \in Int
    OBVIOUS
<1>2. IsFiniteSet(1..Len(s))
    BY <1>1, FS_Interval
<1> QED
    BY <1>2, FS_Subset

LEMMA RewardsOf ==
    ASSUME NEW s \in Seq(StepRecord)
    PROVE  /\ TotalReward(s) = SumFunctionOnSet(Rewards(s), PaidSteps(s))
           /\ \A k \in 1..Len(s) : Rewards(s)[k] = s[k].reward /\ s[k].reward \in Int
           /\ TotalReward(s) \in Int
           /\ IsFiniteSet(PaidSteps(s)) /\ PaidSteps(s) \subseteq 1..Len(s)
<1>1. DOMAIN s = 1..Len(s) /\ Len(s) \in Nat
    OBVIOUS
<1>2. \A k \in 1..Len(s) : Rewards(s)[k] = s[k].reward /\ s[k].reward \in Int
    <2> TAKE k \in 1..Len(s)
    <2>1. s[k] \in StepRecord
        OBVIOUS
    <2> QED
        BY <1>1, <2>1 DEF Rewards, StepRecord
<1>3. IsFiniteSet(PaidSteps(s)) /\ PaidSteps(s) \subseteq 1..Len(s)
    BY FiniteUpTo DEF PaidSteps
<1>4. TotalReward(s) = SumFunctionOnSet(Rewards(s), PaidSteps(s))
    BY <1>1 DEF TotalReward, RewardOf, Rewards, PaidSteps, Paid
<1>5. \A k \in PaidSteps(s) : Rewards(s)[k] \in Int
    BY <1>2, <1>3
<1>6. TotalReward(s) \in Int
    BY <1>3, <1>4, <1>5, SumInt
<1> QED
    BY <1>2, <1>3, <1>4, <1>6

(* Where turns are settled, the samples carry what was paid. *)
LEMMA SettledSamples ==
    ASSUME NEW s \in Seq(StepRecord), Settled(s)
    PROVE  SampleReward(s) = TotalReward(s)
<1>1. DOMAIN s = 1..Len(s) /\ Len(s) \in Nat
    OBVIOUS
<1>2. \A i \in 1..Len(s), j \in 1..Len(s) : i < j /\ SameTurn(s, i, j) => s[i + 1].turn = s[i].turn
    BY DEF SameTurn
<1>3. ASSUME NEW k \in 1..Len(s), Paid(s[k]) PROVE k \in FinalSteps(s)
    <2>1. \A j \in DOMAIN s :
            /\ j > k => ~SameTurn(s, k, j)
            /\ j < k /\ s[j].kind = "env" => ~SameTurn(s, j, k)
        <3> TAKE j \in DOMAIN s
        <3>1. ASSUME j > k, SameTurn(s, k, j) PROVE FALSE
            BY <1>1, <1>2, <1>3, <3>1 DEF Settled
        <3>2. ASSUME j < k, s[j].kind = "env", SameTurn(s, j, k) PROVE FALSE
            BY <1>1, <1>2, <3>2 DEF Settled, Paid
        <3> QED
            BY <3>1, <3>2
    <2> QED
        BY <1>1, <2>1 DEF FinalSteps
<1>4. ASSUME NEW k \in FinalSteps(s), ~Paid(s[k]) PROVE s[k].reward = 0
    <2>1. /\ k \in 1..Len(s) /\ s[k].kind # "env"
          /\ \A j \in 1..Len(s) : j > k => ~SameTurn(s, k, j)
        BY <1>1, <1>4 DEF FinalSteps, Paid
    <2>2. ASSUME s[k].reward # 0 PROVE FALSE
        <3>1. k < Len(s) /\ s[k + 1].turn = s[k].turn
            BY <1>4, <2>1, <2>2 DEF Settled
        <3>2. \A i \in k..k + 1 : i = k \/ i = k + 1
            BY <2>1
        <3>3. SameTurn(s, k, k + 1)
            BY <3>1, <3>2 DEF SameTurn
        <3>4. k + 1 \in 1..Len(s) /\ k + 1 > k
            BY <1>1, <2>1, <3>1
        <3> QED
            BY <2>1, <3>3, <3>4
    <2> QED
        BY <2>2
<1>5. FinalSteps(s) \subseteq 1..Len(s) /\ IsFiniteSet(FinalSteps(s))
    <2>1. FinalSteps(s) \subseteq 1..Len(s)
        BY <1>1 DEF FinalSteps
    <2> QED
        BY <2>1, FiniteUpTo
<1>6. PaidSteps(s) \subseteq FinalSteps(s)
    BY <1>3 DEF PaidSteps
<1>7. \A k \in FinalSteps(s) : Rewards(s)[k] \in Int
    BY <1>5, RewardsOf
<1>8. \A k \in FinalSteps(s) \ PaidSteps(s) : Rewards(s)[k] = 0
    <2> TAKE k \in FinalSteps(s) \ PaidSteps(s)
    <2>1. k \in 1..Len(s) /\ ~Paid(s[k])
        BY <1>5 DEF PaidSteps
    <2> QED
        BY <1>4, <2>1, RewardsOf
<1>9. SumFunctionOnSet(Rewards(s), FinalSteps(s)) = SumFunctionOnSet(Rewards(s), PaidSteps(s))
    BY <1>5, <1>6, <1>7, <1>8, SumNonZero
<1>10. SampleReward(s) = SumFunctionOnSet(Rewards(s), FinalSteps(s))
    BY DEF SampleReward, RewardOf, Rewards
<1> QED
    BY <1>9, <1>10, RewardsOf

(* What a rollout gains when of the steps it grows by only the last is paid. *)
LEMMA TotalGrows ==
    ASSUME NEW s \in Seq(StepRecord), NEW u \in Seq(StepRecord), Len(s) < Len(u),
           \A i \in 1..Len(s) : u[i] = s[i],
           \A i \in 1..Len(u) : i > Len(s) /\ i < Len(u) => ~Paid(u[i])
    PROVE  TotalReward(u) = TotalReward(s) + (IF Paid(u[Len(u)]) THEN u[Len(u)].reward ELSE 0)
<1> DEFINE n == Len(u)
           f == Rewards(u)
<1>1. n \in 1..n /\ n \in Nat /\ Len(s) \in Nat /\ ~(n <= Len(s))
    OBVIOUS
<1>2. PaidSteps(u) = PaidSteps(s) \cup (IF Paid(u[n]) THEN {n} ELSE {})
    <2>1. \A i \in 1..n : i \in 1..Len(s) \/ i = n \/ (i > Len(s) /\ i < n)
        BY <1>1
    <2>2. \A i \in 1..Len(s) : i \in 1..n
        BY <1>1
    <2> QED
        BY <1>1, <2>1, <2>2 DEF PaidSteps
<1>3. n \notin PaidSteps(s)
    BY <1>1 DEF PaidSteps
<1>4. /\ TotalReward(u) = SumFunctionOnSet(f, PaidSteps(u))
      /\ IsFiniteSet(PaidSteps(u)) /\ \A k \in PaidSteps(u) : f[k] \in Int
      /\ f[n] = u[n].reward
    BY <1>1, RewardsOf
<1>5. SumFunctionOnSet(f, PaidSteps(s)) = TotalReward(s)
    <2>1. /\ TotalReward(s) = SumFunctionOnSet(Rewards(s), PaidSteps(s))
          /\ IsFiniteSet(PaidSteps(s)) /\ PaidSteps(s) \subseteq 1..Len(s)
          /\ \A k \in 1..Len(s) : Rewards(s)[k] = s[k].reward
        BY RewardsOf
    <2>2. \A k \in 1..Len(s) : k \in 1..n /\ f[k] = u[k].reward /\ u[k] = s[k]
        BY <1>1, RewardsOf
    <2> HIDE DEF f
    <2>3. \A k \in PaidSteps(s) : f[k] = Rewards(s)[k]
        BY <2>1, <2>2
    <2> QED
        BY <2>1, <2>3, SumSame
<1> HIDE DEF f
<1>6. CASE Paid(u[n])
    <2>1. n \in PaidSteps(u) /\ PaidSteps(u) \ {n} = PaidSteps(s)
        BY <1>2, <1>3, <1>6
    <2>2. SumFunctionOnSet(f, PaidSteps(u)) = f[n] + SumFunctionOnSet(f, PaidSteps(u) \ {n})
        BY <1>4, <2>1, SumRemove
    <2>3. TotalReward(s) \in Int /\ f[n] \in Int
        BY <1>4, <2>1, RewardsOf
    <2> QED
        <3>1. TotalReward(u) = u[n].reward + TotalReward(s) /\ u[n].reward \in Int
            BY <1>4, <1>5, <2>1, <2>2, <2>3, Zenon
        <3>2. \A i, j \in Int : i + j = j + i
            OBVIOUS
        <3>3. TotalReward(u) = TotalReward(s) + u[n].reward
            BY <2>3, <3>1, <3>2, Zenon
        <3> QED
            BY <1>6, <3>3, Zenon
<1>7. CASE ~Paid(u[n])
    BY <1>2, <1>4, <1>5, <1>7, RewardsOf
<1> QED
    BY <1>6, <1>7

(* What the steps of an act are worth. *)
LEMMA RecordedPays ==
    ASSUME NEW c \in Seq(Call), NEW n \in Nat, NEW b \in BOOLEAN, NEW k \in 1..Len(c)
    PROVE  LET r == Recorded(c, n, b)[k]
           IN  /\ r.turn = n /\ r.reward = AgentReward(c[k].target, c[k].parse)
               /\ Paid(r) <=> c[k].target = "env" /\ c[k].parse = "error"
<1>1. DOMAIN c = 1..Len(c)
    OBVIOUS
<1> QED
    BY <1>1 DEF Recorded, AgentStep, Paid

(* After an act that returned, only an answer that did not parse is paid. *)
LEMMA ActPays ==
    ASSUME NEW s \in Seq(StepRecord), NEW c \in Seq(Call), NEW n \in Nat,
           NEW b \in BOOLEAN, NEW x, Open(s, c, x, n), c # <<>>, Replies(c),
           c[Len(c)].target # "internal",
           Settled(s), Owing(s, n)
    PROVE  LET w == Act(s, c, n, b)
               bad == c[Len(c)].target = "env" /\ c[Len(c)].parse = "error"
           IN  /\ Settled(w)
               /\ TotalReward(w) = TotalReward(s) + (IF bad THEN ParserReward("error") ELSE 0)
               /\ ~bad => Owing(w, n)
<1> DEFINE w == Act(s, c, n, b)
           p == Len(s)
           m == Len(c)
<1>1. /\ w \in Seq(StepRecord) /\ Len(w) = p + m /\ Len(w) \in Nat
      /\ \A k \in 1..p : w[k] = s[k]
      /\ \A k \in 1..m : w[p + k] = Recorded(c, n, b)[k]
      /\ \A i \in 1..Len(w) : i \in 1..p \/ \E k \in 1..m : i = p + k
    BY ActSteps
<1>2. p \in Nat /\ m \in Nat /\ m \in 1..m /\ p < p + m
    OBVIOUS
<1> DEFINE bad == c[m].target = "env" /\ c[m].parse = "error"
<1>3. \A k \in 1..m :
        /\ w[p + k].turn = n
        /\ w[p + k].reward = AgentReward(c[k].target, c[k].parse)
        /\ Paid(w[p + k]) <=> c[k].target = "env" /\ c[k].parse = "error"
    <2> TAKE k \in 1..m
    <2> DEFINE r == Recorded(c, n, b)[k]
    <2>1. /\ r.turn = n /\ r.reward = AgentReward(c[k].target, c[k].parse)
          /\ Paid(r) <=> c[k].target = "env" /\ c[k].parse = "error"
        BY RecordedPays
    <2>2. w[p + k] = r
        BY <1>1
    <2> HIDE DEF r, w, p
    <2> QED
        BY <2>1, <2>2
<1>4. \A k \in 1..m : k < m => c[k].target = "internal"
    BY DEF Open
<1>5. c[m].target \in {"env", "external"}
    <2>1. c[m] \in Call
        BY <1>2
    <2> QED
        BY <2>1 DEF Call, Targets
<1>6. w[Len(w)].reward = (IF bad THEN ParserReward("error") ELSE 0) /\ (Paid(w[Len(w)]) <=> bad)
    <2>1. w[Len(w)].reward = AgentReward(c[m].target, c[m].parse) /\ (Paid(w[Len(w)]) <=> bad)
        BY <1>1, <1>2, <1>3
    <2>2. c[m].target = "external" => c[m].parse = "none"
        BY <1>2 DEF Replies
    <2>3. c[m].target = "env" => c[m].parse \in {"action", "error"}
        BY <1>2 DEF Replies, Parses
    <2> HIDE DEF w
    <2> QED
        BY <1>5, <2>1, <2>2, <2>3 DEF AgentReward, MovesToEnv, ParserReward
<1> HIDE DEF w, p, bad
<1>7. \A i \in 1..Len(w) : i > p /\ i < Len(w) => ~Paid(w[i])
    <2> TAKE i \in 1..Len(w)
    <2> HAVE i > p /\ i < Len(w)
    <2>1. PICK k \in 1..m : i = p + k
        BY <1>1, <1>2
    <2>2. k < m
        BY <1>1, <1>2, <2>1
    <2> QED
        BY <1>3, <1>4, <2>1, <2>2
<1>8. TotalReward(w) = TotalReward(s) + (IF bad THEN ParserReward("error") ELSE 0)
    <2>1. TotalReward(w) = TotalReward(s) + (IF Paid(w[Len(w)]) THEN w[Len(w)].reward ELSE 0)
        BY <1>1, <1>2, <1>7, TotalGrows DEF p
    <2> QED
        BY <1>6, <2>1
<1>9. Settled(w)
    <2> SUFFICES ASSUME NEW k \in 1..Len(w)
                 PROVE  /\ Paid(w[k]) => (k < Len(w) => w[k + 1].turn # w[k].turn)
                        /\ ~Paid(w[k]) /\ w[k].reward # 0 =>
                             k < Len(w) /\ w[k + 1].turn = w[k].turn
        BY DEF Settled
    <2>1. CASE k \in 1..p /\ k < p
        <3>1. k + 1 \in 1..p
            BY <1>2, <2>1
        <3> QED
            BY <1>1, <1>2, <2>1, <3>1 DEF Settled, p
    <2>2. CASE k = p
        <3>1. p \in 1..p /\ s # <<>> /\ 1 \in 1..m
            BY <1>2, <2>2 DEF p
        <3>2. w[p] = s[p] /\ w[p + 1].turn = n /\ p < Len(w)
            BY <1>1, <1>2, <1>3, <3>1
        <3>3. ~Paid(s[p]) => s[p].reward = 0
            BY <3>1 DEF Settled, p
        <3>4. s[p].turn = n => ~Paid(s[p])
            BY <3>1 DEF Owing, p
        <3> QED
            BY <2>2, <3>2, <3>3, <3>4
    <2>3. ASSUME NEW l \in 1..m, k = p + l, l < m
          PROVE  ~Paid(w[k]) /\ k < Len(w) /\ w[k + 1].turn = w[k].turn
        <3>1. l + 1 \in 1..m /\ k + 1 = p + (l + 1) /\ k < Len(w)
            BY <1>1, <1>2, <2>3
        <3>2. c[l].target = "internal"
            BY <1>4, <2>3
        <3> QED
            BY <1>3, <2>3, <3>1, <3>2
    <2>4. CASE k = Len(w)
        <3>1. ~(k < Len(w))
            BY <1>1, <2>4
        <3> QED
            BY <1>6, <2>4, <3>1
    <2>5. (k \in 1..p /\ k < p) \/ k = p \/ k = Len(w) \/ \E l \in 1..m : k = p + l /\ l < m
        <3>1. CASE k \in 1..p
            BY <1>2, <3>1
        <3>0. Len(w) = p + m
            BY <1>1
        <3>2. ASSUME NEW l \in 1..m, k = p + l PROVE l < m \/ k = Len(w)
            BY <1>2, <3>0, <3>2
        <3> QED
            BY <1>1, <3>1, <3>2
    <2> QED
        BY <2>1, <2>2, <2>3, <2>4, <2>5
<1>10. ~bad => Owing(w, n)
    BY <1>6 DEF Owing
<1> QED
    BY <1>8, <1>9, <1>10 DEF w, bad

(* The environment's step is paid, and closes the turn. *)
LEMMA EnvPays ==
    ASSUME NEW w \in Seq(StepRecord), NEW e \in StepRecord, e.kind = "env",
           Settled(w), Len(w) \in 1..Len(w), w[Len(w)].turn = e.turn, Owing(w, e.turn)
    PROVE  /\ Settled(Append(w, e))
           /\ TotalReward(Append(w, e)) = TotalReward(w) + e.reward
<1> DEFINE s == Append(w, e)
           n == Len(w)
<1>1. /\ n \in Nat /\ Len(s) = n + 1 /\ s[n + 1] = e /\ s \in Seq(StepRecord)
      /\ \A i \in 1..n : s[i] = w[i]
    OBVIOUS
<1>2. Paid(e) /\ ~Paid(w[n])
    BY DEF Paid, Owing
<1> HIDE DEF s
<1>3. TotalReward(s) = TotalReward(w) + e.reward
    <2>1. \A i \in 1..Len(s) : ~(i > n /\ i < Len(s))
        BY <1>1
    <2>2. n < Len(s) /\ s[Len(s)] = e
        BY <1>1
    <2> QED
        BY <1>1, <1>2, <2>1, <2>2, TotalGrows
<1>4. Settled(s)
    <2> SUFFICES ASSUME NEW k \in 1..Len(s)
                 PROVE  /\ Paid(s[k]) => (k < Len(s) => s[k + 1].turn # s[k].turn)
                        /\ ~Paid(s[k]) /\ s[k].reward # 0 =>
                             k < Len(s) /\ s[k + 1].turn = s[k].turn
        BY DEF Settled
    <2>1. CASE k \in 1..n /\ k < n
        <3>1. k + 1 \in 1..n /\ k < Len(s)
            BY <1>1, <2>1
        <3> QED
            BY <1>1, <2>1, <3>1 DEF Settled
    <2>2. CASE k = n
        <3>1. s[n] = w[n] /\ n < Len(s) /\ s[n + 1].turn = w[n].turn
            BY <1>1
        <3> QED
            BY <1>2, <2>2, <3>1
    <2>3. CASE k = n + 1
        BY <1>1, <1>2, <2>3
    <2> QED
        BY <1>1, <2>1, <2>2, <2>3
<1> QED
    BY <1>3, <1>4 DEF s

(* The mark changes no reward. *)
LEMMA MarkKeepsPay ==
    ASSUME NEW s \in Seq(StepRecord)
    PROVE  /\ TotalReward(Marked(s)) = TotalReward(s)
           /\ Settled(s) => Settled(Marked(s))
<1> DEFINE m == Marked(s)
<1>1. m \in Seq(StepRecord) /\ Len(m) = Len(s) /\ Len(s) \in Nat
    BY MarkedSteps
<1>2. \A k \in 1..Len(s) :
        /\ m[k].turn = s[k].turn /\ m[k].reward = s[k].reward /\ (Paid(m[k]) <=> Paid(s[k]))
    BY MarkedSteps DEF Paid
<1> HIDE DEF m
<1>3. PaidSteps(m) = PaidSteps(s)
    BY <1>1, <1>2 DEF PaidSteps
<1>4. \A k \in PaidSteps(s) : Rewards(m)[k] = Rewards(s)[k]
    <2> TAKE k \in PaidSteps(s)
    <2>1. k \in 1..Len(s) /\ k \in 1..Len(m)
        BY <1>1 DEF PaidSteps
    <2> QED
        BY <1>1, <1>2, <2>1, RewardsOf
<1>5. TotalReward(m) = TotalReward(s)
    BY <1>1, <1>3, <1>4, RewardsOf, SumSame
<1>6. Settled(s) => Settled(m)
    <2> SUFFICES ASSUME Settled(s), NEW k \in 1..Len(s)
                 PROVE  /\ Paid(m[k]) => (k < Len(s) => m[k + 1].turn # m[k].turn)
                        /\ ~Paid(m[k]) /\ m[k].reward # 0 =>
                             k < Len(s) /\ m[k + 1].turn = m[k].turn
        BY <1>1 DEF Settled
    <2>1. k < Len(s) => k + 1 \in 1..Len(s)
        BY <1>1
    <2> QED
        BY <1>2, <2>1 DEF Settled
<1> QED
    BY <1>5, <1>6 DEF m

LEMMA NothingPaid == TotalReward(<<>>) = 0 /\ Settled(<<>>) /\ \A n : Owing(<<>>, n)
<1> DEFINE s == <<>>
<1>1. PaidSteps(s) = {} /\ s \in Seq(StepRecord)
    BY DEF PaidSteps
<1>2. Settled(s) /\ \A n : Owing(s, n)
    BY DEF Settled, Owing
<1> HIDE DEF s
<1>3. TotalReward(s) = 0
    BY <1>1, RewardsOf, SumEmpty
<1> QED
    BY <1>2, <1>3 DEF s

(* Nothing of a new turn is paid. *)
LEMMA FreshOwes ==
    ASSUME NEW s \in Seq(StepRecord), NEW n \in Nat, \A i \in 1..Len(s) : s[i].turn < n
    PROVE  Owing(s, n)
<1>1. s # <<>> => Len(s) \in 1..Len(s) /\ s[Len(s)] \in StepRecord
    OBVIOUS
<1>2. s # <<>> => s[Len(s)].turn \in Nat /\ s[Len(s)].turn < n
    BY <1>1 DEF StepRecord
<1> QED
    BY <1>2 DEF Owing
=============================================================================
