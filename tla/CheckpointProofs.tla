-------------------------- MODULE CheckpointProofs --------------------------
(***************************************************************************)
(* Checkpoint's safety properties, for every interval, limit, number of    *)
(* steps and number of processes one after another.                        *)
(***************************************************************************)
EXTENDS Checkpoint, FiniteSetTheorems, TLAPS

(* What the assumptions say, in the form the steps use. *)
LEMMA Constants ==
    /\ MaxStep \in Nat /\ Steps = 0 .. MaxStep /\ Steps \subseteq Nat
    /\ MaxStarts \in Nat \ {0} /\ MaxToKeep \in Nat
    /\ NoStep = -1 /\ NoStep \notin Steps
    /\ TornPointer = -2 /\ TornPointer \notin Steps
    /\ 0 \in Steps
BY CheckpointAssumption DEF Steps, NoStep, TornPointer

(* The two contents a file can have without a save. *)
LEMMA EmptyFiles ==
    /\ NoFile \in File /\ NoFile.is = "none"
    /\ TornFile \in File /\ TornFile.is = "torn"
BY DEF NoFile, TornFile, File, State

-----------------------------------------------------------------------------
(* What pruning leaves *)

(* A set of steps that is not empty has a highest member. *)
LEMMA HighestExists ==
    ASSUME NEW S \in SUBSET Steps, S # {}
    PROVE  Highest(S) \in S /\ \A t \in S : t <= Highest(S)
<1> USE Constants
<1> DEFINE T == {MaxStep - d : d \in S}
<1>1. T \subseteq Nat /\ T # {}
    OBVIOUS
<1>2. PICK x \in T : \A y \in T : ~ (<<y, x>> \in OpToRel(<, Nat))
    BY <1>1, NatLessThanWellFounded, WFMin, Zenon
<1>3. \A y \in T : ~ (y < x)
    BY <1>1, <1>2 DEF OpToRel
<1>4. PICK h \in S : x = MaxStep - h
    OBVIOUS
<1>5. \A t \in S : t <= h
    <2> TAKE t \in S
    <2>1. MaxStep - t \in T
        OBVIOUS
    <2>2. ~ (MaxStep - t < MaxStep - h)
        BY <1>3, <1>4, <2>1
    <2> HIDE DEF T
    <2>3. t \in Int /\ h \in Int
        OBVIOUS
    <2> QED
        BY <2>2, <2>3
<1> QED
    BY <1>5 DEF Highest

(* The directories are finitely many. *)
LEMMA FiniteDirs == TypeOK => IsFiniteSet(dirs)
<1>1. IsFiniteSet(Steps)
    BY Constants, FS_Interval
<1> QED
    BY <1>1, FS_Subset DEF TypeOK

(* The highest directory is never a victim. *)
LEMMA HighestIsNoVictim ==
    ASSUME TypeOK, NEW h \in dirs, \A t \in dirs : t <= h
    PROVE  h \notin Victims
<1> USE Constants
<1> DEFINE n == Cardinality(dirs)
<1>1. n \in Nat /\ Cardinality(dirs \ {h}) = n - 1
    BY FiniteDirs, FS_CardinalityType, FS_RemoveElement
<1>2. Cardinality(dirs \ {h}) \in Nat
    BY FiniteDirs, FS_CardinalityType, FS_RemoveElement
<1>3. {t \in dirs : t < h} = dirs \ {h}
    <2>1. \A t \in dirs : t \in Int /\ t <= h
        BY DEF TypeOK
    <2>2. \A t \in dirs : t < h <=> t # h
        BY <2>1
    <2> QED
        BY <2>2
<1>4. MaxToKeep # 0 => Excess <= n - 1
    BY <1>1, <1>2 DEF Excess
<1>5. MaxToKeep # 0 => ~ (n - 1 < Excess)
    BY <1>1, <1>4 DEF Excess
<1> QED
    BY <1>1, <1>3, <1>5 DEF Victims

(* Pruning keeps the types, loses no directory but victims, and leaves the *)
(* files of the others alone.                                              *)
LEMMA Pruned ==
    ASSUME TypeOK, RemoveVictims
    PROVE  /\ dirs' \in SUBSET Steps /\ dirs' \subseteq dirs
           /\ file' \in [Steps -> [Files -> File]]
           /\ \A d \in Steps \ dirs' : \A f \in Files : file'[d][f] = NoFile
           /\ \A d \in dirs \ Victims : d \in dirs' /\ file'[d] = file[d]
           /\ \A d \in Steps : \A f \in Files : file'[d][f] \in {NoFile, file[d][f]}
<1> USE Constants, EmptyFiles
<1>1. Victims \subseteq dirs
    BY DEF Victims
<1>2. PICK left \in SUBSET Victims :
         /\ dirs' = dirs \ (Victims \ left)
         /\ \E kept \in [left -> SUBSET Files] :
              file' = [d \in Steps |->
                         IF d \in Victims
                         THEN [f \in Files |-> IF d \in left /\ f \in kept[d]
                                               THEN file[d][f] ELSE NoFile]
                         ELSE file[d]]
    BY DEF RemoveVictims
<1>3. PICK kept \in [left -> SUBSET Files] :
         file' = [d \in Steps |->
                    IF d \in Victims
                    THEN [f \in Files |-> IF d \in left /\ f \in kept[d]
                                          THEN file[d][f] ELSE NoFile]
                    ELSE file[d]]
    BY <1>2
<1>4. \A d \in Steps : \A f \in Files :
        /\ file'[d][f] \in {NoFile, file[d][f]}
        /\ d \notin left /\ d \in Victims => file'[d][f] = NoFile
    BY <1>3
<1>5. file' \in [Steps -> [Files -> File]]
    BY <1>3 DEF TypeOK
<1>6. \A d \in dirs \ Victims : d \in dirs' /\ file'[d] = file[d]
    BY <1>2, <1>3 DEF TypeOK
<1>7. \A d \in Steps \ dirs' : \A f \in Files : file'[d][f] = NoFile
    BY <1>1, <1>2, <1>4 DEF TypeOK
<1> QED
    BY <1>1, <1>2, <1>4, <1>5, <1>6, <1>7 DEF TypeOK

-----------------------------------------------------------------------------
(* Types *)

(* Each step keeps every variable in its type. *)
LEMMA TypeStep ==
    ASSUME TypeOK, FilesInv, [Next]_vars
    PROVE  TypeOK'
<1> USE Constants, EmptyFiles DEF TypeOK
<1>1. CASE TrainStep
    BY <1>1 DEF TrainStep, State, diskVars
<1>2. CASE SaveCheckpoint
    BY <1>2 DEF SaveCheckpoint, diskVars
<1>3. CASE MakeDir
    <2>1. dirs' \in SUBSET Steps /\ Steps \ dirs' \subseteq Steps \ dirs
        BY <1>3 DEF MakeDir
    <2> QED
        BY <1>3, <2>1 DEF MakeDir, Files
<1>4. CASE WriteFile
    <2> DEFINE content == [is |-> "whole", of |-> state]
    <2>1. content \in File
        BY DEF File
    <2> HIDE DEF content
    <2>2. step \in dirs
        BY <1>4 DEF WriteFile, FilesInv
    <2>3. file' = [file EXCEPT ![step][pc] = content] /\ pc \in Files
        BY <1>4 DEF WriteFile, Write, content
    <2>4. pc' \in {"optimizer", "meta", "pointer"}
        BY <1>4 DEF WriteFile, Files
    <2> QED
        BY <1>4, <2>1, <2>2, <2>3, <2>4 DEF WriteFile, Files
<1>5. CASE WriteLatestPointer
    BY <1>5 DEF WriteLatestPointer
<1>6. CASE PruneOldCheckpoints
    BY <1>6, Pruned DEF PruneOldCheckpoints
<1>7. CASE GoDown
    <2>1. CASE UNCHANGED diskVars
        BY <1>7, <2>1 DEF GoDown, diskVars
    <2>2. CASE pc \in Files /\ Write(pc, TornFile) /\ UNCHANGED <<dirs, pointer>>
        <3>1. step \in dirs
            BY <2>2 DEF FilesInv
        <3> QED
            BY <1>7, <2>2, <3>1 DEF GoDown, Write
    <2>3. CASE pc = "pointer" /\ pointer' = TornPointer /\ UNCHANGED <<dirs, file>>
        BY <1>7, <2>3 DEF GoDown
    <2>4. CASE pc = "prune" /\ RemoveVictims /\ UNCHANGED pointer
        BY <1>7, <2>4, Pruned DEF GoDown
    <2> QED
        BY <1>7, <2>1, <2>2, <2>3, <2>4 DEF GoDown
<1>8. CASE StartOver
    BY <1>8 DEF StartOver, Start, State, diskVars
<1>9. ASSUME NEW d, Load(d) PROVE TypeOK'
    <2>1. d \in Steps
        BY <1>9 DEF Load, Loadable
    <2>2. file[d]["model"] \in File
        BY <2>1 DEF Files
    <2>3. file[d]["model"].of.n \in Nat
        BY <2>2 DEF File, State
    <2> QED
        BY <1>9, <2>1, <2>3 DEF Load, LoadedStep, Start, State, diskVars
<1>10. CASE UNCHANGED vars
    BY <1>10 DEF vars, diskVars
<1> QED
    BY <1>1, <1>2, <1>3, <1>4, <1>5, <1>6, <1>7, <1>8, <1>9, <1>10
    DEF Next, ResumeStep, ResumeLatest

(* Each step of a save has written what it says. *)
LEMMA FilesStep ==
    ASSUME TypeOK, FilesInv, [Next]_vars
    PROVE  FilesInv'
<1> USE Constants DEF FilesInv, TypeOK, Files
<1>1. CASE TrainStep \/ SaveCheckpoint
    BY <1>1 DEF TrainStep, SaveCheckpoint
<1>2. CASE MakeDir
    BY <1>2 DEF MakeDir
<1>3. CASE WriteFile
    <2> DEFINE content == [is |-> "whole", of |-> state]
    <2>1. file' = [file EXCEPT ![step][pc] = content] /\ pc \in Files
        BY <1>3 DEF WriteFile, Write
    <2>2. file'[step][pc] = content
        BY <2>1
    <2>3. \A f \in Files \ {pc} : file'[step][f] = file[step][f]
        BY <2>1
    <2> QED
        BY <1>3, <2>2, <2>3 DEF WriteFile
<1>4. CASE WriteLatestPointer
    BY <1>4 DEF WriteLatestPointer
<1>5. CASE PruneOldCheckpoints
    BY <1>5 DEF PruneOldCheckpoints
<1>6. CASE GoDown
    BY <1>6 DEF GoDown
<1>7. CASE StartOver \/ ResumeStep \/ ResumeLatest
    BY <1>7 DEF StartOver, ResumeStep, ResumeLatest, Load, Start
<1>8. CASE UNCHANGED vars
    BY <1>8 DEF vars, diskVars
<1> QED
    BY <1>1, <1>2, <1>3, <1>4, <1>5, <1>6, <1>7, <1>8 DEF Next

(* The initial state is well typed. *)
LEMMA InitType == Init => TypeOK /\ FilesInv
BY Constants, EmptyFiles DEF Init, TypeOK, FilesInv, Files, State

(* Every variable keeps its type. *)
THEOREM TypeCorrect == Spec => []TypeOK
<1>1. TypeOK /\ FilesInv /\ [Next]_vars => TypeOK' /\ FilesInv'
    BY TypeStep, FilesStep
<1> QED
    BY <1>1, InitType, PTL DEF Spec

-----------------------------------------------------------------------------
(* The counter *)

(* The counter never runs ahead, in the process or on disk. *)
LEMMA CounterStep ==
    ASSUME TypeOK, CounterInv, [Next]_vars
    PROVE  CounterInv'
<1> USE Constants DEF CounterInv, CounterNeverAhead, TypeOK
<1>1. state.n \in Nat
    BY DEF State
<1>2. CASE TrainStep
    BY <1>1, <1>2 DEF TrainStep, diskVars
<1>3. CASE SaveCheckpoint \/ MakeDir \/ WriteLatestPointer
    BY <1>3 DEF SaveCheckpoint, MakeDir, WriteLatestPointer, diskVars
<1>4. CASE WriteFile
    <2> DEFINE content == [is |-> "whole", of |-> state]
    <2>1. file' = [file EXCEPT ![step][pc] = content] /\ UNCHANGED <<step, state>>
        BY <1>4 DEF WriteFile, Write
    <2>2. content.of.n = state.n
        OBVIOUS
    <2> HIDE DEF content
    <2>3. \A d \in Steps : file'[d]["model"] \in {file[d]["model"]} \cup
                                  (IF d = step THEN {content} ELSE {})
        BY <2>1 DEF Files
    <2> QED
        BY <2>1, <2>2, <2>3
<1>5. CASE PruneOldCheckpoints \/ (GoDown /\ RemoveVictims)
    <2>1. RemoveVictims /\ UNCHANGED <<step, state>>
        BY <1>5 DEF PruneOldCheckpoints, GoDown
    <2>2. \A d \in Steps : file'[d]["model"] \in {NoFile, file[d]["model"]}
        BY <2>1, Pruned DEF Files
    <2> QED
        BY <2>1, <2>2, EmptyFiles
<1>6. CASE GoDown /\ ~ RemoveVictims
    <2>1. UNCHANGED <<step, state>>
        BY <1>6 DEF GoDown
    <2>2. \A d \in Steps : file'[d]["model"] \in {TornFile, file[d]["model"]}
        BY <1>6 DEF GoDown, Write, diskVars, Files
    <2> QED
        BY <2>1, <2>2, EmptyFiles
<1>7. CASE StartOver
    BY <1>7 DEF StartOver, Start, diskVars
<1>8. ASSUME NEW d, Load(d) PROVE CounterInv'
    <2>1. d \in Steps /\ file[d]["model"].is = "whole"
        BY <1>8 DEF Load, Loadable
    <2>2. file[d]["model"] \in File
        BY <2>1 DEF Files
    <2>3. file[d]["model"].of.n \in Nat
        BY <2>2 DEF File, State
    <2>4. step' <= state'.n
        BY <1>8, <2>1, <2>3 DEF Load, LoadedStep, Start
    <2> QED
        BY <1>8, <2>4 DEF Load, Start, diskVars
<1>9. CASE UNCHANGED vars
    BY <1>9 DEF vars, diskVars
<1> QED
    BY <1>2, <1>3, <1>4, <1>5, <1>6, <1>7, <1>8, <1>9
    DEF Next, ResumeStep, ResumeLatest

(* A resumed trainer's counter never claims more optimizer steps than its *)
(* weights have seen, however often it crashed and whatever was lost.     *)
THEOREM CounterNeverAheadAlways == Spec => []CounterNeverAhead
<1>1. Init => CounterInv
    BY Constants, EmptyFiles DEF Init, CounterInv, CounterNeverAhead, Files
<1>2. TypeOK /\ CounterInv /\ [Next]_vars => CounterInv'
    BY CounterStep
<1>3. CounterInv => CounterNeverAhead
    BY DEF CounterInv
<1> QED
    BY <1>1, <1>2, <1>3, TypeCorrect, PTL DEF Spec

-----------------------------------------------------------------------------
(* The pointer *)

(* Every step leaves a directory as high as the pointer. *)
LEMMA PointerStepInv ==
    ASSUME TypeOK, FilesInv, PointerInv, [Next]_vars
    PROVE  PointerInv'
<1> USE Constants DEF PointerInv, TypeOK
<1>1. CASE MakeDir
    BY <1>1 DEF MakeDir
<1>2. CASE WriteLatestPointer
    BY <1>2 DEF WriteLatestPointer, FilesInv
<1>3. CASE PruneOldCheckpoints \/ (GoDown /\ RemoveVictims)
    <2>1. RemoveVictims
        BY <1>3 DEF PruneOldCheckpoints
    <2>2. pointer' \in {pointer, TornPointer}
        BY <1>3 DEF PruneOldCheckpoints, GoDown, diskVars
    <2>3. ASSUME pointer' \in Steps PROVE \E d \in dirs' : d >= pointer'
        <3>1. PICK d \in dirs : d >= pointer
            BY <2>2, <2>3
        <3> DEFINE h == Highest(dirs)
        <3>2. h \in dirs /\ \A t \in dirs : t <= h
            BY <3>1, HighestExists
        <3> HIDE DEF h
        <3>3. h \in dirs'
            BY <2>1, <3>2, HighestIsNoVictim, Pruned
        <3>4. h >= d /\ h \in Steps /\ d \in Steps
            BY <3>1, <3>2
        <3> QED
            BY <2>2, <2>3, <3>1, <3>3, <3>4
    <2> QED
        BY <2>3
<1>4. CASE GoDown /\ ~ RemoveVictims
    BY <1>4 DEF GoDown, diskVars
<1>5. CASE TrainStep \/ SaveCheckpoint \/ WriteFile
    BY <1>5 DEF TrainStep, SaveCheckpoint, WriteFile, diskVars
<1>6. CASE StartOver \/ ResumeStep \/ ResumeLatest
    BY <1>6 DEF StartOver, ResumeStep, ResumeLatest, Load, Start, diskVars
<1>7. CASE UNCHANGED vars
    BY <1>7 DEF vars, diskVars
<1> QED
    BY <1>1, <1>2, <1>3, <1>4, <1>5, <1>6, <1>7 DEF Next

(* load() without a step never falls back to a checkpoint older than the one *)
(* latest.json names, nor to none.                                           *)
THEOREM LatestNeverFallsBackAlways == Spec => []LatestNeverFallsBack
<1>1. Init => PointerInv
    BY Constants DEF Init, PointerInv
<1>2. TypeOK /\ FilesInv /\ PointerInv /\ [Next]_vars => PointerInv'
    BY PointerStepInv
<1>3. TypeOK /\ FilesInv /\ [Next]_vars => TypeOK' /\ FilesInv'
    BY TypeStep, FilesStep
<1>4. ASSUME TypeOK, PointerInv PROVE LatestNeverFallsBack
    <2> SUFFICES ASSUME pointer \in Steps PROVE LatestDir >= pointer
        BY DEF LatestNeverFallsBack
    <2>1. PICK d \in dirs : d >= pointer
        BY <1>4 DEF PointerInv
    <2>2. CASE pointer \in dirs
        BY <2>2, Constants DEF LatestDir
    <2>3. CASE pointer \notin dirs
        <3> DEFINE h == Highest(dirs)
        <3>1. h \in dirs /\ d <= h
            BY <1>4, <2>1, HighestExists DEF TypeOK
        <3>2. LatestDir = h
            BY <2>1, <2>3 DEF LatestDir
        <3> HIDE DEF h
        <3> QED
            BY <1>4, <2>1, <3>1, <3>2, Constants DEF TypeOK
    <2> QED
        BY <2>2, <2>3
<1> QED
    BY <1>1, <1>2, <1>3, <1>4, InitType, PTL DEF Spec

-----------------------------------------------------------------------------
(* The anchor *)

(* A save that has written everything leaves its directory whole. *)
LEMMA WrittenIsWhole ==
    ASSUME TypeOK, FilesInv, pc \in {"pointer", "prune"}
    PROVE  step \in dirs /\ Whole(step)
BY DEF FilesInv, Whole, Files

(* A directory whose files stay is as whole as before. *)
LEMMA WholeStays ==
    ASSUME NEW d, Whole(d), file'[d] = file[d]
    PROVE  Whole(d)'
BY DEF Whole

(* Writing into the directory of the step leaves the others alone. *)
LEMMA WriteElsewhere ==
    ASSUME TypeOK, NEW f, NEW c, Write(f, c), NEW d \in Steps, d # step
    PROVE  file'[d] = file[d]
BY DEF Write, TypeOK

(* The anchor keeps its meaning in every step. *)
LEMMA AnchorStep ==
    ASSUME TypeOK, FilesInv, AnchorInv, [Next]_vars
    PROVE  AnchorInv'
<1> USE Constants
<1> SUFFICES ASSUME anchor' # NoStep PROVE AnchorInv'
    BY DEF AnchorInv
<1>0. anchor \in Steps \cup {NoStep} /\ step \in Steps /\ dirs \in SUBSET Steps
    BY DEF TypeOK
<1>1. CASE TrainStep
    <2>1. Anchored(anchor) /\ anchor <= step /\ anchor # NoStep
        BY <1>1 DEF TrainStep, AnchorInv
    <2>2. Anchored(anchor)' /\ anchor' = anchor /\ step' = step + 1
        BY <1>1, <2>1 DEF TrainStep, Anchored, Whole, diskVars
    <2> QED
        BY <1>0, <1>1, <2>1, <2>2 DEF TrainStep, AnchorInv, Anchored
<1>2. CASE SaveCheckpoint
    <2>1. Anchored(anchor) /\ anchor < step
        BY <1>0, <1>2 DEF SaveCheckpoint, AnchorInv
    <2>2. Anchored(anchor)'
        BY <1>2, <2>1 DEF SaveCheckpoint, Anchored, Whole, diskVars
    <2> QED
        BY <1>2, <2>1, <2>2 DEF SaveCheckpoint, AnchorInv, Anchored
<1>3. CASE MakeDir
    <2>1. /\ pointer = anchor /\ anchor \in dirs /\ Whole(anchor) /\ anchor < step
          /\ \A t \in dirs : t <= anchor \/ t = step
        BY <1>3 DEF MakeDir, AnchorInv
    <2>2. Whole(anchor)'
        BY <1>3, <2>1, WholeStays DEF MakeDir
    <2> QED
        BY <1>3, <2>1, <2>2 DEF MakeDir, AnchorInv
<1>4. CASE WriteFile
    <2>1. /\ pointer = anchor /\ anchor \in dirs /\ Whole(anchor) /\ anchor < step
          /\ \A t \in dirs : t <= anchor \/ t = step
        BY <1>4 DEF WriteFile, AnchorInv, Files
    <2>2. Whole(anchor)'
        BY <1>0, <1>4, <2>1, WholeStays, WriteElsewhere DEF WriteFile
    <2>3. pc' \in {"optimizer", "meta", "pointer"}
        BY <1>4 DEF WriteFile, Files
    <2> QED
        BY <1>4, <2>1, <2>2, <2>3 DEF WriteFile, AnchorInv
<1>5. CASE WriteLatestPointer
    <2>1. anchor < step /\ \A t \in dirs : t <= anchor \/ t = step
        BY <1>5 DEF WriteLatestPointer, AnchorInv
    <2>2. \A t \in dirs : t <= step
        BY <1>0, <2>1
    <2> QED
        BY <1>5, <2>1, <2>2 DEF WriteLatestPointer, AnchorInv
<1>6. CASE PruneOldCheckpoints
    <2>1. pc' = "train" /\ anchor' = step /\ Anchored(step)' /\ step' = step
        BY <1>6 DEF PruneOldCheckpoints
    <2> QED
        BY <1>0, <2>1 DEF AnchorInv, Anchored
<1>7. CASE GoDown
    <2>1. pc' = "down" /\ anchor' = anchor
        BY <1>7 DEF GoDown
    <2> SUFFICES \E h \in dirs' : h >= anchor /\ WillLoad(h)'
        BY <2>1 DEF AnchorInv
    <2>2. CASE pc = "train"
        <3>1. Anchored(anchor)
            BY <2>1, <2>2 DEF AnchorInv
        <3>2. UNCHANGED diskVars
            BY <1>7, <2>2 DEF GoDown, Files
        <3> QED
            BY <1>0, <2>1, <3>1, <3>2 DEF Anchored, WillLoad, Whole, diskVars
    <2>3. CASE pc = "mkdir" \/ pc \in Files \cup {"pointer"}
        <3>1. /\ pointer = anchor /\ anchor \in dirs /\ Whole(anchor) /\ anchor < step
              /\ \A t \in dirs : t <= anchor \/ t = step
            BY <2>1, <2>3 DEF AnchorInv, Files
        <3>2. CASE pc = "pointer" /\ pointer' = TornPointer /\ UNCHANGED <<dirs, file>>
            <4>1. step \in dirs /\ Whole(step)
                BY <3>2, WrittenIsWhole
            <4>2. Whole(step)' /\ pointer' \notin dirs'
                BY <1>0, <1>7, <3>2, <4>1 DEF Whole, GoDown
            <4>3. \A t \in dirs : t <= step
                BY <1>0, <3>1
            <4> QED
                BY <1>0, <1>7, <3>1, <3>2, <4>1, <4>2, <4>3 DEF WillLoad, GoDown
        <3>3. CASE UNCHANGED pointer /\ UNCHANGED dirs
            <4>1. file'[anchor] = file[anchor]
                BY <1>0, <1>7, <2>3, <3>1, <3>3, WriteElsewhere DEF GoDown, diskVars, Files
            <4>2. Whole(anchor)'
                BY <2>1, <3>1, <4>1 DEF Whole
            <4> QED
                BY <1>0, <2>1, <3>1, <3>3, <4>2 DEF WillLoad
        <3> QED
            BY <1>7, <2>3, <3>2, <3>3 DEF GoDown, diskVars, Files
    <2>4. CASE pc = "prune"
        <3>1. anchor < step /\ \A t \in dirs : t <= step
            BY <2>1, <2>4 DEF AnchorInv
        <3>2. step \in dirs /\ Whole(step) /\ pointer = step
            BY <2>4, WrittenIsWhole DEF FilesInv
        <3>3. pointer' = pointer /\ step' = step
            BY <1>7, <2>4 DEF GoDown, diskVars, Files
        <3>4. step \in dirs' /\ file'[step] = file[step]
            <4>1. CASE RemoveVictims
                BY <3>1, <3>2, <4>1, HighestIsNoVictim, Pruned
            <4>2. CASE UNCHANGED diskVars
                BY <3>2, <4>2 DEF diskVars
            <4> QED
                BY <1>7, <2>4, <4>1, <4>2 DEF GoDown, Files
        <3>5. Whole(step)'
            BY <3>2, <3>3, <3>4 DEF Whole
        <3> QED
            BY <1>0, <3>1, <3>2, <3>3, <3>4, <3>5 DEF WillLoad
    <2>5. CASE pc = "down"
        BY <1>7, <2>5 DEF GoDown
    <2> QED
        BY <2>2, <2>3, <2>4, <2>5 DEF TypeOK
<1>8. CASE StartOver
    BY <1>8 DEF StartOver
<1>9. ASSUME NEW d, Load(d) PROVE AnchorInv'
    <2>1. anchor' = d /\ Anchored(d) /\ d \in Steps
        BY <1>0, <1>9 DEF Load, Loadable
    <2>2. file[d]["meta"].is = "whole"
        BY <2>1 DEF Anchored, Whole, Files
    <2>3. step' = d /\ pc' = "train" /\ UNCHANGED diskVars
        BY <1>9, <2>2 DEF Load, LoadedStep, Start
    <2>4. Anchored(d)'
        BY <2>1, <2>3 DEF Anchored, Whole, diskVars
    <2> QED
        BY <2>1, <2>3, <2>4 DEF AnchorInv, Anchored
<1>10. CASE UNCHANGED vars
    BY <1>10 DEF vars, diskVars, AnchorInv, Anchored, WillLoad, Whole
<1> QED
    BY <1>1, <1>2, <1>3, <1>4, <1>5, <1>6, <1>7, <1>8, <1>9, <1>10
    DEF Next, ResumeStep, ResumeLatest

(* After a save completed in order, or a resume from one, the process may go *)
(* down at any moment: what is loaded next is whole and not older.           *)
THEOREM NextLoadIsWholeAlways == Spec => []NextLoadIsWhole
<1>1. Init => AnchorInv
    BY DEF Init, AnchorInv
<1>2. TypeOK /\ FilesInv /\ AnchorInv /\ [Next]_vars => AnchorInv'
    BY AnchorStep
<1>3. TypeOK /\ FilesInv /\ [Next]_vars => TypeOK' /\ FilesInv'
    BY TypeStep, FilesStep
<1>4. ASSUME TypeOK, AnchorInv PROVE NextLoadIsWhole
    <2> SUFFICES ASSUME pc = "down", anchor # NoStep
                 PROVE  LatestDir \in dirs /\ Whole(LatestDir) /\ LatestDir >= anchor
        BY DEF NextLoadIsWhole
    <2>1. PICK h \in dirs : h >= anchor /\ WillLoad(h)
        BY <1>4 DEF AnchorInv
    <2>2. LatestDir = h
        <3>1. CASE pointer = h
            BY <3>1 DEF LatestDir
        <3>2. CASE pointer \notin dirs /\ \A t \in dirs : t <= h
            <4> DEFINE top == Highest(dirs)
            <4>1. top \in dirs /\ h <= top
                BY <1>4, HighestExists DEF TypeOK
            <4>2. LatestDir = top
                BY <3>2 DEF LatestDir
            <4> HIDE DEF top
            <4>3. top <= h /\ top \in Int /\ h \in Int
                BY <1>4, <3>2, <4>1, Constants DEF TypeOK
            <4> QED
                BY <4>1, <4>2, <4>3
        <3> QED
            BY <2>1, <3>1, <3>2 DEF WillLoad
    <2> QED
        BY <2>1, <2>2 DEF WillLoad
<1> QED
    BY <1>1, <1>2, <1>3, <1>4, InitType, PTL DEF Spec
=============================================================================
