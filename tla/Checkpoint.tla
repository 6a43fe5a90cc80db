----------------------------- MODULE Checkpoint -----------------------------
(***************************************************************************)
(* Checkpoints: the trainer saves its state every SaveEvery-th step or     *)
(* when asked, and a trainer started later may load it.  A save writes the *)
(* files of a directory one after the other, then latest.json, then prunes *)
(* old directories; the process may go down before, in and after each, and *)
(* a file that was being written is then torn.                             *)
(*                                                                         *)
(* A trainer's state (weights and optimizer together) is reduced to the    *)
(* process that made it and to n, the optimizer steps it has seen.         *)
(***************************************************************************)
EXTENDS Integers, FiniteSets

CONSTANTS
    SaveEvery,      \* CheckpointConfig.every_n_steps
    MaxToKeep,      \* max_to_keep; 0 stands for None: keep all
    SaveOptimizer,  \* save_optimizer
    AskedSteps,     \* steps at which the program may call save_checkpoint
    MaxStep,        \* bound on the step counter
    MaxStarts       \* bound on the trainer processes, one after another

ASSUME CheckpointAssumption ==
    /\ SaveEvery \in Nat
    /\ MaxToKeep \in Nat
    /\ SaveOptimizer \in BOOLEAN
    /\ AskedSteps \in SUBSET Nat
    /\ MaxStep \in Nat
    /\ MaxStarts \in Nat \ {0}

VARIABLES
    pc,       \* what the process is doing
    step,     \* Trainer._train_step_idx
    state,    \* state of its model and optimizer
    starts,   \* processes started so far
    dirs,     \* the step_* directories, by their number
    file,     \* file[d][f]: file f of directory d
    pointer,  \* the step latest.json names
    anchor    \* checkpoint the process relies on (history), see Anchored

diskVars == <<dirs, file, pointer>>
vars == <<pc, step, state, starts, diskVars, anchor>>

Steps == 0 .. MaxStep
Files == {"model", "optimizer", "meta"}
State == [by : Nat, n : Nat]
File == [is : {"none", "torn", "whole"}, of : State]
NoStep == -1
TornPointer == -2

NoFile == [is |-> "none", of |-> [by |-> 0, n |-> 0]]
TornFile == [NoFile EXCEPT !.is = "torn"]

Init ==
    /\ pc = "train" /\ step = 0
    /\ starts = 1 /\ state = [by |-> 1, n |-> 0]
    /\ dirs = {}
    /\ file = [d \in Steps |-> [f \in Files |-> NoFile]]
    /\ pointer = NoStep
    /\ anchor = NoStep

(* Directory d holds all the files of one save. *)
Whole(d) ==
    /\ file[d]["model"].is = "whole"
    /\ \A f \in IF SaveOptimizer THEN Files ELSE {"model", "meta"} :
          file[d][f] = file[d]["model"]

(* latest.json names d, which is whole and which no directory outnumbers: *)
(* the situation after a save in order.                                    *)
Anchored(d) ==
    /\ pointer = d
    /\ d \in dirs /\ Whole(d)
    /\ \A t \in dirs : t <= d

-----------------------------------------------------------------------------
(* Saving *)

ShouldSave(s) == SaveEvery > 0 /\ s % SaveEvery = 0

(* train_step: the counter, then maybe_save. *)
TrainStep ==
    /\ pc = "train" /\ step < MaxStep
    /\ step' = step + 1
    /\ state' = [by |-> starts, n |-> state.n + 1]
    /\ pc' = IF ShouldSave(step + 1) THEN "mkdir" ELSE "train"
    /\ UNCHANGED <<starts, diskVars, anchor>>

(* Trainer.save_checkpoint.  At the anchor's own step it rewrites that       *)
(* checkpoint in place, and nothing is relied on meanwhile.                  *)
SaveCheckpoint ==
    /\ pc = "train" /\ step \in AskedSteps
    /\ pc' = "mkdir"
    /\ anchor' = IF anchor = step THEN NoStep ELSE anchor
    /\ UNCHANGED <<step, state, starts, diskVars>>

(* Bug: latest.json is written first. *)
MakeDirAndPoint ==
    /\ pc = "mkdir" /\ pc' = "model"
    /\ dirs' = dirs \cup {step} /\ pointer' = step
    /\ UNCHANGED <<step, state, starts, file, anchor>>

MakeDir ==
    /\ pc = "mkdir" /\ pc' = "model"
    /\ dirs' = dirs \cup {step}
    /\ UNCHANGED <<step, state, starts, file, pointer, anchor>>

Write(f, content) == file' = [file EXCEPT ![step][f] = content]

(* One file of the directory is written, in the order of save(). *)
WriteFile ==
    /\ pc \in Files
    /\ Write(pc, [is |-> "whole", of |-> state])
    /\ pc' = CASE pc = "model" -> IF SaveOptimizer THEN "optimizer" ELSE "meta"
               [] pc = "optimizer" -> "meta"
               [] pc = "meta" -> "pointer"
    /\ UNCHANGED <<step, state, starts, dirs, pointer, anchor>>

WriteLatestPointer ==
    /\ pc = "pointer" /\ pc' = "prune"
    /\ pointer' = step
    /\ UNCHANGED <<step, state, starts, dirs, file, anchor>>

(* How many entries ckpt_dirs[:excess] has: a negative excess counts from *)
(* the end, as Python's slices do.                                        *)
Excess ==
    LET n == Cardinality(dirs)
        excess == n - MaxToKeep
    IN  IF excess >= 0 THEN excess
        ELSE IF n + excess >= 0 THEN n + excess ELSE 0

(* Bug: the directories are sorted newest first. *)
NewestVictims ==
    IF MaxToKeep = 0 THEN {}
    ELSE {d \in dirs : Cardinality({t \in dirs : t > d}) < Excess}

Victims ==
    IF MaxToKeep = 0 THEN {}
    ELSE {d \in dirs : Cardinality({t \in dirs : t < d}) < Excess}

(* rmtree of the victims.  It ignores errors, and the process may go down in  *)
(* the middle: a victim may be left with some of its files.                   *)
RemoveVictims ==
    \E left \in SUBSET Victims :
       /\ dirs' = dirs \ (Victims \ left)
       /\ \E kept \in [left -> SUBSET Files] :
             file' = [d \in Steps |->
                        IF d \in Victims
                        THEN [f \in Files |-> IF d \in left /\ f \in kept[d]
                                              THEN file[d][f] ELSE NoFile]
                        ELSE file[d]]

PruneOldCheckpoints ==
    /\ pc = "prune" /\ pc' = "train"
    /\ RemoveVictims
    /\ UNCHANGED <<step, state, starts, pointer>>
    /\ anchor' = IF Anchored(step)' THEN step ELSE NoStep

(* The process goes down, killed or by an exception: what was being written *)
(* is as it was, or torn.                                                   *)
GoDown ==
    /\ pc # "down" /\ pc' = "down"
    /\ \/ UNCHANGED diskVars
       \/ pc \in Files /\ Write(pc, TornFile) /\ UNCHANGED <<dirs, pointer>>
       \/ pc = "pointer" /\ pointer' = TornPointer /\ UNCHANGED <<dirs, file>>
       \/ pc = "prune" /\ RemoveVictims /\ UNCHANGED pointer
    /\ UNCHANGED <<step, state, starts, anchor>>

-----------------------------------------------------------------------------
(* Starting and loading *)

Highest(S) == CHOOSE d \in S : \A t \in S : t <= d

(* _resolve_checkpoint_dir without step and path. *)
LatestDir ==
    IF pointer \in dirs THEN pointer
    ELSE IF dirs # {} THEN Highest(dirs) ELSE NoStep

(* Bug: without metadata the step is taken from latest.json. *)
PointerStep(d) ==
    IF file[d]["meta"].is = "whole" THEN d
    ELSE IF pointer \in Steps THEN pointer ELSE 0

(* Bug: the same, without a look at whether latest.json can be read. *)
RawPointerStep(d) == IF file[d]["meta"].is = "whole" THEN d ELSE pointer

(* The step of the metadata, which is the number of its directory; without *)
(* metadata that can be read, 0.                                           *)
LoadedStep(d) == IF file[d]["meta"].is = "whole" THEN d ELSE 0

(* A model that is missing or torn raises, and so does a torn optimizer.pt; *)
(* a missing one leaves the optimizer new.                                  *)
Loadable(d) ==
    /\ d \in dirs
    /\ file[d]["model"].is = "whole"
    /\ file[d]["optimizer"].is # "torn"

Start(s, n) ==
    /\ pc = "down" /\ starts < MaxStarts
    /\ pc' = "train"
    /\ starts' = starts + 1
    /\ step' = s
    /\ state' = [by |-> starts + 1, n |-> n]
    /\ UNCHANGED diskVars

Load(d) ==
    /\ Loadable(d)
    /\ Start(LoadedStep(d), file[d]["model"].of.n)
    /\ anchor' = IF Anchored(d) THEN d ELSE NoStep

(* Without resume_from, in a directory that others have used before. *)
StartOver == Start(0, 0) /\ anchor' = NoStep

ResumeStep == \E d \in dirs : Load(d)

ResumeLatest == Load(LatestDir)

-----------------------------------------------------------------------------
Next ==
    \/ TrainStep \/ SaveCheckpoint
    \/ MakeDir \/ WriteFile \/ WriteLatestPointer \/ PruneOldCheckpoints
    \/ GoDown
    \/ StartOver \/ ResumeStep \/ ResumeLatest

Spec == Init /\ [][Next]_vars

-----------------------------------------------------------------------------
(* Properties *)

(* Every variable keeps its type; a file only exists in its directory. *)
TypeOK ==
    /\ pc \in {"train", "mkdir", "pointer", "prune", "down"} \cup Files
    /\ step \in Steps
    /\ state \in State
    /\ starts \in 1 .. MaxStarts
    /\ dirs \in SUBSET Steps
    /\ file \in [Steps -> [Files -> File]]
    /\ \A d \in Steps \ dirs : \A f \in Files : file[d][f] = NoFile
    /\ pointer \in Steps \cup {NoStep, TornPointer}
    /\ anchor \in Steps \cup {NoStep}

(* A process that has completed a save in order, or resumed from one, may    *)
(* go down at any moment of any later save: what the next one loads without  *)
(* naming a step is whole and not older.  This is what the order of save(),  *)
(* files, then pointer, then prune, is for.                                  *)
NextLoadIsWhole ==
    pc = "down" /\ anchor # NoStep =>
       LatestDir \in dirs /\ Whole(LatestDir) /\ LatestDir >= anchor

(* Whatever was pruned, lost or written in place, load() without a step never *)
(* falls back to a checkpoint older than the one latest.json names, nor to    *)
(* none.                                                                      *)
LatestNeverFallsBack ==
    pc \in {"train", "down"} /\ pointer \in Steps => LatestDir >= pointer

(* The step counter of a resumed trainer, which becomes the version it        *)
(* publishes, never claims more optimizer steps than its weights have seen.   *)
CounterNeverAhead == step <= state.n

(* "Keep only the most recent N checkpoints": pruning leaves N of them, or as *)
(* many as there were.  Refuted for N > 2: one short of N, the slice          *)
(* ckpt_dirs[:-1] removes all but the newest.                                 *)
PruneKeepsN ==
    [][PruneOldCheckpoints =>
          \/ Cardinality(dirs') >= MaxToKeep
          \/ dirs' = dirs]_vars

-----------------------------------------------------------------------------
(* The parts of an inductive invariant *)

(* A save has written what it has passed. *)
FilesInv ==
    LET Written(f) == file[step][f] = [is |-> "whole", of |-> state]
    IN  /\ pc \in Files \cup {"pointer", "prune"} => step \in dirs
        /\ pc \in {"optimizer", "meta", "pointer", "prune"} => Written("model")
        /\ pc \in {"meta", "pointer", "prune"} /\ SaveOptimizer => Written("optimizer")
        /\ pc \in {"pointer", "prune"} => Written("meta")
        /\ pc = "prune" => pointer = step

(* The directory that load() would choose next is h, and it is whole. *)
WillLoad(h) ==
    /\ h \in dirs /\ Whole(h)
    /\ pointer = h \/ (pointer \notin dirs /\ \A t \in dirs : t <= h)

(* What an anchor stands for at each point of a save. *)
AnchorInv ==
    anchor # NoStep =>
       CASE pc = "train" -> Anchored(anchor) /\ anchor <= step
         [] pc = "down"  -> \E h \in dirs : h >= anchor /\ WillLoad(h)
         [] pc = "prune" -> anchor < step /\ \A t \in dirs : t <= step
         [] OTHER        -> /\ pointer = anchor /\ anchor \in dirs /\ Whole(anchor)
                            /\ anchor < step
                            /\ \A t \in dirs : t <= anchor \/ t = step

(* A model on disk has seen at least the steps its directory is named for. *)
CounterInv ==
    /\ CounterNeverAhead
    /\ \A d \in Steps : file[d]["model"].is = "whole" => d <= file[d]["model"].of.n

(* A directory as high as the one latest.json names exists. *)
PointerInv == pointer \in Steps => \E d \in dirs : d >= pointer
=============================================================================
