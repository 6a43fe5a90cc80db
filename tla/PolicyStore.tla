---------------------------- MODULE PolicyStore ----------------------------
(***************************************************************************)
(* What publishing a policy promises to the rest of the system, whatever   *)
(* protocol carries the tensors.  One publisher hands version after        *)
(* version to one inference server; requests are answered with the weights *)
(* that are loaded, clients are told the version that is reported.         *)
(*                                                                         *)
(* WeightSync implements this specification (broadcast, background task,   *)
(* workers); Pipeline is built on its actions (actors, queue, trainer).    *)
(***************************************************************************)
EXTENDS Naturals

CONSTANTS
    MaxVersion,     \* bound on the optimizer steps a version can be taken from
    ReportMayFail   \* whether a server task may die between load and report

ASSUME VersionAssumption == MaxVersion \in Nat /\ ReportMayFail \in BOOLEAN

VARIABLES
    loaded,     \* version of the weights every worker answers with
    reported,   \* RUNTIME_VERSION, what GET /runtime_version returns
    phase,      \* how far the publish in progress has come
    pending     \* version of that publish, or of the last one

storeVars == <<loaded, reported, phase, pending>>

Versions == 0 .. MaxVersion
Phases == {"idle", "loading", "loaded", "reported"}

StoreInit ==
    /\ loaded = 0
    /\ reported = 0
    /\ phase = "idle"
    /\ pending = 0

(* publish(version=v) is entered: the manifest is about to be announced. *)
Begin(v) ==
    /\ phase = "idle"
    /\ phase' = "loading"
    /\ pending' = v
    /\ UNCHANGED <<loaded, reported>>

(* Every worker has loaded the last tensor of the manifest. *)
Apply ==
    /\ phase = "loading"
    /\ phase' = "loaded"
    /\ loaded' = pending
    /\ UNCHANGED <<reported, pending>>

(* The background task sets RUNTIME_VERSION to the version it was sent. *)
Report ==
    /\ phase = "loaded"
    /\ phase' = "reported"
    /\ reported' = pending
    /\ UNCHANGED <<loaded, pending>>

(* finalize_update sees no background task and publish returns. A task that *)
(* died after the load is not distinguished from one that completed.        *)
Return ==
    /\ phase = "reported" \/ (phase = "loaded" /\ ReportMayFail)
    /\ phase' = "idle"
    /\ UNCHANGED <<loaded, reported, pending>>

(* Versions are the publisher's step counter: without a restart they grow. *)
StoreNext ==
    \/ \E v \in Versions : v > pending /\ Begin(v)
    \/ Apply
    \/ Report
    \/ Return

StoreSpec == StoreInit /\ [][StoreNext]_storeVars
=============================================================================
