---------------------------- MODULE BatchService ----------------------------
(***************************************************************************)
(* What a BatchSource promises to its caller: next_batch asks for the      *)
(* rollouts of some requests and either returns those, all of them, in the *)
(* order of the requests, or raises.  Nothing of an earlier call is ever   *)
(* in the answer.                                                          *)
(***************************************************************************)
EXTENDS Integers, Sequences

CONSTANT
    Requests  \* what may be asked for

VARIABLES
    width,    \* rollouts made of one request: the agents of its episode
    status,   \* "idle", "busy" in a call, "stopped" when there is no more work
    asked,    \* the requests of the latest call
    answer    \* the requests its rollouts were made of; empty if it raised

serviceVars == <<width, status, asked, answer>>

ServiceInit == width \in Nat /\ status = "idle" /\ asked = <<>> /\ answer = <<>>

(* requests_fn hands out the requests of a call. *)
Ask ==
    /\ status = "idle"
    /\ status' = "busy"
    /\ asked' \in Seq(Requests)
    /\ answer' = <<>>
    /\ UNCHANGED width

(* requests_fn raises RequestsExhausted. *)
Exhausted ==
    /\ status = "idle"
    /\ status' = "stopped"
    /\ asked' = <<>> /\ answer' = <<>>
    /\ UNCHANGED width

(* The call returns: every request of it, width times, in order. *)
Answer ==
    /\ status = "busy"
    /\ status' = "idle"
    /\ answer' = [k \in 1 .. width * Len(asked) |-> asked[((k - 1) \div width) + 1]]
    /\ UNCHANGED <<width, asked>>

(* The call raises. *)
Raise ==
    /\ status = "busy"
    /\ status' = "idle"
    /\ answer' = <<>>
    /\ UNCHANGED <<width, asked>>

ServiceNext == Ask \/ Exhausted \/ Answer \/ Raise

(* The safety of the service, ... *)
ServiceSafe == ServiceInit /\ [][ServiceNext]_serviceVars

(* ... and its liveness: a call ends. *)
ServiceSpec == ServiceSafe /\ WF_serviceVars(Answer \/ Raise)
=============================================================================
