----------------------------- MODULE RpcService -----------------------------
(***************************************************************************)
(* What a Kinetic client promises to the code that calls it, whatever its  *)
(* queues, coroutines and connections do: a call that was issued is        *)
(* completed once, with one outcome, and its caller resumes with that      *)
(* outcome.  Only the outcome of a call whose deadline has passed may be   *)
(* replaced later.  The interface is ClientInterface::RPC and Sync::Wait   *)
(* (src/oio/blob/kinetic/coro/ClientInterface.h).                          *)
(***************************************************************************)

CONSTANT Calls          \* the RPCs issued on one client

VARIABLES
    phase,              \* how far each call is
    result,             \* the outcome the exchange of each call holds
    overdue             \* the calls that were not completed by their deadline

Phases == {"idle", "issued", "completed", "returned"}
Outcomes == {"none", "reply", "error"}

serviceVars == <<phase, result, overdue>>

ServiceTypeOK ==
    /\ phase \in [Calls -> Phases]
    /\ result \in [Calls -> Outcomes]
    /\ overdue \in SUBSET Calls

ServiceInit ==
    /\ phase = [c \in Calls |-> "idle"]
    /\ result = [c \in Calls |-> "none"]
    /\ overdue = {}

(* RPC(exchange): the call belongs to the client until it is completed. *)
Issue(c) ==
    /\ phase[c] = "idle"
    /\ phase' = [phase EXCEPT ![c] = "issued"]
    /\ UNCHANGED <<result, overdue>>

(* Deadline() passes before the call is completed. *)
Miss(c) ==
    /\ phase[c] = "issued"
    /\ overdue' = overdue \cup {c}
    /\ UNCHANGED <<phase, result>>

(* ManageReply or ManageError, then Signal: once per call. *)
Complete(c, o) ==
    /\ phase[c] = "issued"
    /\ phase' = [phase EXCEPT ![c] = "completed"]
    /\ result' = [result EXCEPT ![c] = o]
    /\ UNCHANGED overdue

(* A late answer, or a late abort, to a call that had an outcome. *)
Revise(c, o) ==
    /\ c \in overdue
    /\ phase[c] \in {"completed", "returned"}
    /\ result' = [result EXCEPT ![c] = o]
    /\ UNCHANGED <<phase, overdue>>

(* Wait() returns: from now on the exchange belongs to the caller again. *)
Return(c) ==
    /\ phase[c] = "completed"
    /\ phase' = [phase EXCEPT ![c] = "returned"]
    /\ UNCHANGED <<result, overdue>>

ServiceNext ==
    \E c \in Calls :
        \/ Issue(c) \/ Miss(c)
        \/ \E o \in {"reply", "error"} : Complete(c, o) \/ Revise(c, o)
        \/ Return(c)

ServiceSpec == ServiceInit /\ [][ServiceNext]_serviceVars
=============================================================================
