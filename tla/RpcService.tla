----------------------------- MODULE RpcService -----------------------------
(***************************************************************************)
(* What McpdTransport.request() promises its callers, without connections, *)
(* frames, retries or timeouts: a request runs on the target at most once  *)
(* unless running it again changes nothing, an answer is an answer to this *)
(* request, and "may_have_run": false is a promise about the future too.   *)
(***************************************************************************)
EXTENDS Integers

CONSTANTS
    Requests,     \* calls of request()
    Idempotent,   \* those whose method is in IDEMPOTENT_METHODS
    MaxRuns       \* bound: runs of one idempotent request

VARIABLES
    ran,       \* request -> how often its handler has run on the target
    outcome    \* request -> "none" until the call ends, then "answered",
               \* "failed" (may have run), "not_run" (may_have_run is
               \* false) or "error" (says nothing of it)

vars == <<ran, outcome>>

Init ==
    /\ ran = [k \in Requests |-> 0]
    /\ outcome = [k \in Requests |-> "none"]

(* The handler runs, possibly after the caller gave up.                    *)
Run(k) ==
    /\ IF k \in Idempotent THEN ran[k] < MaxRuns
       ELSE ran[k] = 0 /\ outcome[k] # "not_run"
    /\ ran' = [ran EXCEPT ![k] = @ + 1]
    /\ UNCHANGED outcome

(* The call returns the answer of a run of this request.                   *)
Answer(k) ==
    /\ outcome[k] = "none"
    /\ ran[k] > 0
    /\ outcome' = [outcome EXCEPT ![k] = "answered"]
    /\ UNCHANGED ran

(* The call raises.  Only a request that did not run may be reported so.   *)
Fail(k) ==
    /\ outcome[k] = "none"
    /\ \E o \in {"failed", "not_run", "error"} :
         /\ o = "not_run" => k \in Idempotent \/ ran[k] = 0
         /\ outcome' = [outcome EXCEPT ![k] = o]
    /\ UNCHANGED ran

Next == \E k \in Requests : Run(k) \/ Answer(k) \/ Fail(k)

Spec == Init /\ [][Next]_vars
=============================================================================
