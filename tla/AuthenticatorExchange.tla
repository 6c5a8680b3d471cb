------------------------ MODULE AuthenticatorExchange ------------------------
(***************************************************************************)
(* What CtapHidChannel::request promises its caller, whatever the wire and *)
(* the other applications do: a request is executed at most once, and      *)
(* either ends with exactly the response the authenticator gave to it or   *)
(* fails.  A failure says nothing about execution: the authenticator may   *)
(* have executed the request, or may still do so.                          *)
(***************************************************************************)
CONSTANTS Requests, Bodies, None

VARIABLES
    status,     \* of each request: "unsent", "asked", "answered", "failed"
    response,   \* what the authenticator answered, None before it executed
    returned    \* what the caller was given, None while it has nothing

vars == <<status, response, returned>>

Init ==
    /\ status = [r \in Requests |-> "unsent"]
    /\ response = [r \in Requests |-> None]
    /\ returned = [r \in Requests |-> None]

Ask(r) ==
    /\ status[r] = "unsent"
    /\ status' = [status EXCEPT ![r] = "asked"]
    /\ UNCHANGED <<response, returned>>

Execute(r) ==
    /\ status[r] \in {"asked", "failed"}
    /\ response[r] = None
    /\ \E body \in Bodies : response' = [response EXCEPT ![r] = body]
    /\ UNCHANGED <<status, returned>>

Answer(r) ==
    /\ status[r] = "asked"
    /\ response[r] # None
    /\ status' = [status EXCEPT ![r] = "answered"]
    /\ returned' = [returned EXCEPT ![r] = response[r]]
    /\ UNCHANGED response

Fail(r) ==
    /\ status[r] = "asked"
    /\ status' = [status EXCEPT ![r] = "failed"]
    /\ UNCHANGED <<response, returned>>

Next == \E r \in Requests : Ask(r) \/ Execute(r) \/ Answer(r) \/ Fail(r)

Spec == Init /\ [][Next]_vars
=============================================================================
