------------------------------- MODULE Service -------------------------------
(***************************************************************************)
(* What pkg/kql promises the goroutines that share a backend, without the   *)
(* pool, the statements and the steps of a query: a call is admitted while   *)
(* the service is open, and comes back once, answered if it was admitted.    *)
(***************************************************************************)
CONSTANT Call

VARIABLES
  open,    \* the service has not been stopped
  call     \* per call "idle", "admitted", "answered" or "returned" without an answer
vars == << open, call >>

Init == open = TRUE /\ call = [c \in Call |-> "idle"]

Admit(c) ==
  /\ open /\ call[c] = "idle"
  /\ call' = [call EXCEPT ![c] = "admitted"]
  /\ UNCHANGED open
Answer(c) ==
  /\ call[c] = "admitted"
  /\ call' = [call EXCEPT ![c] = "answered"]
  /\ UNCHANGED open
Return(c) ==
  /\ call[c] \in {"idle", "admitted"}
  /\ call' = [call EXCEPT ![c] = "returned"]
  /\ UNCHANGED open
Stop ==
  /\ open
  /\ open' = FALSE
  /\ UNCHANGED call

Next == Stop \/ \E c \in Call : Admit(c) \/ Answer(c) \/ Return(c)
Safety == Init /\ [][Next]_vars

\* Every call comes back.
Liveness == \A c \in Call : <>(call[c] \in {"answered", "returned"})
Spec == Safety /\ Liveness
=============================================================================
