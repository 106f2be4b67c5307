--------------------------- MODULE ExclusiveRuntime ---------------------------
(***************************************************************************)
(* What the claims of the server registry promise, whatever handlers,       *)
(* replicas and webhooks run: a server's containers are created and        *)
(* destroyed only by the one request that holds the server's lock.  A      *)
(* holder that dies or gives up leaves the lock closed: nothing reopens a  *)
(* server that was left half done.                                         *)
(***************************************************************************)
CONSTANTS Servers, Nodes, Procs

VARIABLES
  locked,   \* the servers that some request has claimed
  holder,   \* the requests working under the claim of each server
  present   \* the <<node, server>> pairs with a container

vars == <<locked, holder, present>>

Init ==
  /\ locked = {}
  /\ holder = [s \in Servers |-> {}]
  /\ present = {}

Acquire(p, s) ==
  /\ s \notin locked
  /\ locked' = locked \cup {s}
  /\ holder' = [holder EXCEPT ![s] = {p}]
  /\ UNCHANGED present

\* Only the containers of s may come or go.
TouchOnly(s) ==
  present' \subseteq Nodes \X Servers
  /\ \A n \in Nodes, t \in Servers \ {s} :
       <<n, t>> \in present' <=> <<n, t>> \in present

Work(p, s) ==
  /\ holder[s] = {p}
  /\ TouchOnly(s)
  /\ UNCHANGED <<locked, holder>>

Release(p, s) ==
  /\ holder[s] = {p}
  /\ locked' = locked \ {s}
  /\ holder' = [holder EXCEPT ![s] = {}]
  /\ UNCHANGED present

Abandon(p, s) ==
  /\ holder[s] = {p}
  /\ holder' = [holder EXCEPT ![s] = {}]
  /\ TouchOnly(s)
  /\ UNCHANGED locked

Next ==
  \E p \in Procs, s \in Servers :
    Acquire(p, s) \/ Work(p, s) \/ Release(p, s) \/ Abandon(p, s)

Spec == Init /\ [][Next]_vars

=============================================================================
