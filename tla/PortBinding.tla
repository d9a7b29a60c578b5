---------------------------- MODULE PortBinding -----------------------------
(***************************************************************************)
(* What a port-translating NAT promises: each flow that is translated is   *)
(* bound to a port of its own, keeps it until the binding ends, and a      *)
(* reply to a port finds the flow bound to it and no other.                *)
(***************************************************************************)
CONSTANTS Flow, Port, None

VARIABLES
  binding,   \* flow -> its port, or None
  owner      \* port -> the flow a reply is taken to, or None

bindingVars == <<binding, owner>>

BindingInit ==
  /\ binding = [f \in Flow |-> None]
  /\ owner = [p \in Port |-> None]

Bind(f, p) ==
  /\ binding[f] = None
  /\ \A g \in Flow : binding[g] # p
  /\ binding' = [binding EXCEPT ![f] = p]
  /\ owner' = [owner EXCEPT ![p] = f]

\* The bindings of the flows of S end, and the ports they had are free.
Unbind(S) ==
  /\ binding' = [f \in Flow |-> IF f \in S THEN None ELSE binding[f]]
  /\ owner' = [p \in Port |-> IF owner[p] \in S THEN None ELSE owner[p]]

BindingNext ==
  \/ \E f \in Flow, p \in Port : Bind(f, p)
  \/ \E S \in SUBSET Flow : Unbind(S)

BindingSpec == BindingInit /\ [][BindingNext]_bindingVars
=============================================================================
