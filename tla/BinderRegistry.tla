---------------------------- MODULE BinderRegistry ----------------------------
(***************************************************************************)
(* What the constraint builder promises about ids, without the mechanism.  *)
(* A name gets an id once, when it is promised or, if it never was, when   *)
(* it is bound; the id is new and stays with the name.  Constraints        *)
(* mention the ids of names that have one.  The query is written only when *)
(* every name with an id is bound, and so declares all that it mentions.   *)
(* After an error nothing is promised.                                     *)
(***************************************************************************)
EXTENDS Naturals

CONSTANT Name

VARIABLES
    id,         \* the id of each name, 0 if it has none
    bound,      \* the names whose binder has been created
    mentioned,  \* the ids in the environments of constraints
    outcome     \* "open", "error" or "emitted"

vars == <<id, bound, mentioned, outcome>>

Init ==
    /\ id = [n \in Name |-> 0]
    /\ bound = {}
    /\ mentioned = {}
    /\ outcome = "open"

Known == {id[n] : n \in Name} \ {0}

\* n has an id from now on: the one it had, or one no name has.
Identify(n) ==
    /\ id' = [id EXCEPT ![n] = id'[n]]
    /\ IF id[n] = 0 THEN id'[n] \in Nat \ (Known \cup {0}) ELSE id'[n] = id[n]

\* Ids of names that have one are added to those mentioned.
Mention == mentioned \subseteq mentioned' /\ mentioned' \subseteq mentioned \cup Known

Promise(n) ==
    /\ id[n] = 0
    /\ Identify(n)
    /\ UNCHANGED <<bound, mentioned, outcome>>

Bind(n) ==
    /\ n \notin bound
    /\ Identify(n)
    /\ bound' = bound \cup {n}
    /\ Mention
    /\ UNCHANGED outcome

Constrain ==
    /\ Mention
    /\ UNCHANGED <<id, bound, outcome>>

Emit ==
    /\ \A n \in Name : id[n] # 0 => n \in bound
    /\ outcome' = "emitted"
    /\ UNCHANGED <<id, bound, mentioned>>

Fail == outcome' = "error"

Next ==
    /\ outcome = "open"
    /\ \/ \E n \in Name : Promise(n) \/ Bind(n)
       \/ Constrain
       \/ Emit
       \/ Fail

Spec == Init /\ [][Next]_vars
================================================================================
