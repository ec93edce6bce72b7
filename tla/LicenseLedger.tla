---------------------------- MODULE LicenseLedger ----------------------------
(***************************************************************************)
(* What x/license promises the modules that read it: how many licenses of  *)
(* a type each holder holds, with the total of a type kept within a cap    *)
(* fixed when the type is created.  No ids, counters or indexes.           *)
(***************************************************************************)
EXTENDS Integers, FiniteSets

CONSTANTS
  Types, Holders

VARIABLES
  cap,    \* type |-> cap on its total, 0 for none; absent until created
  held    \* [Types -> [Holders -> Nat]]

(* The holdings of one type, summed: as many as there are units to hold.   *)
Total(holdings) == Cardinality(UNION {{h} \X (1 .. holdings[h]) : h \in Holders})

Init ==
  /\ DOMAIN cap \subseteq Types
  /\ held = [t \in Types |-> [h \in Holders |-> 0]]

Create ==
  /\ \E t \in Types \ DOMAIN cap :
       /\ DOMAIN cap' = DOMAIN cap \cup {t}
       /\ cap'[t] >= 0
       /\ \A u \in DOMAIN cap : cap'[u] = cap[u]
  /\ UNCHANGED held

(* Holdings grow; every type that gains exists and ends within its cap.    *)
Issue ==
  /\ \A t \in Types, h \in Holders : held'[t][h] >= held[t][h]
  /\ \A t \in Types : held'[t] # held[t] =>
       t \in DOMAIN cap /\ (cap[t] = 0 \/ Total(held'[t]) <= cap[t])
  /\ UNCHANGED cap

(* One holder loses licenses of one type.                                  *)
Revoke ==
  /\ \E t \in Types, h \in Holders :
       /\ held'[t][h] < held[t][h]
       /\ held' = [held EXCEPT ![t][h] = held'[t][h]]
  /\ UNCHANGED cap

Next == Create \/ Issue \/ Revoke

Spec == Init /\ [][Next]_<<cap, held>>
=============================================================================
