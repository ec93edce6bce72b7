------------------------------ MODULE DailyQuota ------------------------------
(***************************************************************************)
(* What a daily quota promises, without saying how it is kept: whoever it  *)
(* meters spends one unit at a time, never past its limit, and gets the    *)
(* whole allowance back at midnight UTC, every subject at the same moment. *)
(*                                                                         *)
(* x/network keeps no such table and resets nothing at midnight: it stores *)
(* the day of the last use next to the count and rolls a counter when it   *)
(* is next used (see Network, QuotaPromise).                               *)
(***************************************************************************)
EXTENDS Integers

CONSTANTS
  Subjects,   \* what is metered
  Limit       \* [Subjects -> Nat], the daily allowance

VARIABLES
  day,        \* the current UTC day
  used        \* [Subjects -> Nat], units spent today

Init ==
  /\ day \in Nat
  /\ used = [s \in Subjects |-> 0]

Spend(s) ==
  /\ used[s] < Limit[s]
  /\ used' = [used EXCEPT ![s] = @ + 1]
  /\ UNCHANGED day

Midnight ==
  /\ day' > day
  /\ used' = [s \in Subjects |-> 0]

Next == Midnight \/ \E s \in Subjects : Spend(s)

Spec == Init /\ [][Next]_<<day, used>>
=============================================================================
