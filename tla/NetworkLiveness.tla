--------------------------- MODULE NetworkLiveness ---------------------------
(***************************************************************************)
(* What x/network owes its users sooner or later, on a chain whose blocks  *)
(* keep coming.                                                            *)
(*                                                                         *)
(* Network's clock stops at MaxTime.  Here the days do not end: at MaxTime *)
(* the frame of reference moves along with the chain, one day at a time,   *)
(* so the clock reads a day less and everything recorded is a day older.   *)
(* The code compares recorded times with the current day, the day before   *)
(* and the key window only, so the age of what lies further back is not    *)
(* kept.                                                                   *)
(***************************************************************************)
EXTENDS NetworkProperties

(* Day 0 is neither today nor yesterday, and time 0 is outside the window. *)
ASSUME FrameAssumption ==
  /\ MaxTime >= 3 * DayLength - 1
  /\ \A p \in ParamChoices \cup {GenesisParams} :
       p.RecentKeyWindow <= MaxTime + 1 - DayLength

Earlier(t, span) == IF t > span THEN t - span ELSE 0

(* Of a counter only whether its day is the current one matters.           *)
Aged(counters) == [c \in DOMAIN counters |-> [counters[c] EXCEPT !.day = 0]]

FrameMoves ==
  /\ now = MaxTime
  /\ now' = now + 1 - DayLength
  /\ activationKeys' = [k \in DOMAIN activationKeys |->
       [activationKeys[k] EXCEPT !.createdAt = Earlier(@, DayLength)]]
  /\ nodes' = [n \in DOMAIN nodes |->
       [nodes[n] EXCEPT !.lastActiveDay = Earlier(@, 1)]]
  /\ recentNodeActivity' =
       {<<e[1], e[2], Earlier(e[3], 1), e[4]>> : e \in recentNodeActivity}
  /\ nodeStatusCounters' = Aged(nodeStatusCounters)
  /\ gaslessCounters' = Aged(gaslessCounters)
  /\ UNCHANGED <<params, registryVars, operatorActivationKeys, operatorNodes,
                 operatorNodeCounts, operators, accounts, bankVars,
                 licenses, licenseTypes, grants>>

TimePasses == AdvanceTime \/ FrameMoves

LiveNext == Next \/ FrameMoves

-----------------------------------------------------------------------------
(* Fairness.  Consensus keeps producing blocks, whose time moves on.  An   *)
(* operator without a license keeps sending free deactivations of nodes it *)
(* still runs, whenever its quota admits one, until they get through: its  *)
(* attempts may fail and burn the day's quota, so the action is not        *)
(* continuously enabled and needs strong fairness.  Nothing else is fair:  *)
(* no other transaction, heartbeat, issuance or proposal need ever come.   *)

ActiveFleet(op) == {n \in DOMAIN nodes : nodes[n].operator = op /\ nodes[n].status = "active"}

Unlicensed(op) == \A lt \in LicenseTypeIds : licenses[op][lt] = 0

WindsDown(op) ==
  /\ Unlicensed(op)
  /\ \E node \in ActiveFleet(op) : GaslessDeactivate(op, node, TRUE)

Fairness ==
  /\ WF_vars(TimePasses)
  /\ \A op \in Operators : SF_vars(WindsDown(op))

LiveSpec == Init /\ [][LiveNext]_vars /\ Fairness

-----------------------------------------------------------------------------

(* "Not license-gated: winding down a fleet must stay possible after       *)
(* revocation" (admission.go): an operator whose licenses are gone for     *)
(* good and who never pays a fee gets its whole fleet deactivated, over as *)
(* many days as its daily quota takes.                                     *)
FleetWindsDown ==
  \A op \in Operators : <>[]Unlicensed(op) => <>[](ActiveFleet(op) = {})

(* A refusal that only meters the rate of change is not for good.  The     *)
(* churn limit, which counts deactivated nodes as well, does not keep an   *)
(* operator from activating while its active nodes are fewer than its      *)
(* licenses allow; and the limit on recently created keys lets go.         *)
ChurnRefused(op, type) ==
  /\ type \in DOMAIN nodeTypes
  /\ LET counts == NodeCounts(op, type)
         held   == BackingLicenses(op, type)
     IN  /\ counts.active < Times(params.ActivationLimitMultiplier, held)
         /\ BoundedVerdict(params, counts.total, counts.active,
                           Cardinality(RecentEntries(op, type)), held) # "Allow"

KeyRefused(op) == Cardinality(RecentKeysOf(op)) >= params.RecentKeyLimit

RefusalsExpire ==
  \A op \in Operators :
    /\ []<>~KeyRefused(op)
    /\ \A type \in NodeTypeIds : []<>~ChurnRefused(op, type)
=============================================================================
