------------------------------ MODULE BusinessApi ------------------------------
(***************************************************************************)
(* Two kinds of requests the business API serves concurrently                *)
(* (core/internal/businessapi): those that draw on the pools of API keys, and  *)
(* mail sent by hand. No table is shared between the two, so that a behaviour  *)
(* is of one kind; within it, requests interleave statement by statement.     *)
(***************************************************************************)
EXTENDS OutboundSend, Allocation

VARIABLE kind

ASSUME SendsAssumption == AdminSends \cap PortalSends = {}
ASSUME BoundsAssumption == MaxFaults \in Nat /\ MaxChanges \in Nat

apiVars == <<kind, poolVars, vars>>

\* Of the other kind nothing happens, so that one pool will do.
ApiInit ==
  /\ kind \in {"allocations", "sending"}
  /\ Init
  /\ PoolInit
  /\ kind = "sending" => /\ usage = CHOOSE used \in InUse : TRUE
                         /\ active = {}
                         /\ domainOf = CHOOSE domains \in Pools : TRUE

ApiNext ==
  /\ UNCHANGED kind
  /\ \/ kind = "allocations" /\ PoolNext /\ UNCHANGED vars
     \/ kind = "sending" /\ Next /\ UNCHANGED poolVars

\* Checked of it: NextCallDiffers, SavedIsOccupied and SomeoneMoves of Allocation,
\* PendingHasReason and MailIsAccounted of OutboundSend.
ApiSpec == ApiInit /\ [][ApiNext]_apiVars
=============================================================================
