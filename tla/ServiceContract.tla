-------------------------- MODULE ServiceContract --------------------------
(***************************************************************************)
(* What onboarding promises of each tenant, whatever the attempts, crashes *)
(* and failures of the pipeline: one config version is in force, versions  *)
(* follow each other one at a time and none is withdrawn, and the tenant   *)
(* is opened once, after it has a config.  Lead capture rests on it: its   *)
(* tenantReady rises once and never falls.                                 *)
(***************************************************************************)
EXTENDS Naturals

CONSTANT Tenants

VARIABLES
  inForce, \* the version leads are captured with, 0 before the first
  open     \* tenants that are ACTIVE
vars == <<inForce, open>>

Init ==
  /\ inForce = [t \in Tenants |-> 0]
  /\ open = {}

Replace(t) ==
  /\ inForce' = [inForce EXCEPT ![t] = @ + 1]
  /\ UNCHANGED open

Open(t) ==
  /\ inForce[t] > 0
  /\ t \notin open
  /\ open' = open \cup {t}
  /\ UNCHANGED inForce

Next == \E t \in Tenants : Replace(t) \/ Open(t)
Spec == Init /\ [][Next]_vars

=============================================================================
