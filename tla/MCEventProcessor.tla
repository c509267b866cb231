-------------------------- MODULE MCEventProcessor --------------------------
(* Instances of EventProcessor for TLC. *)
EXTENDS EventProcessor, TLC

CONSTANTS e1, e2, e3, r1, r2, w1

MCEvents == {e1, e2, e3}
MCInvalid == {e3}
MCRules == {r1, r2}
MCWorkflows == {w1}

Act(retries, broken) == [retries |-> retries, broken |-> broken]

Rule(enabled, matches, actions) ==
  [enabled |-> enabled, matches |-> matches, actions |-> actions]

(* Two actions, the first of which is retried; one whose configuration     *)
(* panics, for one of the events; a disabled one; a workflow.              *)
Retried == Rule(TRUE, MCEvents, <<Act(2, FALSE), Act(0, FALSE)>>)
Broken == Rule(TRUE, {e2}, <<Act(0, TRUE)>>)
Disabled == Rule(FALSE, MCEvents, <<Act(0, FALSE)>>)
Plain == Rule(TRUE, MCEvents, <<Act(0, FALSE)>>)

MCDefinitions == {Retried, Broken, Disabled, Plain}

MCPreloaded == r1 :> Retried @@ r2 :> Broken @@ w1 :> Plain

(* The test's batch: valid events, no rules. *)
NoRules == [id \in Ids |-> Nil]
=============================================================================
