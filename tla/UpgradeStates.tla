---------------------------- MODULE UpgradeStates ----------------------------
(***************************************************************************)
(* The state machine of a cluster upgrade, as stateutils defines it: the    *)
(* ordered table of transitions that answers an upgrader's check-in with    *)
(* the next state of the process and the workflow to execute.               *)
(*                                                                         *)
(* The stages of a workflow that the table treats alike are one stage here: *)
(* "prepare" and "prepareRollback" stand for all stages before the          *)
(* pre-flight checks and before the rollback's execution.                   *)
(***************************************************************************)
EXTENDS Integers, Sequences

TerminalStates ==
    {"COMPLETE", "INITIALIZATION_ERROR", "PRE_FLIGHT_FAILED", "ROLLED_BACK",
     "ROLLBACK_FAILED", "ERROR_UNKNOWN", "TIMED_OUT"}
BeforeLaunch == {"INITIALIZING", "LAUNCHING"}  \* below UPGRADER_LAUNCHED in the enum
RunningStates ==
    BeforeLaunch \cup {"LAUNCHED", "PRE_FLIGHT_COMPLETE", "OPERATIONS_DONE", "ROLLING_BACK"}
UpgradeState == RunningStates \cup TerminalStates

ProcessTypes == {"UPGRADE", "CERT_ROTATION"}

\* The workflow "none" is the empty one of an upgrader that has just started.
Workflows ==
    [w \in {"none", "roll-forward", "roll-back", "cleanup"} |->
        CASE w = "roll-forward" -> <<"prepare", "preflight", "execute">>
          [] w = "roll-back" -> <<"prepareRollback", "execute">>
          [] w = "cleanup" -> <<"cleanup">>
          [] OTHER -> <<>>]
Stages == {"none", "prepare", "preflight", "execute", "prepareRollback", "cleanup"}

\* MostRecentStage of a runner that has run n stages of workflow w.
StageOf(w, n) == IF n = 0 THEN "none" ELSE Workflows[w][n]

Any == [state : UpgradeState, workflow : DOMAIN Workflows, stage : Stages, err : BOOLEAN,
        type : ProcessTypes]

\* A transitioner: it matches the requests in the set "match".  Of the requests, field f
\* is in S; the others are arbitrary.
When(f, S) == {r \in Any : r[f] \in S}
On(w, stages, err) ==
    When("workflow", {w}) \cap When("stage", stages) \cap When("err", {err})
To(match, next, execute) == [match |-> match, next |-> next, execute |-> execute]
Same == "no state change"

\* allTransitions: the first match wins.
AllTransitions == <<
    To(When("state", TerminalStates), Same, "cleanup"),
    To(When("workflow", {"none"}) \cap When("state", RunningStates \ {"ROLLING_BACK"}),
       "LAUNCHED", "roll-forward"),
    To(When("workflow", {"none"}) \cap When("state", {"ROLLING_BACK"}), "ROLLING_BACK", "roll-back"),
    To(On("roll-forward", {"prepare"}, FALSE), "LAUNCHED", "roll-forward"),
    To(On("roll-forward", {"prepare"}, TRUE), "INITIALIZATION_ERROR", "cleanup"),
    To(On("roll-forward", {"preflight"}, FALSE), "PRE_FLIGHT_COMPLETE", "roll-forward"),
    To(On("roll-forward", {"preflight"}, TRUE), "PRE_FLIGHT_FAILED", "cleanup"),
    To(On("roll-forward", {"execute"}, FALSE) \cap When("type", {"UPGRADE"}),
       "OPERATIONS_DONE", "roll-forward"),
    To(On("roll-forward", {"execute"}, FALSE) \cap When("type", {"CERT_ROTATION"}),
       "COMPLETE", "cleanup"),
    To(On("roll-forward", {"execute"}, TRUE), "ROLLING_BACK", "roll-back"),
    To(On("roll-back", {"prepareRollback"}, FALSE), "ROLLING_BACK", "roll-back"),
    To(On("roll-back", {"execute"}, FALSE) \cap When("type", {"UPGRADE"}),
       "ROLLING_BACK", "cleanup"),
    To(On("roll-back", {"execute"}, FALSE) \cap When("type", {"CERT_ROTATION"}),
       "ROLLED_BACK", "cleanup"),
    To(When("workflow", {"roll-back"}) \cap When("err", {TRUE}), "ROLLBACK_FAILED", "cleanup"),
    To(When("workflow", {"cleanup"}) \cap When("state", {"ROLLING_BACK"}), Same, "cleanup")
>>

Matching(r) == {i \in DOMAIN AllTransitions : r \in AllTransitions[i].match}
FirstMatch(r) == CHOOSE i \in Matching(r) : \A j \in Matching(r) : i <= j

\* DetermineNextStateAndWorkflowForUpgrader.
NextState(r) ==
    IF Matching(r) = {} \/ AllTransitions[FirstMatch(r)].next = Same
    THEN r.state
    ELSE AllTransitions[FirstMatch(r)].next

WorkflowToExecute(r) ==
    IF Matching(r) = {} THEN "cleanup" ELSE AllTransitions[FirstMatch(r)].execute
=============================================================================
