----------------------------- MODULE Decisions -----------------------------
(***************************************************************************)
(* What a command line asks of the workbench about a project: a decision   *)
(* of the user, which the registry keeps, a run of commands the project    *)
(* defines, or a use of its source.  Every definition has commands of each *)
(* kind.                                                                   *)
(***************************************************************************)
CONSTANTS
  Project,
  Definition,     \* the contents .omarchy-workbench.json can have
  Capability,
  Absent,         \* there is no definition file
  Unregistered,   \* there is no entry
  NoJob,          \* a process that has nothing to do
  Op              \* the commands the user gives

Decides == {"add", "add-trusting", "remove", "refresh", "trust", "untrust",
            "approve", "revoke"}
Runs == {"check", "workflow"}
Uses == {"link", "undeploy", "test-start", "test-stop"}

ASSUME OpAssumption == Op \subseteq Decides \cup Runs \cup Uses

Content == Definition \cup {Absent}

\* caps: the one to approve or revoke, or all that a workflow needs.
Job == {j \in [op : Op, project : Project, caps : SUBSET Capability] :
          /\ j.op \in {"approve", "revoke"} => \E c \in Capability : j.caps = {c}
          /\ j.op = "workflow" => j.caps # {}
          /\ j.caps # {} => j.op \in {"approve", "revoke", "workflow"}}

ASSUME NoJobAssumption == NoJob \notin Job
=============================================================================
