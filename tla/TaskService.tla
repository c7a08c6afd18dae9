---------------------------- MODULE TaskService ----------------------------
(***************************************************************************)
(* What the task layer promises to whoever submits a task, without queue,  *)
(* locks, retries, workspaces or restarts: a task is run at most once, a   *)
(* conversation runs one task at a time, a task completes only from its    *)
(* run and only when its files are in the project, and completed, failed   *)
(* and cancelled are final. A step may move several tasks: a freed slot    *)
(* starts others, and a restart touches every unfinished row.              *)
(***************************************************************************)
CONSTANT Tasks

VARIABLES
  status,   (* TaskStatus of each task; "absent" before it is submitted    *)
  chat,     (* its conversation                                            *)
  busy,     (* tasks a run is working on, or still unwinding from          *)
  landed    (* its files are in the project                                *)

svars == <<status, chat, busy, landed>>

\* The lifecycle of a row. "blocked" waits for a continuation or a stop.
Moves(s) ==
  CASE s = "absent"    -> {"pending", "executing", "failed"}
    [] s = "pending"   -> {"executing", "paused", "blocked", "failed", "cancelled"}
    [] s = "executing" -> {"paused", "blocked", "failed", "cancelled", "completed"}
    [] s = "paused"    -> {"blocked", "failed", "cancelled"}
    [] s = "blocked"   -> {"cancelled"}
    [] OTHER           -> {}

Advance(t) ==
  /\ status'[t] = status[t] \/ status'[t] \in Moves(status[t])
  /\ status'[t] = "completed" => landed'[t]
  /\ landed[t] => landed'[t]
  /\ status[t] # "absent" => chat'[t] = chat[t]

\* A run begins on a task that never ran, in a conversation that runs nothing.
Begin(t) ==
  /\ status[t] \in {"absent", "pending"} /\ status'[t] = "executing"
  /\ \A u \in busy' \ {t} : chat'[u] # chat'[t]

ServiceInit ==
  /\ \A t \in Tasks : status[t] = "absent" /\ ~landed[t]
  /\ busy = {}

ServiceNext ==
  /\ \A t \in Tasks : Advance(t)
  /\ \A t \in busy' \ busy : Begin(t)
  \* Only a run makes a row executing; the process may die as it begins.
  /\ \A t \in Tasks : status[t] \in {"absent", "pending"} /\ status'[t] = "executing"
                        => t \in busy' \/ busy' = {}

ServiceSpec == ServiceInit /\ [][ServiceNext]_svars
=============================================================================
