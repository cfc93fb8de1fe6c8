-------------------------------- MODULE Api --------------------------------
(***************************************************************************)
(* The HTTP API (api/): handlers that send a command to the scheduler and  *)
(* wait for its one-shot reply, the telemetry snapshot the scheduler       *)
(* publishes, and the registry of boards.                                  *)
(*                                                                         *)
(* Handlers, scheduler and the task that collects registrations run on     *)
(* different workers, so the scheduler's steps within one command are      *)
(* separate steps here.  A snapshot is the paused flag and a count of the  *)
(* commands carried out before it was taken.                               *)
(***************************************************************************)
EXTENDS Naturals, Sequences, FiniteSets

CONSTANTS
  Requests,        \* HTTP requests
  ApiBoards,       \* board instances that come and go
  ApiCommandCap,   \* capacity of the scheduler's command channel: 16
  BoardRegCap      \* capacity of the registration channel: 10

ASSUME ApiBounds == ApiCommandCap \in Nat \ {0} /\ BoardRegCap \in Nat \ {0}

VARIABLES
  req,           \* each request: [kind, at, seen, listed]
  api_cmds,      \* requests whose command is queued
  reply,         \* their one-shot replies: "none", "ok" or "dropped"
  handled,       \* history: the count when each request's command was carried out
  api_sched,     \* the scheduler: "select", "publish", "reply" or "gone"
  serving,       \* the request whose command it is carrying out
  paused, count,
  snapshot,      \* the watch channel: [paused, count]
  board_life,    \* each board: "absent", "alive" or "gone"
  board_regs,    \* the registration channel
  api_boards,    \* BoardRegistry.boards
  api_stop       \* the shutdown token

reqVars == <<req, reply>>
apiSchedVars == <<api_cmds, handled, api_sched, serving, paused, count, snapshot>>
apiBoardVars == <<board_life, board_regs, api_boards>>
apiVars == <<reqVars, apiSchedVars, apiBoardVars, api_stop>>

(* GET /miner, of the boards or one of them, of the sources or one of      *)
(* them, and PATCH /miner.                                                 *)
Kinds == {"miner", "boards", "board", "sources", "source", "pause", "resume"}
NoRequest == [kind |-> "none", at |-> "idle", seen |-> 0, listed |-> {}]

ApiInit ==
  /\ req = [r \in Requests |-> NoRequest] /\ reply = [r \in Requests |-> "none"]
  /\ api_cmds = <<>> /\ handled = [r \in Requests |-> 0]
  /\ api_sched = "select" /\ serving = {} /\ paused = FALSE /\ count = 0
  /\ snapshot = [paused |-> FALSE, count |-> 0]
  /\ board_life = [b \in ApiBoards |-> "absent"] /\ board_regs = <<>> /\ api_boards = {}
  /\ api_stop = FALSE

-----------------------------------------------------------------------------
(***************************************************************************)
(* The handlers.                                                           *)
(***************************************************************************)
Goes(r, step) == req' = [req EXCEPT ![r].at = step]

(* A request is routed; after the shutdown none is accepted.               *)
Arrive(r, kind) ==
  /\ req[r].at = "idle" /\ ~api_stop
  /\ req' = [req EXCEPT ![r].kind = kind,
                        ![r].at = IF kind \in {"pause", "resume"} THEN "send" ELSE "read"]
  /\ UNCHANGED <<reply, apiSchedVars, apiBoardVars, api_stop>>

(* patch_miner: scheduler_cmd_tx.send.                                     *)
SendCommand(r) ==
  /\ req[r].at = "send"
  /\ \/ /\ api_sched # "gone" /\ Len(api_cmds) < ApiCommandCap
        /\ api_cmds' = Append(api_cmds, r) /\ Goes(r, "await")
     \/ api_sched = "gone" /\ Goes(r, "error") /\ UNCHANGED api_cmds
  /\ UNCHANGED <<reply, handled, api_sched, serving, paused, count, snapshot, apiBoardVars,
                 api_stop>>

(* ... and its timeout around the reply.                                   *)
GetReply(r) ==
  /\ req[r].at = "await"
  /\ \/ reply[r] = "ok" /\ Goes(r, "read")
     \/ reply[r] = "dropped" /\ Goes(r, "error")
     \/ reply[r] = "none" /\ Goes(r, "error")
  /\ UNCHANGED <<reply, apiSchedVars, apiBoardVars, api_stop>>

(* BoardRegistry::boards: those whose sender is gone are removed.          *)
Connected == {b \in api_boards : board_life[b] # "gone"}

(* miner_telemetry: the snapshot and the boards.                           *)
ReadTelemetry(r) ==
  /\ req[r].at = "read" /\ req[r].kind \in {"miner", "pause", "resume"}
  /\ req' = [req EXCEPT ![r].at = "ok", ![r].seen = snapshot.count, ![r].listed = Connected]
  /\ api_boards' = Connected
  /\ UNCHANGED <<reply, apiSchedVars, board_life, board_regs, api_stop>>

(* get_boards and get_board; the board asked for may not be there.         *)
ReadBoards(r) ==
  /\ req[r].at = "read" /\ req[r].kind \in {"boards", "board"}
  /\ \E step \in {"ok"} \cup (IF req[r].kind = "board" THEN {"missing"} ELSE {}) :
       /\ req[r].kind = "board" /\ step = "ok" => Connected # {}
       /\ req' = [req EXCEPT ![r].at = step, ![r].listed = Connected]
  /\ api_boards' = Connected
  /\ UNCHANGED <<reply, apiSchedVars, board_life, board_regs, api_stop>>

(* get_sources and get_source: the snapshot alone.                         *)
ReadSources(r) ==
  /\ req[r].at = "read" /\ req[r].kind \in {"sources", "source"}
  /\ \E step \in {"ok"} \cup (IF req[r].kind = "source" THEN {"missing"} ELSE {}) :
       req' = [req EXCEPT ![r].at = step, ![r].seen = snapshot.count]
  /\ UNCHANGED <<reply, apiSchedVars, apiBoardVars, api_stop>>

-----------------------------------------------------------------------------
(***************************************************************************)
(* The scheduler: handle_api_command, and its periodic publishing.         *)
(***************************************************************************)

(* Mutant: the reply goes out before the snapshot.                         *)
CommandSteps_reply_first == [first |-> "reply", publish |-> "select", reply |-> "publish"]

(* What follows what in a command, once the flag is set.                   *)
CommandSteps == [first |-> "publish", publish |-> "reply", reply |-> "select"]

TakeCommand ==
  /\ api_sched = "select" /\ api_cmds # <<>>
  /\ api_cmds' = Tail(api_cmds) /\ serving' = {Head(api_cmds)}
  /\ paused' = (req[Head(api_cmds)].kind = "pause")
  /\ count' = count + 1 /\ handled' = [handled EXCEPT ![Head(api_cmds)] = count']
  /\ api_sched' = CommandSteps.first
  /\ UNCHANGED <<reqVars, snapshot, apiBoardVars, api_stop>>

PublishCommand ==
  /\ api_sched = "publish" /\ api_sched' = CommandSteps.publish
  /\ snapshot' = [paused |-> paused, count |-> count]
  /\ UNCHANGED <<reqVars, api_cmds, handled, serving, paused, count, apiBoardVars, api_stop>>

(* The reply; the request may have given up on it.                         *)
ReplyToCommand ==
  /\ api_sched = "reply" /\ api_sched' = CommandSteps.reply /\ serving' = {}
  /\ reply' = [r \in Requests |-> IF r \in serving THEN "ok" ELSE reply[r]]
  /\ UNCHANGED <<req, api_cmds, handled, paused, count, snapshot, apiBoardVars, api_stop>>

TelemetryTick ==
  /\ api_sched = "select" /\ snapshot' = [paused |-> paused, count |-> count]
  /\ UNCHANGED <<reqVars, api_cmds, handled, api_sched, serving, paused, count, apiBoardVars,
                 api_stop>>

(* The scheduler ends: what is queued is dropped, with its reply senders.  *)
ApiSchedulerStops ==
  /\ api_sched = "select" /\ api_stop
  /\ api_sched' = "gone" /\ api_cmds' = <<>>
  /\ reply' = [r \in Requests |-> IF r \in {api_cmds[n] : n \in 1 .. Len(api_cmds)}
                                    THEN "dropped" ELSE reply[r]]
  /\ UNCHANGED <<req, handled, serving, paused, count, snapshot, apiBoardVars, api_stop>>

-----------------------------------------------------------------------------
(***************************************************************************)
(* Boards: the backplane registers them, a task collects them.             *)
(***************************************************************************)
RegisterBoard(b) ==
  /\ board_life[b] = "absent" /\ Len(board_regs) < BoardRegCap
  /\ board_life' = [board_life EXCEPT ![b] = "alive"] /\ board_regs' = Append(board_regs, b)
  /\ UNCHANGED <<reqVars, apiSchedVars, api_boards, api_stop>>

CollectBoard ==
  /\ board_regs # <<>> /\ board_regs' = Tail(board_regs)
  /\ api_boards' = api_boards \cup {Head(board_regs)}
  /\ UNCHANGED <<reqVars, apiSchedVars, board_life, api_stop>>

BoardGone(b) ==
  /\ board_life[b] = "alive" /\ board_life' = [board_life EXCEPT ![b] = "gone"]
  /\ UNCHANGED <<reqVars, apiSchedVars, board_regs, api_boards, api_stop>>

ApiStop ==
  /\ ~api_stop /\ api_stop' = TRUE
  /\ UNCHANGED <<reqVars, apiSchedVars, apiBoardVars>>

ApiNext ==
  \/ \E r \in Requests :
       \/ \E kind \in Kinds : Arrive(r, kind)
       \/ SendCommand(r)
       \/ GetReply(r)
       \/ ReadTelemetry(r)
       \/ ReadBoards(r)
       \/ ReadSources(r)
  \/ TakeCommand
  \/ PublishCommand
  \/ ReplyToCommand
  \/ TelemetryTick
  \/ ApiSchedulerStops
  \/ \E b \in ApiBoards : RegisterBoard(b) \/ BoardGone(b)
  \/ CollectBoard
  \/ ApiStop

ApiSpec == ApiInit /\ [][ApiNext]_apiVars

-----------------------------------------------------------------------------
(* "Publishes an updated state snapshot before replying so the API         *)
(* handler's subsequent borrow() sees the new value": a PATCH that is      *)
(* answered OK was carried out and answers with a snapshot that is not     *)
(* older than that, whatever other requests, the periodic publishing       *)
(* and timeouts come in between.                                           *)
PatchSeesItsCommand ==
  \A r \in Requests :
    req[r].kind \in {"pause", "resume"} /\ req[r].at = "ok" =>
      handled[r] # 0 /\ req[r].seen >= handled[r]
=============================================================================
