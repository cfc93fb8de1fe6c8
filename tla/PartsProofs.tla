---------------------------- MODULE PartsProofs ----------------------------
(***************************************************************************)
(* Machine-checked proofs about the parts that work beside scheduler,      *)
(* boards and pool connection: the suggested difficulty (Suggestion), the  *)
(* HTTP API (Api), the sensors (Sensors) and the regulator, its status     *)
(* check and its configuration (Regulator).  They share no state; each has *)
(* inductive invariants and theorems of its own.                           *)
(***************************************************************************)
EXTENDS Suggestion, Api, Sensors, Regulator, WellFoundedInduction, TLAPS

-----------------------------------------------------------------------------
(***************************************************************************)
(* The suggested difficulty.  A cooldown that runs ends one interval after *)
(* the last suggestion; without one that interval has passed.              *)
(***************************************************************************)
SuggestTypes ==
  /\ now \in Nat /\ expected_hashrate \in Nat /\ too_soon = FALSE
  /\ last_suggested = <<>> \/ \E d \in Nat : last_suggested = <<d>>

CooldownFollowsSending ==
  \/ cooldown_until = <<>> /\ sent_at = <<>>
  \/ \E t \in Nat : sent_at = <<t>> /\
       \/ cooldown_until = <<t + SUGGEST_MIN_INTERVAL>>
       \/ cooldown_until = <<>> /\ now >= t + SUGGEST_MIN_INTERVAL

SuggestInv == SuggestTypes /\ CooldownFollowsSending /\ FloorFollowsHashrate

(* What is computed is nothing, or a positive difficulty.                  *)
LEMMA SuggestedDifficulty ==
  ASSUME NEW rate \in Nat
  PROVE  \/ rate = 0 /\ compute_suggested_difficulty(rate) = <<>>
         \/ \E d \in Nat \ {0} : compute_suggested_difficulty(rate) = <<d>>
<1>1. CASE rate = 0
  BY <1>1 DEF compute_suggested_difficulty
<1>2. CASE rate # 0
  <2>1. rate * SUGGESTED_SHARE_RATE \in Nat \ {0}
    BY <1>2, SuggestionBounds
  <2> QED
    BY <1>2, <2>1 DEF compute_suggested_difficulty
<1> QED
  BY <1>1, <1>2

(* A difficulty is within the deadband of itself.                          *)
LEMMA NoChangeFromItself ==
  ASSUME NEW rate \in Nat
  PROVE  LET diff == compute_suggested_difficulty(rate)
         IN ~(diff # <<>> /\ is_material_change(diff[1], diff))
<1>1. CASE compute_suggested_difficulty(rate) = <<>>
  BY <1>1
<1>2. ASSUME NEW d \in Nat \ {0}, compute_suggested_difficulty(rate) = <<d>>
      PROVE  ~is_material_change(d, <<d>>)
  BY DEF is_material_change
<1> QED
  BY <1>1, <1>2, SuggestedDifficulty

(* A suggestion that no cooldown holds back.                               *)
LEMMA SendingKeepsInvariant ==
  ASSUME SuggestInv, NEW rate \in Nat, expected_hashrate' = rate, now' = now,
         compute_suggested_difficulty(rate) # <<>>, ~in_cooldown,
         send_suggest(compute_suggested_difficulty(rate))
  PROVE  SuggestInv'
<1>1. PICK d \in Nat \ {0} : compute_suggested_difficulty(rate) = <<d>>
  BY SuggestedDifficulty
<1>2. /\ last_suggested' = <<d>> /\ cooldown_until' = <<now + SUGGEST_MIN_INTERVAL>>
      /\ sent_at' = <<now>>
  BY <1>1 DEF send_suggest
<1>3. sent_at = <<>> \/ ~(now < sent_at[1] + SUGGEST_MIN_INTERVAL)
  <2>1. CASE sent_at = <<>>
    BY <2>1
  <2>2. ASSUME NEW t \in Nat, sent_at = <<t>>, cooldown_until = <<t + SUGGEST_MIN_INTERVAL>>
        PROVE  ~(now < sent_at[1] + SUGGEST_MIN_INTERVAL)
    BY <2>2 DEF in_cooldown
  <2>3. ASSUME NEW t \in Nat, sent_at = <<t>>, now >= t + SUGGEST_MIN_INTERVAL
        PROVE  ~(now < sent_at[1] + SUGGEST_MIN_INTERVAL)
    BY <2>3, SuggestionBounds DEF SuggestInv, SuggestTypes
  <2> QED
    BY <2>1, <2>2, <2>3 DEF SuggestInv, CooldownFollowsSending
<1>4. too_soon' = FALSE
  BY <1>3 DEF SuggestInv, SuggestTypes, send_suggest
<1>5. SuggestTypes'
  BY <1>2, <1>4 DEF SuggestInv, SuggestTypes
<1>6. CooldownFollowsSending'
  BY <1>2, SuggestionBounds DEF SuggestInv, SuggestTypes, CooldownFollowsSending
<1>7. FloorFollowsHashrate'
  BY <1>2, <1>4 DEF FloorFollowsHashrate
<1> QED
  BY <1>5, <1>6, <1>7 DEF SuggestInv

(* Every behaviour of Suggestion keeps cooldown, history and floor         *)
(* together.                                                               *)
THEOREM SuggestInvariant == SuggestSpec => []SuggestInv
<1>1. SuggestInit => SuggestInv
  BY DEF SuggestInit, SuggestInv, SuggestTypes, CooldownFollowsSending, FloorFollowsHashrate
<1>2. SuggestInv /\ [SuggestNext]_suggestVars => SuggestInv'
  <2> SUFFICES ASSUME SuggestInv, [SuggestNext]_suggestVars PROVE SuggestInv'
    OBVIOUS
  <2> USE SuggestionBounds
  <2>1. CASE ConnectPool
    <3>1. SuggestTypes'
      BY <2>1, SuggestedDifficulty DEF ConnectPool, SuggestInv, SuggestTypes
    <3>2. CooldownFollowsSending'
      BY <2>1 DEF ConnectPool, CooldownFollowsSending
    <3>3. PICK rate \in Nat : rate = expected_hashrate
      BY DEF SuggestInv, SuggestTypes
    <3>4. last_suggested' = compute_suggested_difficulty(rate) /\ expected_hashrate' = rate
      BY <2>1, <3>3 DEF ConnectPool
    <3>5. ~Worthwhile(expected_hashrate)'
      BY <3>4, NoChangeFromItself DEF Worthwhile
    <3> QED
      BY <3>1, <3>2, <3>5 DEF SuggestInv, SuggestTypes, FloorFollowsHashrate
  <2>2. CASE LosePool
    BY <2>2 DEF LosePool, SuggestInv, SuggestTypes, CooldownFollowsSending, FloorFollowsHashrate
  <2>3. ASSUME NEW r \in Hashrates, HearHashRate(r) PROVE SuggestInv'
    BY <2>3 DEF HearHashRate, SuggestInv, SuggestTypes, CooldownFollowsSending,
                FloorFollowsHashrate
  <2>4. ASSUME NEW r \in Hashrates, UpdateHashRate(r) PROVE SuggestInv'
    <3>1. CASE Worthwhile(r) /\ ~in_cooldown
      BY <2>4, <3>1, SendingKeepsInvariant DEF UpdateHashRate, Worthwhile
    <3>2. CASE ~(Worthwhile(r) /\ ~in_cooldown)
      <4>1. UNCHANGED <<now, last_suggested, cooldown_until, sent_at, too_soon>>
        BY <2>4, <3>2 DEF UpdateHashRate
      <4>2. cooldown_until = <<>> => ~Worthwhile(expected_hashrate)'
        BY <2>4, <3>2, <4>1 DEF UpdateHashRate, in_cooldown, Worthwhile
      <4>3. FloorFollowsHashrate'
        BY <4>1, <4>2 DEF SuggestInv, FloorFollowsHashrate
      <4> QED
        BY <2>4, <4>1, <4>3 DEF UpdateHashRate, SuggestInv, SuggestTypes, CooldownFollowsSending
    <3> QED
      BY <3>1, <3>2
  <2>5. CASE FlushSuggest
    <3>1. CASE Worthwhile(expected_hashrate)
      <4>1. PICK rate \in Nat : rate = expected_hashrate
        BY DEF SuggestInv, SuggestTypes
      <4>2. expected_hashrate' = rate /\ now' = now
            /\ send_suggest(compute_suggested_difficulty(rate))
        BY <2>5, <3>1, <4>1 DEF FlushSuggest
      <4>3. compute_suggested_difficulty(rate) # <<>>
        BY <3>1, <4>1 DEF Worthwhile
      <4>4. ~in_cooldown
        BY <2>5, SuggestionBounds
           DEF FlushSuggest, in_cooldown, SuggestInv, SuggestTypes, CooldownFollowsSending
      <4> QED
        BY <4>2, <4>3, <4>4, SendingKeepsInvariant
    <3>2. CASE ~Worthwhile(expected_hashrate)
      <4>1. /\ UNCHANGED <<now, expected_hashrate, last_suggested, sent_at, too_soon>>
            /\ cooldown_until' = <<>> /\ cooldown_until # <<>> /\ now >= cooldown_until[1]
        BY <2>5, <3>2 DEF FlushSuggest
      <4>2. ~Worthwhile(expected_hashrate)'
        BY <3>2, <4>1 DEF Worthwhile
      <4>3. CooldownFollowsSending'
        BY <4>1 DEF SuggestInv, CooldownFollowsSending
      <4> QED
        BY <4>1, <4>2, <4>3 DEF SuggestInv, SuggestTypes, FloorFollowsHashrate
    <3> QED
      BY <3>1, <3>2
  <2>6. CASE PassTime
    BY <2>6 DEF PassTime, SuggestInv, SuggestTypes, CooldownFollowsSending,
                FloorFollowsHashrate, Worthwhile
  <2>7. CASE UNCHANGED suggestVars
    BY <2>7 DEF suggestVars, SuggestInv, SuggestTypes, CooldownFollowsSending,
                FloorFollowsHashrate, Worthwhile
  <2> QED
    BY <2>1, <2>2, <2>3, <2>4, <2>5, <2>6, <2>7 DEF SuggestNext
<1> QED
  BY <1>1, <1>2, PTL DEF SuggestSpec

(* For every interval, share rate and set of hashrates: without a running  *)
(* cooldown the pool's floor fits the hashrate that maybe_suggest_difficulty *)
(* and flush_suggest were told, and no suggestion follows another within   *)
(* SUGGEST_MIN_INTERVAL.                                                   *)
THEOREM FloorFollowsHashrateCorrect == SuggestSpec => []FloorFollowsHashrate
BY SuggestInvariant, PTL DEF SuggestInv

-----------------------------------------------------------------------------
(***************************************************************************)
(* The HTTP API.  A command is carried out at most once, because its       *)
(* request is queued at most once and leaves the queue when it is; a reply *)
(* is sent only when the snapshot has caught up with it.                   *)
(***************************************************************************)
RequestStates ==
  [kind : Kinds \cup {"none"},
   at : {"idle", "send", "await", "read", "ok", "error", "missing"},
   seen : Nat, listed : SUBSET ApiBoards]

ApiTypes ==
  /\ req \in [Requests -> RequestStates] /\ reply \in [Requests -> {"none", "ok", "dropped"}]
  /\ api_cmds \in Seq(Requests) /\ handled \in [Requests -> Nat] /\ count \in Nat
  /\ snapshot \in [paused : BOOLEAN, count : Nat] /\ paused \in BOOLEAN
  /\ board_regs \in Seq(ApiBoards) /\ api_boards \subseteq ApiBoards

CommandInHand ==
  /\ api_sched \in {"select", "publish", "reply", "gone"}
  /\ IF api_sched \in {"publish", "reply"}
       THEN \E r \in Requests : serving = {r} /\ handled[r] = count /\ count # 0
       ELSE serving = {}

SnapshotsLag ==
  /\ snapshot.count <= count /\ \A r \in Requests : handled[r] <= count
  /\ api_sched = "reply" => snapshot.count = count

QueuedOnce ==
  /\ \A m, n \in 1 .. Len(api_cmds) : m # n => api_cmds[m] # api_cmds[n]
  /\ \A n \in 1 .. Len(api_cmds) :
       handled[api_cmds[n]] = 0 /\ req[api_cmds[n]].at \in {"await", "error"}
  /\ \A r \in Requests : req[r].at \in {"idle", "send"} => handled[r] = 0

RepliesTrue ==
  /\ \A r \in Requests : reply[r] = "ok" => handled[r] # 0 /\ handled[r] <= snapshot.count
  /\ \A r \in Requests :
       req[r].kind \in {"pause", "resume"} /\ req[r].at = "read" => reply[r] = "ok"

ApiInv ==
  ApiTypes /\ CommandInHand /\ SnapshotsLag /\ QueuedOnce /\ RepliesTrue /\ PatchSeesItsCommand

LEMMA CommandQueued ==
  ASSUME NEW S, NEW q \in Seq(S), NEW c \in S
  PROVE  /\ Append(q, c) \in Seq(S) /\ Len(q) \in Nat /\ Len(Append(q, c)) = Len(q) + 1
         /\ Append(q, c)[Len(q) + 1] = c
         /\ \A n \in 1 .. Len(q) : Append(q, c)[n] = q[n] /\ q[n] \in S
OBVIOUS

LEMMA CommandDequeued ==
  ASSUME NEW S, NEW q \in Seq(S), q # <<>>
  PROVE  /\ Tail(q) \in Seq(S) /\ Len(q) \in Nat \ {0} /\ Len(Tail(q)) = Len(q) - 1
         /\ Head(q) \in S /\ Head(q) = q[1]
         /\ \A n \in 1 .. Len(Tail(q)) : Tail(q)[n] = q[n + 1] /\ q[n + 1] \in S
OBVIOUS

(* A step of a request's handler: it moves on to a step that may come      *)
(* next, and what it answers with is what the snapshot says.               *)
LEMMA HandlersKeepInvariant ==
  ASSUME ApiInv, NEW r \in Requests, NEW new \in RequestStates,
         req' = [req EXCEPT ![r] = new],
         UNCHANGED <<reply, apiSchedVars, board_regs>>, api_boards' \subseteq ApiBoards,
         req[r].at = "idle" \/ new.at \notin {"idle", "send"},
         req[r].at \in {"idle", "send", "read"} \/ new.at \in {"await", "error"} \/ reply[r] = "ok",
         new.kind \in {"pause", "resume"} /\ new.at = "read" => reply[r] = "ok",
         new.kind \in {"pause", "resume"} /\ new.at = "ok" =>
           reply[r] = "ok" /\ new.seen = snapshot.count
  PROVE  ApiInv'
<1> USE DEF ApiInv, apiSchedVars
<1>1. req' \in [Requests -> RequestStates]
  BY DEF ApiTypes
<1>2. req'[r] = new /\ \A s \in Requests : s # r => req'[s] = req[s]
  BY DEF ApiTypes
<1>3. ApiTypes'
  BY <1>1 DEF ApiTypes
<1>4. CommandInHand' /\ SnapshotsLag'
  BY DEF CommandInHand, SnapshotsLag
<1>5. QueuedOnce'
  <2>1. ASSUME NEW n \in 1 .. Len(api_cmds)
        PROVE  req'[api_cmds[n]].at \in {"await", "error"} /\ handled[api_cmds[n]] = 0
    <3>1. api_cmds[n] \in Requests
      BY <2>1 DEF ApiTypes
    <3>2. CASE api_cmds[n] # r
      BY <1>2, <2>1, <3>1, <3>2 DEF QueuedOnce
    <3>3. CASE api_cmds[n] = r
      <4>1. req[r].at \in {"await", "error"} /\ handled[r] = 0
        BY <2>1, <3>3 DEF QueuedOnce
      <4>2. reply[r] # "ok"
        BY <4>1 DEF RepliesTrue
      <4> QED
        BY <1>2, <3>3, <4>1, <4>2
    <3> QED
      BY <3>2, <3>3
  <2>2. \A s \in Requests : req'[s].at \in {"idle", "send"} => handled[s] = 0
    BY <1>2 DEF QueuedOnce
  <2> QED
    BY <2>1, <2>2 DEF QueuedOnce
<1>6. RepliesTrue'
  BY <1>2 DEF RepliesTrue
<1>7. PatchSeesItsCommand'
  <2> SUFFICES ASSUME NEW s \in Requests, req'[s].kind \in {"pause", "resume"}, req'[s].at = "ok"
               PROVE  handled[s] # 0 /\ req'[s].seen >= handled[s]
    BY DEF PatchSeesItsCommand
  <2>1. CASE s # r
    BY <1>2, <2>1 DEF PatchSeesItsCommand
  <2>2. CASE s = r
    <3>1. reply[r] = "ok" /\ new.seen = snapshot.count
      BY <1>2, <2>2
    <3>2. handled[r] # 0 /\ handled[r] <= snapshot.count
      BY <3>1 DEF RepliesTrue
    <3>3. handled[r] \in Nat /\ snapshot.count \in Nat
      BY DEF ApiTypes
    <3> QED
      BY <1>2, <2>2, <3>1, <3>2, <3>3
  <2> QED
    BY <2>1, <2>2
<1> QED
  BY <1>3, <1>4, <1>5, <1>6, <1>7

LEMMA RequestsMove ==
  ASSUME ApiInv, NEW r \in Requests,
         \/ \E kind \in Kinds : Arrive(r, kind)
         \/ GetReply(r)
         \/ ReadTelemetry(r)
         \/ ReadBoards(r)
         \/ ReadSources(r)
  PROVE  ApiInv'
<1> DEFINE old == req[r]
<1>1. /\ old \in RequestStates /\ req \in [Requests -> RequestStates]
      /\ snapshot.count \in Nat /\ Connected \subseteq ApiBoards /\ api_boards \subseteq ApiBoards
  BY DEF ApiInv, ApiTypes, Connected
<1>2. ASSUME NEW kind \in Kinds, Arrive(r, kind) PROVE ApiInv'
  <2> DEFINE new == [old EXCEPT !.kind = kind,
                                !.at = IF kind \in {"pause", "resume"} THEN "send" ELSE "read"]
  <2>1. req' = [req EXCEPT ![r] = new]
    BY <1>1, <1>2 DEF Arrive
  <2>2. new \in RequestStates /\ new.kind = kind
        /\ new.at = IF kind \in {"pause", "resume"} THEN "send" ELSE "read"
    BY <1>1 DEF RequestStates
  <2> HIDE DEF new
  <2> QED
    BY <1>1, <1>2, <2>1, <2>2, HandlersKeepInvariant DEF Arrive, apiBoardVars
<1>3. CASE GetReply(r)
  <2>1. PICK step \in {"read", "error"} :
          /\ req' = [req EXCEPT ![r] = [old EXCEPT !.at = step]]
          /\ step = "read" => reply[r] = "ok"
    BY <1>1, <1>3 DEF GetReply, Goes
  <2> DEFINE new == [old EXCEPT !.at = step]
  <2>2. new \in RequestStates /\ new.kind = old.kind /\ new.at = step
    BY <1>1 DEF RequestStates
  <2> HIDE DEF new
  <2> QED
    BY <1>1, <1>3, <2>1, <2>2, HandlersKeepInvariant DEF GetReply, apiBoardVars, new
<1>4. CASE ReadTelemetry(r)
  <2> DEFINE new == [old EXCEPT !.at = "ok", !.seen = snapshot.count, !.listed = Connected]
  <2>1. req' = [req EXCEPT ![r] = new]
    BY <1>1, <1>4 DEF ReadTelemetry
  <2>2. new \in RequestStates /\ new.kind = old.kind /\ new.at = "ok" /\ new.seen = snapshot.count
    BY <1>1 DEF RequestStates
  <2>3. old.at = "read" /\ (old.kind \in {"pause", "resume"} => reply[r] = "ok")
    BY <1>4 DEF ReadTelemetry, ApiInv, RepliesTrue
  <2> HIDE DEF new
  <2> QED
    BY <1>1, <1>4, <2>1, <2>2, <2>3, HandlersKeepInvariant DEF ReadTelemetry
<1>5. CASE ReadBoards(r)
  <2>1. PICK step \in {"ok", "missing"} :
          req' = [req EXCEPT ![r] = [old EXCEPT !.at = step, !.listed = Connected]]
    BY <1>1, <1>5 DEF ReadBoards
  <2> DEFINE new == [old EXCEPT !.at = step, !.listed = Connected]
  <2>2. new \in RequestStates /\ new.kind = old.kind /\ new.at = step
    BY <1>1 DEF RequestStates
  <2>3. old.at = "read" /\ old.kind \in {"boards", "board"}
    BY <1>5 DEF ReadBoards
  <2> HIDE DEF new
  <2> QED
    BY <1>1, <1>5, <2>1, <2>2, <2>3, HandlersKeepInvariant DEF ReadBoards, new
<1>6. CASE ReadSources(r)
  <2>1. PICK step \in {"ok", "missing"} :
          req' = [req EXCEPT ![r] = [old EXCEPT !.at = step, !.seen = snapshot.count]]
    BY <1>1, <1>6 DEF ReadSources
  <2> DEFINE new == [old EXCEPT !.at = step, !.seen = snapshot.count]
  <2>2. new \in RequestStates /\ new.kind = old.kind /\ new.at = step
    BY <1>1 DEF RequestStates
  <2>3. old.at = "read" /\ old.kind \in {"sources", "source"}
    BY <1>6 DEF ReadSources
  <2> HIDE DEF new
  <2> QED
    BY <1>1, <1>6, <2>1, <2>2, <2>3, HandlersKeepInvariant DEF ReadSources, apiBoardVars, new
<1> QED
  BY <1>2, <1>3, <1>4, <1>5, <1>6

(* scheduler_cmd_tx.send: a request that was never queued joins the queue. *)
LEMMA SendsKeepInvariant ==
  ASSUME ApiInv, NEW r \in Requests, SendCommand(r)
  PROVE  ApiInv'
<1> DEFINE old == req[r]
<1> USE DEF ApiInv
<1>1. old \in RequestStates /\ req \in [Requests -> RequestStates] /\ old.at = "send"
  BY DEF ApiTypes, SendCommand
<1>2. CASE api_sched = "gone" /\ Goes(r, "error") /\ UNCHANGED api_cmds
  <2> DEFINE new == [old EXCEPT !.at = "error"]
  <2>1. new \in RequestStates /\ new.at = "error" /\ req' = [req EXCEPT ![r] = new]
    BY <1>1, <1>2 DEF RequestStates, Goes
  <2> HIDE DEF new
  <2> QED
    BY <1>1, <1>2, <2>1, HandlersKeepInvariant DEF SendCommand, apiSchedVars, apiBoardVars, ApiTypes
<1>3. CASE api_cmds' = Append(api_cmds, r) /\ Goes(r, "await")
  <2>1. UNCHANGED <<reply, handled, api_sched, serving, paused, count, snapshot, board_regs,
                    api_boards>>
    BY DEF SendCommand, apiBoardVars
  <2>2. /\ req' \in [Requests -> RequestStates]
        /\ req'[r].at = "await" /\ \A s \in Requests : s # r => req'[s] = req[s]
    BY <1>1, <1>3 DEF RequestStates, Goes
  <2>3. ApiTypes'
    BY <1>3, <2>1, <2>2, CommandQueued DEF ApiTypes
  <2>4. QueuedOnce'
    <3>1. /\ Len(api_cmds') = Len(api_cmds) + 1 /\ Len(api_cmds) \in Nat
          /\ api_cmds'[Len(api_cmds) + 1] = r
          /\ \A n \in 1 .. Len(api_cmds) : api_cmds'[n] = api_cmds[n] /\ api_cmds[n] \in Requests
      BY <1>3, CommandQueued DEF ApiTypes
    <3>2. \A n \in 1 .. Len(api_cmds) : api_cmds[n] # r
      BY <1>1 DEF QueuedOnce
    <3>3. handled[r] = 0
      BY <1>1 DEF QueuedOnce
    <3>4. \A m, n \in 1 .. Len(api_cmds') : m # n => api_cmds'[m] # api_cmds'[n]
      BY <3>1, <3>2 DEF QueuedOnce
    <3>5. \A n \in 1 .. Len(api_cmds') :
            handled[api_cmds'[n]] = 0 /\ req'[api_cmds'[n]].at \in {"await", "error"}
      BY <2>2, <3>1, <3>2, <3>3 DEF QueuedOnce
    <3>6. \A s \in Requests : req'[s].at \in {"idle", "send"} => handled[s] = 0
      BY <2>2 DEF QueuedOnce
    <3> QED
      BY <2>1, <3>4, <3>5, <3>6 DEF QueuedOnce
  <2>5. RepliesTrue' /\ PatchSeesItsCommand'
    BY <2>1, <2>2 DEF RepliesTrue, PatchSeesItsCommand
  <2>6. CommandInHand' /\ SnapshotsLag'
    BY <2>1 DEF CommandInHand, SnapshotsLag
  <2> QED
    BY <2>3, <2>4, <2>5, <2>6
<1> QED
  BY <1>2, <1>3 DEF SendCommand

(* handle_api_command begins: the head of the queue is carried out, for    *)
(* the first time.                                                         *)
LEMMA TakingKeepsInvariant ==
  ASSUME ApiInv, TakeCommand
  PROVE  ApiInv'
<1> USE DEF ApiInv
<1>1. PICK h \in Requests : h = Head(api_cmds) /\ h = api_cmds[1]
  BY CommandDequeued DEF TakeCommand, ApiTypes
<1>2. /\ UNCHANGED <<req, reply, snapshot, board_regs, api_boards>>
      /\ api_cmds' = Tail(api_cmds) /\ serving' = {h} /\ paused' = (req[h].kind = "pause")
      /\ count' = count + 1 /\ handled' = [handled EXCEPT ![h] = count + 1]
      /\ api_sched' = "publish"
  BY <1>1 DEF TakeCommand, CommandSteps, reqVars, apiBoardVars
<1>3. /\ Tail(api_cmds) \in Seq(Requests) /\ Len(api_cmds) \in Nat \ {0}
      /\ Len(Tail(api_cmds)) = Len(api_cmds) - 1
      /\ \A n \in 1 .. Len(Tail(api_cmds)) :
           Tail(api_cmds)[n] = api_cmds[n + 1] /\ api_cmds[n + 1] \in Requests
  BY CommandDequeued DEF TakeCommand, ApiTypes
<1>4. handled[h] = 0 /\ req[h].at \in {"await", "error"}
  BY <1>1, <1>3 DEF QueuedOnce
<1>5. reply[h] # "ok"
  BY <1>4 DEF RepliesTrue
<1>6. /\ handled'[h] = count + 1 /\ \A r \in Requests : r # h => handled'[r] = handled[r]
      /\ handled' \in [Requests -> Nat] /\ count \in Nat /\ snapshot.count \in Nat
  BY <1>2 DEF ApiTypes
<1>7. ApiTypes'
  BY <1>2, <1>3, <1>6 DEF ApiTypes
<1>8. CommandInHand'
  BY <1>2, <1>6 DEF CommandInHand
<1>9. SnapshotsLag'
  <2>1. \A r \in Requests : handled[r] \in Nat
    BY DEF ApiTypes
  <2> QED
    BY <1>2, <1>6, <2>1 DEF SnapshotsLag
<1>10. QueuedOnce'
  <2>1. \A n \in 1 .. Len(Tail(api_cmds)) :
          /\ n + 1 \in 1 .. Len(api_cmds) /\ Tail(api_cmds)[n] # h
          /\ Tail(api_cmds)[n] \in Requests
    BY <1>1, <1>3 DEF QueuedOnce
  <2>2. \A m, n \in 1 .. Len(Tail(api_cmds)) : m # n => Tail(api_cmds)[m] # Tail(api_cmds)[n]
    BY <1>3, <2>1 DEF QueuedOnce
  <2>3. \A n \in 1 .. Len(Tail(api_cmds)) :
          handled'[Tail(api_cmds)[n]] = 0 /\ req[Tail(api_cmds)[n]].at \in {"await", "error"}
    BY <1>3, <1>6, <2>1 DEF QueuedOnce
  <2>4. \A r \in Requests : req[r].at \in {"idle", "send"} => handled'[r] = 0
    BY <1>4, <1>6 DEF QueuedOnce
  <2> QED
    BY <1>2, <2>2, <2>3, <2>4 DEF QueuedOnce
<1>11. RepliesTrue'
  BY <1>2, <1>5, <1>6 DEF RepliesTrue
<1>12. PatchSeesItsCommand'
  BY <1>2, <1>4, <1>6 DEF PatchSeesItsCommand
<1> QED
  BY <1>7, <1>8, <1>9, <1>10, <1>11, <1>12

(* A snapshot is published, by a command or by the periodic tick.          *)
LEMMA PublishingKeepsInvariant ==
  ASSUME ApiInv, PublishCommand \/ TelemetryTick
  PROVE  ApiInv'
<1> USE DEF ApiInv
<1>1. /\ UNCHANGED <<req, reply, api_cmds, handled, serving, paused, count, board_regs, api_boards>>
      /\ snapshot' = [paused |-> paused, count |-> count]
      /\ \/ api_sched = "publish" /\ api_sched' = "reply"
         \/ api_sched = "select" /\ api_sched' = "select"
  BY DEF PublishCommand, TelemetryTick, CommandSteps, reqVars, apiBoardVars
<1>2. ApiTypes'
  BY <1>1 DEF ApiTypes
<1>3. CommandInHand'
  BY <1>1 DEF CommandInHand
<1>4. count \in Nat /\ snapshot'.count = count /\ \A r \in Requests : handled[r] \in Nat
  BY <1>1 DEF ApiTypes
<1>5. SnapshotsLag'
  BY <1>1, <1>4 DEF SnapshotsLag
<1>6. QueuedOnce' /\ PatchSeesItsCommand'
  BY <1>1 DEF QueuedOnce, PatchSeesItsCommand
<1>7. RepliesTrue'
  BY <1>1, <1>4 DEF RepliesTrue, SnapshotsLag
<1> QED
  BY <1>2, <1>3, <1>5, <1>6, <1>7

(* The reply, and the end of the scheduler, which drops what is queued.    *)
LEMMA RepliesKeepInvariant ==
  ASSUME ApiInv, ReplyToCommand \/ ApiSchedulerStops
  PROVE  ApiInv'
<1> USE DEF ApiInv
<1>1. CASE ReplyToCommand
  <2>1. /\ UNCHANGED <<req, api_cmds, handled, paused, count, snapshot, board_regs, api_boards>>
        /\ api_sched = "reply" /\ api_sched' = "select" /\ serving' = {}
        /\ reply' = [r \in Requests |-> IF r \in serving THEN "ok" ELSE reply[r]]
    BY <1>1 DEF ReplyToCommand, CommandSteps, apiBoardVars
  <2>2. PICK s \in Requests : serving = {s} /\ handled[s] = count /\ count # 0
    BY <2>1 DEF CommandInHand
  <2>3. ApiTypes' /\ CommandInHand' /\ SnapshotsLag' /\ QueuedOnce' /\ PatchSeesItsCommand'
    BY <2>1 DEF ApiTypes, CommandInHand, SnapshotsLag, QueuedOnce, PatchSeesItsCommand
  <2>4. /\ count \in Nat /\ snapshot.count = count
        /\ \A r \in Requests : reply'[r] = IF r = s THEN "ok" ELSE reply[r]
    BY <2>1, <2>2 DEF ApiTypes, SnapshotsLag
  <2>5. RepliesTrue'
    BY <2>1, <2>2, <2>4 DEF RepliesTrue
  <2> QED
    BY <2>3, <2>5
<1>2. CASE ApiSchedulerStops
  <2> DEFINE queued == {api_cmds[n] : n \in 1 .. Len(api_cmds)}
  <2>1. /\ UNCHANGED <<req, handled, serving, paused, count, snapshot, board_regs, api_boards>>
        /\ api_sched = "select" /\ api_sched' = "gone" /\ api_cmds' = <<>>
        /\ reply' = [r \in Requests |-> IF r \in queued THEN "dropped" ELSE reply[r]]
    BY <1>2 DEF ApiSchedulerStops, apiBoardVars
  <2>2. \A r \in queued : req[r].at \in {"await", "error"}
    BY DEF QueuedOnce
  <2>3. /\ \A S : <<>> \in Seq(S)
        /\ Len(<<>>) = 0
    OBVIOUS
  <2>4. ApiTypes'
    BY <2>1, <2>3 DEF ApiTypes
  <2>5. CommandInHand' /\ SnapshotsLag' /\ PatchSeesItsCommand'
    BY <2>1 DEF CommandInHand, SnapshotsLag, PatchSeesItsCommand
  <2>6. QueuedOnce'
    BY <2>1, <2>3 DEF QueuedOnce
  <2> HIDE DEF queued
  <2>7. RepliesTrue'
    BY <2>1, <2>2 DEF RepliesTrue
  <2> QED
    BY <2>4, <2>5, <2>6, <2>7
<1> QED
  BY <1>1, <1>2

(* Boards, the shutdown and stuttering leave requests and commands alone.  *)
LEMMA BoardsKeepInvariant ==
  ASSUME ApiInv,
         \/ \E b \in ApiBoards : RegisterBoard(b) \/ BoardGone(b)
         \/ CollectBoard
         \/ ApiStop
         \/ UNCHANGED apiVars
  PROVE  ApiInv'
<1> USE DEF ApiInv
<1>1. UNCHANGED <<req, reply, api_cmds, handled, api_sched, serving, paused, count, snapshot>>
  BY DEF RegisterBoard, BoardGone, CollectBoard, ApiStop, apiVars, reqVars, apiSchedVars
<1>2. board_regs' \in Seq(ApiBoards) /\ api_boards' \subseteq ApiBoards
  <2>1. ASSUME NEW b \in ApiBoards, RegisterBoard(b)
        PROVE  board_regs' \in Seq(ApiBoards) /\ api_boards' \subseteq ApiBoards
    BY <2>1, CommandQueued DEF RegisterBoard, ApiTypes
  <2>2. CASE CollectBoard
    BY <2>2, CommandDequeued DEF CollectBoard, ApiTypes
  <2> QED
    BY <2>1, <2>2 DEF BoardGone, ApiStop, apiVars, apiBoardVars, ApiTypes
<1>3. ApiTypes'
  BY <1>1, <1>2 DEF ApiTypes
<1>4. CommandInHand' /\ SnapshotsLag' /\ QueuedOnce' /\ RepliesTrue' /\ PatchSeesItsCommand'
  BY <1>1 DEF CommandInHand, SnapshotsLag, QueuedOnce, RepliesTrue, PatchSeesItsCommand
<1> QED
  BY <1>3, <1>4

(* Every behaviour of Api carries a command out at most once and replies   *)
(* only behind its snapshot.                                               *)
THEOREM ApiInvariant == ApiSpec => []ApiInv
<1>1. ApiInit => ApiInv
  <2> SUFFICES ASSUME ApiInit PROVE ApiInv
    OBVIOUS
  <2>1. NoRequest \in RequestStates /\ NoRequest.at = "idle" /\ NoRequest.kind = "none"
    BY DEF NoRequest, RequestStates
  <2>2. /\ \A S : <<>> \in Seq(S)
        /\ Len(<<>>) = 0
    OBVIOUS
  <2>3. ApiTypes
    BY <2>1, <2>2 DEF ApiInit, ApiTypes
  <2>4. CommandInHand /\ SnapshotsLag
    BY DEF ApiInit, CommandInHand, SnapshotsLag
  <2>5. QueuedOnce /\ RepliesTrue /\ PatchSeesItsCommand
    BY <2>1, <2>2 DEF ApiInit, QueuedOnce, RepliesTrue, PatchSeesItsCommand
  <2> QED
    BY <2>3, <2>4, <2>5 DEF ApiInv
<1>2. ApiInv /\ [ApiNext]_apiVars => ApiInv'
  BY RequestsMove, SendsKeepInvariant, TakingKeepsInvariant, PublishingKeepsInvariant,
     RepliesKeepInvariant, BoardsKeepInvariant DEF ApiNext
<1> QED
  BY <1>1, <1>2, PTL DEF ApiSpec

(* For any requests and channel capacities: a PATCH that patch_miner       *)
(* answers OK was carried out by handle_api_command and answers with a     *)
(* snapshot not older than that.                                           *)
THEOREM PatchSeesItsCommandCorrect == ApiSpec => []PatchSeesItsCommand
BY ApiInvariant, PTL DEF ApiInv

-----------------------------------------------------------------------------
(***************************************************************************)
(* The regulator's check_status.  While it runs it holds the driver, so    *)
(* OPERATION is what it was when it began and flags are only added: what   *)
(* clears them comes after the check and before the driver is given back.  *)
(* What was bad then is in a group still to be read, already found, or the *)
(* OFF bit of a rail that is commanded on; and all it found so far was bad *)
(* since it began.                                                         *)
(***************************************************************************)
IsCritical(g) == latched \cap Critical[g] # {}

CheckHolds ==
  /\ report = "running" => lock = "monitor" /\ stage = "share" /\ tick = "none"
  /\ tick # "none" => lock = "monitor"

NothingMissed ==
  report = "running" /\ bad_before =>
    \/ \E g \in unread \cap Groups : IsCritical(g)
    \/ critical_faults # {}
    \/ "OFF" \in status_word /\ operation = "on"

NothingInvented ==
  report = "running" =>
    /\ unread \subseteq Groups
    /\ (\E g \in Groups : IsCritical(g)) => bad_during
    /\ critical_faults # {} => bad_during
    /\ "OFF" \in status_word /\ operation = "on" => bad_during

RegulatorInv ==
  CheckHolds /\ NothingMissed /\ NothingInvented /\ CheckHonest /\ bad_during \in BOOLEAN

(* What check_status treats as critical is a flag of the group whose bit   *)
(* in STATUS_WORD makes it read the detail.                                *)
LEMMA CriticalIsFlagged == \A g \in Groups : Critical[g] \subseteq Flags[g]
<1> SUFFICES ASSUME NEW g \in Groups PROVE Critical[g] \subseteq Flags[g]
  OBVIOUS
<1>1. CASE g = "VOUT"
  BY <1>1 DEF Critical, Flags
<1>2. CASE g = "IOUT"
  BY <1>2 DEF Critical, Flags
<1>3. CASE g = "INPUT"
  BY <1>3 DEF Critical, Flags
<1>4. CASE g = "TEMP"
  BY <1>4 DEF Critical, Flags
<1>5. CASE g = "CML"
  BY <1>5 DEF Critical, Flags
<1> QED
  BY <1>1, <1>2, <1>3, <1>4, <1>5 DEF Groups

LEMMA CheckStartsHonest ==
  ASSUME RegulatorInv, CheckStarts
  PROVE  RegulatorInv'
<1>1. /\ UNCHANGED <<latched, operation, output, stage, tick>> /\ stage = "share"
      /\ lock = "none" /\ lock' = "monitor"
      /\ bad_before' = IsBad /\ bad_during' = IsBad
      /\ status_word' = {g \in Groups : GroupSet(g)} \cup (IF output THEN {} ELSE {"OFF"})
      /\ unread' = {g \in Groups : GroupSet(g)} /\ critical_faults' = {} /\ report' = "running"
  BY DEF CheckStarts, deviceVars
<1>2. \A g : IsCritical(g)' <=> IsCritical(g)
  BY <1>1 DEF IsCritical
<1>3. \A g \in Groups : IsCritical(g) => GroupSet(g)
  BY CriticalIsFlagged DEF IsCritical, GroupSet
<1>4. IsBad <=> (\E g \in Groups : IsCritical(g)) \/ (operation = "on" /\ ~output)
  BY DEF IsBad, IsCritical
<1>5. "OFF" \notin Groups
  BY DEF Groups
<1>6. "OFF" \in status_word' <=> ~output
  BY <1>1, <1>5
<1>7. NothingMissed'
  BY <1>1, <1>2, <1>3, <1>4, <1>6 DEF NothingMissed
<1>8. NothingInvented'
  BY <1>1, <1>2, <1>4, <1>6 DEF NothingInvented
<1>9. bad_during' \in BOOLEAN
  BY <1>1 DEF IsBad
<1>10. CheckHolds'
  BY <1>1 DEF RegulatorInv, CheckHolds
<1> QED
  BY <1>1, <1>7, <1>8, <1>9, <1>10 DEF RegulatorInv, CheckHonest

LEMMA DetailsHonest ==
  ASSUME RegulatorInv, ReadDetail
  PROVE  RegulatorInv'
<1>1. /\ UNCHANGED <<latched, operation, stage, lock, report, tick, status_word, bad_before,
                     bad_during>>
      /\ report = "running"
  BY DEF ReadDetail, deviceVars
<1>2. PICK g \in unread :
        /\ unread' = unread \ {g}
        /\ critical_faults' = IF IsCritical(g) THEN critical_faults \cup {g} ELSE critical_faults
  BY DEF ReadDetail, IsCritical
<1>3. \A h : IsCritical(h)' <=> IsCritical(h)
  BY <1>1 DEF IsCritical
<1>4. NothingMissed'
  BY <1>1, <1>2, <1>3 DEF RegulatorInv, NothingMissed
<1>5. NothingInvented'
  BY <1>1, <1>2, <1>3 DEF RegulatorInv, NothingInvented
<1> QED
  BY <1>1, <1>4, <1>5 DEF RegulatorInv, CheckHolds, CheckHonest

LEMMA RaisingHonest ==
  ASSUME RegulatorInv, DeviceRaises
  PROVE  RegulatorInv'
<1>1. /\ UNCHANGED <<operation, stage, lock, report, tick, status_word, unread,
                     critical_faults, bad_before>>
      /\ latched \subseteq latched' /\ bad_during' = (bad_during \/ (report = "running" /\ IsBad'))
  BY DEF DeviceRaises
<1>2. \A g : IsCritical(g) => IsCritical(g)'
  BY <1>1 DEF IsCritical
<1>3. (\E g \in Groups : IsCritical(g)') => IsBad'
  BY DEF IsCritical, IsBad
<1>4. /\ bad_during' \in BOOLEAN /\ (bad_during => bad_during')
      /\ report = "running" /\ IsBad' => bad_during'
  BY <1>1 DEF RegulatorInv
<1>5. NothingMissed'
  BY <1>1, <1>2 DEF RegulatorInv, NothingMissed
<1>6. NothingInvented'
  BY <1>1, <1>3, <1>4 DEF RegulatorInv, NothingInvented
<1> QED
  BY <1>1, <1>4, <1>5, <1>6 DEF RegulatorInv, CheckHolds, CheckHonest

(* The end of a check, what follows it, and every step of the others.      *)
LEMMA OthersHonest ==
  ASSUME RegulatorInv,
         \/ CheckEnds
         \/ CheckFails
         \/ ClearsFaults
         \/ ReadsPower
         \/ /\ report # "running" /\ (tick # "none" => lock' = lock)
            /\ UNCHANGED <<report, tick, bad_before, bad_during>>
         \/ /\ UNCHANGED <<latched, operation, stage, lock, report, tick, status_word, unread,
                           critical_faults, bad_before, bad_during>>
  PROVE  RegulatorInv'
<1>1. CASE CheckEnds
  <2>1. /\ report = "running" /\ unread = {}
        /\ CheckReturns(IF critical_faults # {} \/ ("OFF" \in status_word /\ operation = "on")
                    THEN "fault" ELSE "ok")
        /\ UNCHANGED <<lock, bad_before, bad_during>>
    BY <1>1 DEF CheckEnds
  <2> QED
    BY <2>1 DEF CheckReturns, RegulatorInv, CheckHolds, NothingMissed, NothingInvented, CheckHonest
<1>2. CASE CheckFails
  BY <1>2 DEF CheckFails, CheckReturns, RegulatorInv, CheckHolds, NothingMissed, NothingInvented,
              CheckHonest
<1>3. CASE ClearsFaults \/ ReadsPower
  <2>1. /\ tick # "none" /\ (tick' # "none" => lock' = lock)
        /\ \/ UNCHANGED <<report, bad_before, bad_during>>
           \/ report' = "none" /\ bad_before' = FALSE /\ bad_during' = FALSE
    BY <1>3 DEF ClearsFaults, ReadsPower
  <2>2. report # "running" /\ lock = "monitor"
    BY <2>1 DEF RegulatorInv, CheckHolds
  <2>3. report' # "running" /\ CheckHonest'
    BY <2>1, <2>2 DEF RegulatorInv, CheckHonest
  <2>4. CheckHolds'
    BY <2>1, <2>2, <2>3 DEF CheckHolds
  <2>5. bad_during' \in BOOLEAN
    BY <2>1 DEF RegulatorInv
  <2> QED
    BY <2>3, <2>4, <2>5 DEF RegulatorInv, NothingMissed, NothingInvented
<1>4. CASE /\ report # "running" /\ (tick # "none" => lock' = lock)
           /\ UNCHANGED <<report, tick, bad_before, bad_during>>
  BY <1>4 DEF RegulatorInv, CheckHolds, NothingMissed, NothingInvented, CheckHonest
<1>5. CASE UNCHANGED <<latched, operation, stage, lock, report, tick, status_word, unread,
                       critical_faults, bad_before, bad_during>>
  BY <1>5 DEF RegulatorInv, CheckHolds, NothingMissed, NothingInvented, CheckHonest, IsCritical
<1> QED
  BY <1>1, <1>2, <1>3, <1>4, <1>5

(* Every behaviour of Regulator keeps what a running check has seen        *)
(* together with what was really the case.                                 *)
THEOREM RegulatorInvariant == RegulatorSpec => []RegulatorInv
<1>1. RegulatorInit => RegulatorInv
  BY DEF RegulatorInit, RegulatorInv, CheckHolds, NothingMissed, NothingInvented, CheckHonest
<1>2. RegulatorInv /\ [RegulatorNext]_regulatorVars => RegulatorInv'
  <2> SUFFICES ASSUME RegulatorInv, [RegulatorNext]_regulatorVars PROVE RegulatorInv'
    OBVIOUS
  <2>1. CASE InitStart \/ WriteConfig \/ InitEnd \/ InitFails
    <3>1. stage = "init" /\ UNCHANGED <<lock, report, tick, bad_before, bad_during>>
      BY <2>1 DEF InitStart, WriteConfig, InitEnd, InitFails, checkVars
    <3> QED
      BY <3>1, OthersHonest DEF RegulatorInv, CheckHolds
  <2>2. ASSUME NEW op \in {"on", "off"}, ThreadWrites(op) PROVE RegulatorInv'
    <3>1. lock = "none" /\ UNCHANGED <<report, tick, bad_before, bad_during>>
      BY <2>2 DEF ThreadWrites, checkVars
    <3> QED
      BY <3>1, OthersHonest DEF RegulatorInv, CheckHolds
  <2>3. CASE ThreadReadsBack
    <3>1. lock = "thread" /\ UNCHANGED <<report, tick, bad_before, bad_during>>
      BY <2>3 DEF ThreadReadsBack, checkVars
    <3> QED
      BY <3>1, OthersHonest DEF RegulatorInv, CheckHolds
  <2>4. CASE DeviceRetries
    BY <2>4, OthersHonest DEF DeviceRetries, checkVars
  <2>5. CASE UNCHANGED regulatorVars
    BY <2>5, OthersHonest DEF regulatorVars, deviceVars, checkVars
  <2> QED
    BY <2>1, <2>2, <2>3, <2>4, <2>5, CheckStartsHonest, DetailsHonest, RaisingHonest, OthersHonest
       DEF RegulatorNext
<1> QED
  BY <1>1, <1>2, PTL DEF RegulatorSpec

(* For any flags the device raises, at any moment of check_status, and     *)
(* whatever clear_faults clears between two checks or fails to: it does    *)
(* not pass over a critical condition that was there when it began, and    *)
(* what it calls a fault was one while it ran.                             *)
THEOREM CheckHonestCorrect == RegulatorSpec => []CheckHonest
BY RegulatorInvariant, PTL DEF RegulatorInv

-----------------------------------------------------------------------------
(***************************************************************************)
(* The regulator's configuration.  First LINEAR11: from_float takes the    *)
(* first exponent with the least error among those that fit, so its result *)
(* is a rounding, whichever exponent that is.                              *)
(***************************************************************************)
LEMMA LeastNumber ==
  ASSUME NEW T \in SUBSET Nat, T # {}
  PROVE  \E x \in T : \A y \in T : x <= y
<1> DEFINE R == OpToRel(<, Nat)
<1>1. IsWellFoundedOn(R, Nat)
  BY NatLessThanWellFounded
<1>2. \A x, y \in Nat : y < x => <<y, x>> \in R
  BY DEF OpToRel
<1> HIDE DEF R
<1>3. PICK x \in T : \A y \in T : ~(<<y, x>> \in R)
  BY <1>1, WFMin
<1>4. ASSUME NEW y \in T PROVE x <= y
  <2>1. x \in Nat /\ y \in Nat /\ ~(y < x)
    BY <1>2, <1>3
  <2> QED
    BY <2>1
<1> QED
  BY <1>3, <1>4

(* Rounding to the nearest multiple.                                       *)
LEMMA RoundHalf ==
  ASSUME NEW n \in Nat, NEW d \in Nat \ {0}
  PROVE  RoundDiv(n, d) \in Nat /\ 2 * Distance(RoundDiv(n, d) * d, n) <= d
<1> DEFINE q == RoundDiv(n, d)
           a == 2 * n + d
           b == 2 * d
<1>1. a \in Nat /\ b \in Nat \ {0} /\ q = a \div b
  BY DEF RoundDiv
<1> HIDE DEF a, b, q
<1>2. q \in Nat /\ a % b \in Nat /\ a % b < b /\ a = b * q + (a % b)
  BY <1>1
<1>3. b * q = 2 * (q * d) /\ q * d \in Nat
  BY <1>2 DEF b
<1> DEFINE m == q * d
<1>4. m \in Nat /\ 2 * n + d - 2 * m \in 0 .. 2 * d
  BY <1>1, <1>2, <1>3 DEF a, b
<1> HIDE DEF m
<1>5. 2 * Distance(m, n) <= d
  BY <1>4 DEF Distance
<1> QED
  BY <1>2, <1>5 DEF q, m

(* The exponents of LINEAR11.                                              *)
Exponents11 == -16 .. 15

(* The powers of two that are used.                                        *)
Powers == {1, 2, 4, 8, 16, 32, 64, 128, 256, 512, 1024, 2048, 4096, 8192, 16384, 32768, 65536}

(* SMT computes a power of literals only.                                  *)
LEMMA PowersOfTwo ==
  ASSUME NEW n \in 0 .. 16
  PROVE  2 ^ n \in Powers /\ (n >= 4 => 2 ^ n >= 16)
<1>0. ASSUME n = 0 PROVE 2 ^ n = 1
  <2>1. 2 ^ 0 = 1 /\ 2 ^ n = 2 ^ 0
    BY <1>0
  <2> QED
    BY <2>1
<1>1. ASSUME n = 1 PROVE 2 ^ n = 2
  <2>1. 2 ^ 1 = 2 /\ 2 ^ n = 2 ^ 1
    BY <1>1
  <2> QED
    BY <2>1
<1>2. ASSUME n = 2 PROVE 2 ^ n = 4
  <2>1. 2 ^ 2 = 4 /\ 2 ^ n = 2 ^ 2
    BY <1>2
  <2> QED
    BY <2>1
<1>3. ASSUME n = 3 PROVE 2 ^ n = 8
  <2>1. 2 ^ 3 = 8 /\ 2 ^ n = 2 ^ 3
    BY <1>3
  <2> QED
    BY <2>1
<1>4. ASSUME n = 4 PROVE 2 ^ n = 16
  <2>1. 2 ^ 4 = 16 /\ 2 ^ n = 2 ^ 4
    BY <1>4
  <2> QED
    BY <2>1
<1>5. ASSUME n = 5 PROVE 2 ^ n = 32
  <2>1. 2 ^ 5 = 32 /\ 2 ^ n = 2 ^ 5
    BY <1>5
  <2> QED
    BY <2>1
<1>6. ASSUME n = 6 PROVE 2 ^ n = 64
  <2>1. 2 ^ 6 = 64 /\ 2 ^ n = 2 ^ 6
    BY <1>6
  <2> QED
    BY <2>1
<1>7. ASSUME n = 7 PROVE 2 ^ n = 128
  <2>1. 2 ^ 7 = 128 /\ 2 ^ n = 2 ^ 7
    BY <1>7
  <2> QED
    BY <2>1
<1>8. ASSUME n = 8 PROVE 2 ^ n = 256
  <2>1. 2 ^ 8 = 256 /\ 2 ^ n = 2 ^ 8
    BY <1>8
  <2> QED
    BY <2>1
<1>9. ASSUME n = 9 PROVE 2 ^ n = 512
  <2>1. 2 ^ 9 = 512 /\ 2 ^ n = 2 ^ 9
    BY <1>9
  <2> QED
    BY <2>1
<1>10. ASSUME n = 10 PROVE 2 ^ n = 1024
  <2>1. 2 ^ 10 = 1024 /\ 2 ^ n = 2 ^ 10
    BY <1>10
  <2> QED
    BY <2>1
<1>11. ASSUME n = 11 PROVE 2 ^ n = 2048
  <2>1. 2 ^ 11 = 2048 /\ 2 ^ n = 2 ^ 11
    BY <1>11
  <2> QED
    BY <2>1
<1>12. ASSUME n = 12 PROVE 2 ^ n = 4096
  <2>1. 2 ^ 12 = 4096 /\ 2 ^ n = 2 ^ 12
    BY <1>12
  <2> QED
    BY <2>1
<1>13. ASSUME n = 13 PROVE 2 ^ n = 8192
  <2>1. 2 ^ 13 = 8192 /\ 2 ^ n = 2 ^ 13
    BY <1>13
  <2> QED
    BY <2>1
<1>14. ASSUME n = 14 PROVE 2 ^ n = 16384
  <2>1. 2 ^ 14 = 16384 /\ 2 ^ n = 2 ^ 14
    BY <1>14
  <2> QED
    BY <2>1
<1>15. ASSUME n = 15 PROVE 2 ^ n = 32768
  <2>1. 2 ^ 15 = 32768 /\ 2 ^ n = 2 ^ 15
    BY <1>15
  <2> QED
    BY <2>1
<1>16. ASSUME n = 16 PROVE 2 ^ n = 65536
  <2>1. 2 ^ 16 = 65536 /\ 2 ^ n = 2 ^ 16
    BY <1>16
  <2> QED
    BY <2>1
<1>20. n \in {0, 1, 2, 3, 4, 5, 6, 7, 8, 9, 10, 11, 12, 13, 14, 15, 16}
  OBVIOUS
<1> QED
  BY <1>0, <1>1, <1>2, <1>3, <1>4, <1>5, <1>6, <1>7, <1>8, <1>9, <1>10, <1>11, <1>12, <1>13, <1>14, <1>15, <1>16, <1>20 DEF Powers

(* 2^e as a fraction: one of the two is 1.                                 *)
LEMMA Scales ==
  ASSUME NEW e \in Exponents11
  PROVE  /\ Up(e) \in Powers /\ Down(e) \in Powers
         /\ e < 0 => Down(e) = 1
         /\ e >= 0 => Up(e) = 1
         /\ Up(e) \in Nat \ {0} /\ Down(e) \in Nat \ {0}
<1>1. 1 \in Powers /\ \A p \in Powers : p \in Nat \ {0}
  BY DEF Powers
<1>2. CASE e < 0
  <2>1. -e \in 0 .. 16
    BY <1>2 DEF Exponents11
  <2>2. Up(e) = 2 ^ (-e) /\ Down(e) = 1
    BY <1>2 DEF Up, Down
  <2>3. Up(e) \in Powers
    BY <2>1, <2>2, PowersOfTwo
  <2> QED
    BY <1>1, <1>2, <2>2, <2>3 DEF Exponents11
<1>3. CASE ~(e < 0)
  <2>1. e \in 0 .. 16
    BY <1>3 DEF Exponents11
  <2>2. Down(e) = 2 ^ e /\ Up(e) = 1
    BY <1>3 DEF Up, Down
  <2>3. Down(e) \in Powers
    BY <2>1, <2>2, PowersOfTwo
  <2> QED
    BY <1>1, <1>3, <2>2, <2>3
<1> QED
  BY <1>2, <1>3

(* Errors at two scales, brought to the same one.                          *)
LEMMA Comparing ==
  ASSUME NEW a \in Nat, NEW b \in Nat, NEW u \in Nat \ {0}, NEW v \in Nat \ {0},
         NEW k \in Nat \ {0}, NEW l \in Nat \ {0}, NEW w \in Nat \ {0}, u * k = w, v * l = w
  PROVE  a * v < b * u <=> a * k < b * l
<1> DEFINE c == k * l
           x == a * v
           y == b * u
           r == a * k
           s == b * l
<1>1. c \in Nat \ {0} /\ x \in Nat /\ y \in Nat /\ r \in Nat /\ s \in Nat
  OBVIOUS
<1>2. x * c = r * w
  <2>1. x * c = (a * k) * (v * l)
    OBVIOUS
  <2> QED
    BY <2>1
<1>3. y * c = s * w
  <2>1. y * c = (b * l) * (u * k)
    OBVIOUS
  <2> QED
    BY <2>1
<1> HIDE DEF c, x, y, r, s
<1>4. ASSUME NEW p \in Nat, NEW q \in Nat, NEW t \in Nat \ {0} PROVE p < q <=> p * t < q * t
  <2>1. ASSUME p < q PROVE p * t < q * t
    BY <2>1
  <2>2. ASSUME p >= q PROVE p * t >= q * t
    BY <2>2
  <2> QED
    BY <2>1, <2>2
<1>5. x < y <=> x * c < y * c
  BY <1>1, <1>4
<1>6. r < s <=> r * w < s * w
  BY <1>1, <1>4
<1> QED
  BY <1>2, <1>3, <1>5, <1>6 DEF x, y, r, s

(* from_float's search, by its parts.                                      *)
Cheaper11(x, e, f) == ErrorOf(x, e) * Up(f) < ErrorOf(x, f) * Up(e)
Fitting(x) == {e \in -16 .. 15 : Fits(x, e)}
Best(x, e) ==
  \A f \in Fitting(x) : ~Cheaper11(x, f, e) /\ (~Cheaper11(x, e, f) => e <= f)

(* A mantissa is off by half a step at most.                               *)
LEMMA Rounded ==
  ASSUME NEW x \in Nat, NEW e \in Exponents11
  PROVE  /\ MantissaOf(x, e) \in Nat /\ ErrorOf(x, e) \in Nat
         /\ 2 * ErrorOf(x, e) <= 1000 * Down(e)
<1> DEFINE n == x * Up(e)
           d == 1000 * Down(e)
           m == MantissaOf(x, e)
<1>1. n \in Nat /\ d \in Nat \ {0}
  BY Scales
<1>2. m = RoundDiv(n, d)
  BY DEF MantissaOf
<1> HIDE DEF n, d
<1>3. m \in Nat /\ 2 * Distance(m * d, n) <= d
  BY <1>1, <1>2, RoundHalf
<1> HIDE DEF m
<1>4. Down(e) \in Nat
  BY Scales
<1>5. m * d = m * Down(e) * 1000
  BY <1>3, <1>4 DEF d
<1>6. ErrorOf(x, e) = Distance(m * d, n)
  BY <1>5 DEF ErrorOf, m, n
<1>7. m * d \in Nat
  BY <1>1, <1>3
<1>8. ErrorOf(x, e) \in Nat
  BY <1>1, <1>6, <1>7 DEF Distance
<1> QED
  BY <1>3, <1>6, <1>8 DEF m, d

(* Of the exponents that fit, there is a first with the least error.       *)
LEMMA BestExists ==
  ASSUME NEW x \in Nat, Fitting(x) # {}
  PROVE  \E e \in Fitting(x) : Best(x, e)
<1> DEFINE K(e) == 65536 \div Up(e)
           C(e) == ErrorOf(x, e) * K(e)
           F == Fitting(x)
<1>1. \A e \in F : e \in Exponents11
  BY DEF Fitting, Exponents11
<1>2. ASSUME NEW e \in F
      PROVE  /\ Up(e) \in Nat \ {0} /\ K(e) \in Nat \ {0} /\ Up(e) * K(e) = 65536
             /\ ErrorOf(x, e) \in Nat /\ C(e) \in Nat
  <2>1. Up(e) \in Powers /\ Up(e) \in Nat \ {0} /\ ErrorOf(x, e) \in Nat
    BY <1>1, Scales, Rounded
  <2> DEFINE u == Up(e)
  <2>2. \A p \in Powers : p * (65536 \div p) = 65536 /\ 65536 \div p \in Nat \ {0}
    BY DEF Powers
  <2>3. Up(e) * K(e) = 65536 /\ K(e) \in Nat \ {0}
    BY <2>1, <2>2
  <2> HIDE DEF K
  <2> QED
    BY <2>1, <2>3
<1>3. ASSUME NEW e \in F, NEW f \in F PROVE Cheaper11(x, e, f) <=> C(e) < C(f)
  <2> DEFINE a == ErrorOf(x, e)
             b == ErrorOf(x, f)
             u == Up(e)
             v == Up(f)
             k == K(e)
             l == K(f)
             w == 65536
  <2>1. a \in Nat /\ b \in Nat /\ u \in Nat \ {0} /\ v \in Nat \ {0} /\ k \in Nat \ {0}
        /\ l \in Nat \ {0} /\ w \in Nat \ {0} /\ u * k = w /\ v * l = w
    BY <1>2
  <2> HIDE DEF a, b, u, v, k, l, w
  <2>2. a * v < b * u <=> a * k < b * l
    BY <2>1, Comparing
  <2> QED
    BY <2>2 DEF Cheaper11, a, b, u, v, k, l
<1> HIDE DEF K, C, F
<1> DEFINE T == {C(e) : e \in F}
<1>4. T \in SUBSET Nat /\ T # {}
  BY <1>2 DEF F
<1> HIDE DEF T
<1>5. PICK c \in T : \A y \in T : c <= y
  BY <1>4, LeastNumber
<1> DEFINE S == {e + 16 : e \in {f \in F : C(f) = c}}
<1>6. S \in SUBSET Nat /\ S # {}
  BY <1>1, <1>5 DEF T, Exponents11
<1> HIDE DEF S
<1>7. PICK s \in S : \A y \in S : s <= y
  BY <1>6, LeastNumber
<1>8. PICK e \in F : C(e) = c /\ s = e + 16
  BY <1>7 DEF S
<1>9. ASSUME NEW f \in F PROVE ~Cheaper11(x, f, e) /\ (~Cheaper11(x, e, f) => e <= f)
  <2>1. C(f) \in Nat /\ C(e) \in Nat /\ C(e) <= C(f)
    BY <1>2, <1>5, <1>8 DEF T
  <2>2. ~Cheaper11(x, f, e)
    BY <1>3, <2>1
  <2>3. ASSUME ~Cheaper11(x, e, f) PROVE e <= f
    <3>1. C(f) = c
      BY <1>3, <1>8, <2>1, <2>3
    <3>2. f + 16 \in S
      BY <3>1 DEF S
    <3> QED
      BY <1>1, <1>7, <1>8, <3>2 DEF Exponents11
  <2> QED
    BY <2>2, <2>3
<1> QED
  BY <1>8, <1>9 DEF Best, F

(* The exponent that from_float takes.                                     *)
LEMMA FromFloat ==
  ASSUME NEW x \in Nat \ {0}, Fitting(x) # {}
  PROVE  \E e \in Fitting(x) : from_float(x) = [exp |-> e % 32, mant |-> MantissaOf(x, e) % 2048]
<1> DEFINE best == CHOOSE e \in Fitting(x) : Best(x, e)
<1>1. best \in Fitting(x)
  BY BestExists
<1>2. from_float(x) = [exp |-> best % 32, mant |-> MantissaOf(x, best) % 2048]
  BY DEF from_float, Fitting, Best, Cheaper11
<1> HIDE DEF best
<1> QED
  BY <1>1, <1>2

(* What from_float makes of x holds x.                                     *)
HalfStep(x) == HoldsLinear11(from_float(x), x)

(* A value whose mantissas do not reach the sign bit comes back within     *)
(* half a step.                                                            *)
LEMMA RoundTrip ==
  ASSUME NEW x \in Nat \ {0}, Fitting(x) # {},
         \A e \in Fitting(x) : MantissaOf(x, e) <= 1023
  PROVE  HalfStep(x)
<1>1. PICK e \in Fitting(x) : from_float(x) = [exp |-> e % 32, mant |-> MantissaOf(x, e) % 2048]
  BY FromFloat
<1> DEFINE m == MantissaOf(x, e)
<1>2. e \in Exponents11 /\ m \in Nat /\ m <= 1023
  <2>1. e \in Exponents11
    BY DEF Fitting, Exponents11
  <2> QED
    BY <2>1, Rounded
<1>3. e % 32 = IF e < 0 THEN e + 32 ELSE e
  BY <1>2 DEF Exponents11
<1>4. extract_5bit_exponent(e % 32) = e
  BY <1>2, <1>3 DEF extract_5bit_exponent, Exponents11
<1> HIDE DEF m
<1>5. m % 2048 = m
  BY <1>2
<1>6. SignedMantissa(m % 2048) = m
  BY <1>2, <1>5 DEF SignedMantissa
<1>7. from_float(x).exp = e % 32 /\ from_float(x).mant = m % 2048
  BY <1>1 DEF m
<1>8. Linear11Error(from_float(x), x) = Distance(m * 1000 * Down(e), x * Up(e))
  BY <1>4, <1>6, <1>7 DEF Linear11Error
<1>9. m * 1000 * Down(e) = m * Down(e) * 1000
  BY <1>2, Scales
<1>10. Linear11Error(from_float(x), x) = ErrorOf(x, e)
  BY <1>8, <1>9 DEF ErrorOf, m
<1>11. 2 * ErrorOf(x, e) <= 1000 * Down(e)
  BY <1>2, Rounded
<1> QED
  BY <1>4, <1>7, <1>10, <1>11 DEF HalfStep, HoldsLinear11

(* A quotient that was rounded down, multiplied again.                     *)
LEMMA Product ==
  ASSUME NEW x \in Nat, NEW u \in Nat \ {0}, NEW t \in Nat, x <= t \div u
  PROVE  x * u <= t
<1>1. t \div u \in Nat /\ u * (t \div u) <= t
  OBVIOUS
<1> DEFINE q == t \div u
<1>2. q \in Nat /\ u * q <= t /\ x <= q
  BY <1>1
<1> HIDE DEF q
<1>3. x * u <= q * u
  BY <1>2
<1> QED
  BY <1>2, <1>3

(* The mantissas of such a value round to 1023 at most, or do not fit.     *)
LEMMA SettingRounds ==
  ASSUME NEW x \in Nat \ {0}, x <= 1000000,
         \A p \in Powers : x * p <= 1023499 \/ x * p > 1023999
  PROVE  HalfStep(x)
<1>1. 0 \in Fitting(x)
  <2>1. 0 \in Exponents11 /\ 2 ^ 0 = 1
    BY DEF Exponents11
  <2>2. Down(0) = 1
    BY <2>1 DEF Down
  <2>3. x \div 1 = x
    OBVIOUS
  <2>4. Fits(x, 0)
    BY <2>2, <2>3 DEF Fits
  <2> QED
    BY <2>1, <2>4 DEF Fitting, Exponents11
<1>2. ASSUME NEW e \in Fitting(x) PROVE MantissaOf(x, e) <= 1023
  <2>1. e \in Exponents11 /\ Fits(x, e)
    BY DEF Fitting, Exponents11
  <2>2. CASE e < 0
    <3> DEFINE u == Up(e)
    <3>1. u \in Powers /\ u \in Nat \ {0} /\ Down(e) = 1
      BY <2>1, <2>2, Scales
    <3>2. x <= 1023999 \div u
      BY <2>1, <2>2 DEF Fits
    <3> DEFINE n == x * u
    <3>3. MantissaOf(x, e) = (2 * n + 1000) \div 2000
      BY <3>1 DEF MantissaOf, RoundDiv
    <3> HIDE DEF u
    <3>4. n <= 1023999 /\ n \in Nat
      BY <3>1, <3>2, Product
    <3>5. n <= 1023499
      BY <3>1, <3>4
    <3> HIDE DEF n
    <3>6. (2 * n + 1000) \div 2000 <= 1023
      BY <3>4, <3>5
    <3> QED
      BY <3>3, <3>6
  <2>3. CASE ~(e < 0)
    <3> DEFINE d == Down(e)
    <3>1. d \in Nat \ {0} /\ Up(e) = 1
      BY <2>1, <2>3, Scales DEF Exponents11
    <3> DEFINE a == 2 * x + 1000 * d
               b == 2 * (1000 * d)
               q == a \div b
    <3>2. MantissaOf(x, e) = q
      BY <3>1 DEF MantissaOf, RoundDiv
    <3> HIDE DEF d
    <3>3. a \in Nat /\ b \in Nat \ {0} /\ a < 1024 * b
      BY <3>1
    <3> HIDE DEF a, b
    <3>4. q \in Nat /\ b * q <= a
      BY <3>3
    <3> HIDE DEF q
    <3>5. q < 1024
      <4> SUFFICES ASSUME q >= 1024 PROVE FALSE
        BY <3>4
      <4>1. b * q >= b * 1024
        BY <3>3, <3>4
      <4> QED
        BY <3>3, <3>4, <4>1
    <3> QED
      BY <3>2, <3>4, <3>5
  <2> QED
    BY <2>2, <2>3
<1> QED
  BY <1>1, <1>2, RoundTrip

(* Each setting that is written in LINEAR11 comes back within half a step. *)
LEMMA SettingsRoundTrip ==
  \A k \in DOMAIN config : config[k].format = "linear11" => HalfStep(config[k].value)
<1>1. \A k \in DOMAIN config : config[k].format = "linear11" =>
        config[k].value \in {0, 250, 3000, 4500, 4800, 6500, 25000, 30000, 105000, 145000, 650000}
  BY SMTT(60) DEF config, L11, L16, Byte
<1>2. HalfStep(0)
  <2>1. from_float(0) = [exp |-> 0, mant |-> 0]
    BY DEF from_float
  <2>2. Up(0) = 1 /\ Down(0) = 1
    BY DEF Up, Down
  <2> QED
    BY <2>1, <2>2 DEF HalfStep, HoldsLinear11, Linear11Error, extract_5bit_exponent,
                      SignedMantissa, Distance
<1>3. HalfStep(250)
  <2>1. \A p \in Powers : 250 * p <= 1023499 \/ 250 * p > 1023999
    BY DEF Powers
  <2> QED
    BY <2>1, SettingRounds
<1>4. HalfStep(3000)
  <2>1. \A p \in Powers : 3000 * p <= 1023499 \/ 3000 * p > 1023999
    BY DEF Powers
  <2> QED
    BY <2>1, SettingRounds
<1>5. HalfStep(4500)
  <2>1. \A p \in Powers : 4500 * p <= 1023499 \/ 4500 * p > 1023999
    BY DEF Powers
  <2> QED
    BY <2>1, SettingRounds
<1>6. HalfStep(4800)
  <2>1. \A p \in Powers : 4800 * p <= 1023499 \/ 4800 * p > 1023999
    BY DEF Powers
  <2> QED
    BY <2>1, SettingRounds
<1>7. HalfStep(6500)
  <2>1. \A p \in Powers : 6500 * p <= 1023499 \/ 6500 * p > 1023999
    BY DEF Powers
  <2> QED
    BY <2>1, SettingRounds
<1>8. HalfStep(25000)
  <2>1. \A p \in Powers : 25000 * p <= 1023499 \/ 25000 * p > 1023999
    BY DEF Powers
  <2> QED
    BY <2>1, SettingRounds
<1>9. HalfStep(30000)
  <2>1. \A p \in Powers : 30000 * p <= 1023499 \/ 30000 * p > 1023999
    BY DEF Powers
  <2> QED
    BY <2>1, SettingRounds
<1>10. HalfStep(105000)
  <2>1. \A p \in Powers : 105000 * p <= 1023499 \/ 105000 * p > 1023999
    BY DEF Powers
  <2> QED
    BY <2>1, SettingRounds
<1>11. HalfStep(145000)
  <2>1. \A p \in Powers : 145000 * p <= 1023499 \/ 145000 * p > 1023999
    BY DEF Powers
  <2> QED
    BY <2>1, SettingRounds
<1>12. HalfStep(650000)
  <2>1. \A p \in Powers : 650000 * p <= 1023499 \/ 650000 * p > 1023999
    BY DEF Powers
  <2> QED
    BY <2>1, SettingRounds
<1> QED
  BY <1>1, <1>2, <1>3, <1>4, <1>5, <1>6, <1>7, <1>8, <1>9, <1>10, <1>11, <1>12

-----------------------------------------------------------------------------
(***************************************************************************)
(* Then the walk of init through write_config, which only gets to its end  *)
(* when every write was made, each with the exponent of this device.       *)
(* Afterwards nothing but get_iout writes a setting, and that one is PHASE.*)
(***************************************************************************)
(* The k-th setting is in its register, in the format of this device.      *)
InPlace(k) ==
  /\ config[k].reg \in DOMAIN regs
  /\ Encoded(config[k], mode) # <<>>
  /\ \/ regs[config[k].reg] = Encoded(config[k], mode)[1]
     \/ config[k].reg = "PHASE" /\ regs[config[k].reg] = AllPhases

(* init has written the settings that it is past.                          *)
Written ==
  /\ mode \in VoutExponents /\ cached_vout_mode \in {<<>>, <<mode>>}
  /\ init_at \in 1 .. Len(config) + 2
  /\ \A k \in write_config : k < init_at - 1 => InPlace(k)

(* The rail is switched by a thread that has got the driver from init.     *)
Switched ==
  /\ stage = "share" => init_at = Len(config) + 2
  /\ lock = "thread" => stage = "share"
  /\ enabled_ok \in BOOLEAN /\ (enabled_ok => stage = "share" /\ operation = "on")

LimitsInv == Written /\ Switched

(* No register is written twice.                                           *)
LEMMA ConfigShape ==
  /\ Len(config) \in Nat /\ DOMAIN config = 1 .. Len(config)
  /\ write_config \subseteq DOMAIN config
  /\ \A j, k \in DOMAIN config : config[j].reg = config[k].reg => j = k
<1>1. Len(config) = 30 /\ DOMAIN config = 1 .. 30
  BY DEF config
<1>2. \A j, k \in DOMAIN config : config[j].reg = config[k].reg => j = k
  BY SMTT(60) DEF config, L11, L16, Byte
<1>3. write_config \subseteq DOMAIN config
  BY Zenon DEF write_config
<1>4. Len(config) \in Nat /\ DOMAIN config = 1 .. Len(config)
  BY <1>1
<1> QED
  BY <1>2, <1>3, <1>4, Zenon

(* A write puts its setting in place and leaves the others there.          *)
LEMMA WriteConfigInPlace ==
  ASSUME LimitsInv, WriteConfig
  PROVE  LimitsInv'
<1>0. PICK k \in DOMAIN config : k = init_at - 1
  BY DEF WriteConfig
<1> DEFINE w == config[k]
           exponent == IF cached_vout_mode = <<>> THEN mode ELSE cached_vout_mode[1]
           raw == EncodedConfig[exponent][k]
<1>1. /\ stage = "init"
      /\ UNCHANGED <<mode, operation, lock, enabled_ok>>
  BY DEF WriteConfig, switchVars
<1>2. exponent = mode
  BY DEF LimitsInv, Written
<1>3. raw = Encoded(w, mode)
  BY <1>1, <1>2 DEF EncodedConfig, LimitsInv, Written
<1>4. init_at \in 1 .. Len(config) + 1 /\ Len(config) \in Nat
  BY <1>0, ConfigShape DEF LimitsInv, Written
<1>5. lock # "thread" /\ ~enabled_ok
  BY <1>1 DEF LimitsInv, Switched
<1>6. CASE /\ k \notin write_config /\ init_at' = init_at + 1
           /\ UNCHANGED <<cached_vout_mode, regs, stage>>
  <2>1. \A j \in write_config : j < init_at' - 1 => j < init_at - 1
    BY <1>0, <1>4, <1>6, ConfigShape
  <2>2. \A j \in write_config : InPlace(j) => InPlace(j)'
    BY <1>1, <1>6 DEF InPlace
  <2>3. Written'
    BY <1>1, <1>4, <1>6, <2>1, <2>2 DEF LimitsInv, Written
  <2> QED
    BY <1>1, <1>5, <1>6, <2>3 DEF LimitsInv, Switched
<1>7. CASE /\ k \in write_config
           /\ cached_vout_mode' = IF w.format = "linear16" THEN <<exponent>> ELSE cached_vout_mode
           /\ raw = <<>> /\ stage' = "failed" /\ UNCHANGED <<regs, init_at>>
  <2>1. \A j \in write_config : InPlace(j) => InPlace(j)'
    BY <1>1, <1>7 DEF InPlace
  <2>2. cached_vout_mode' \in {<<>>, <<mode'>>}
    BY <1>1, <1>2, <1>7 DEF LimitsInv, Written
  <2>3. Written'
    BY <1>1, <1>7, <2>1, <2>2 DEF LimitsInv, Written
  <2> QED
    BY <1>1, <1>5, <1>7, <2>3 DEF LimitsInv, Switched
<1>8. CASE /\ k \in write_config
           /\ cached_vout_mode' = IF w.format = "linear16" THEN <<exponent>> ELSE cached_vout_mode
           /\ raw # <<>>
           /\ regs' = Wrote(w.reg, raw[1])
           /\ init_at' = init_at + 1 /\ UNCHANGED stage
  <2>1. cached_vout_mode' \in {<<>>, <<mode'>>}
    BY <1>1, <1>2, <1>8 DEF LimitsInv, Written
  <2>2. InPlace(k)'
    BY <1>1, <1>3, <1>8 DEF InPlace, Wrote
  <2>3. ASSUME NEW j \in write_config, j # k, InPlace(j) PROVE InPlace(j)'
    <3>1. config[j].reg # w.reg
      BY <1>1, <2>3, ConfigShape
    <3> QED
      BY <1>1, <1>8, <2>3, <3>1 DEF InPlace, Wrote
  <2>4. \A j \in write_config : j < init_at' - 1 => j < init_at - 1 \/ j = k
    BY <1>0, <1>4, <1>8, ConfigShape
  <2>5. \A j \in write_config : j < init_at' - 1 => InPlace(j)'
    BY <2>2, <2>3, <2>4 DEF LimitsInv, Written
  <2>6. init_at' \in 1 .. Len(config) + 2
    BY <1>4, <1>8
  <2>7. Written'
    BY <1>1, <2>1, <2>5, <2>6 DEF LimitsInv, Written
  <2> QED
    BY <1>1, <1>5, <1>8, <2>7 DEF LimitsInv, Switched
<1> QED
  BY <1>0, <1>6, <1>7, <1>8 DEF WriteConfig

(* What leaves the configuration alone, but for PHASE.                     *)
LEMMA WrittenStays ==
  ASSUME Written, UNCHANGED <<mode, cached_vout_mode, init_at>>, UNCHANGED regs \/ get_iout
  PROVE  Written'
<1>1. regs' = regs \/ regs' = Wrote("PHASE", AllPhases)
  BY DEF get_iout
<1>2. CASE regs' = regs
  <2>1. \A j \in write_config : InPlace(j) => InPlace(j)'
    BY <1>2 DEF InPlace
  <2> QED
    BY <2>1 DEF Written
<1>3. CASE regs' = Wrote("PHASE", AllPhases)
  <2>1. \A j \in write_config : InPlace(j) => InPlace(j)'
    BY <1>3 DEF InPlace, Wrote
  <2> QED
    BY <2>1 DEF Written
<1> QED
  BY <1>1, <1>2, <1>3

(* Every behaviour of Regulator keeps, with the position of init in        *)
(* write_config, that the settings before it are in their registers, but   *)
(* for PHASE after a get_iout.                                             *)
THEOREM LimitsInvariant == RegulatorSpec => []LimitsInv
<1>1. RegulatorInit => LimitsInv
  <2> SUFFICES ASSUME RegulatorInit PROVE LimitsInv
    OBVIOUS
  <2>1. init_at = 1 /\ mode \in VoutExponents /\ cached_vout_mode = <<>> /\ stage = "init"
        /\ lock = "none" /\ enabled_ok = FALSE
    BY DEF RegulatorInit
  <2>2. \A k \in write_config : ~(k < init_at - 1)
    BY <2>1, ConfigShape
  <2>3. init_at \in 1 .. Len(config) + 2
    BY <2>1, ConfigShape
  <2> QED
    BY <2>1, <2>2, <2>3 DEF LimitsInv, Written, Switched
<1>2. LimitsInv /\ [RegulatorNext]_regulatorVars => LimitsInv'
  <2> SUFFICES ASSUME LimitsInv, [RegulatorNext]_regulatorVars PROVE LimitsInv'
    OBVIOUS
  <2>1. CASE InitStart
    <3>1. stage = "init" /\ init_at = 1 /\ init_at' = 2
          /\ UNCHANGED <<mode, regs, cached_vout_mode, stage, lock, enabled_ok>>
      BY <2>1 DEF InitStart, switchVars
    <3>2. \A k \in write_config : ~(k < init_at' - 1)
      BY <3>1, ConfigShape
    <3>3. init_at' \in 1 .. Len(config) + 2
      BY <3>1, ConfigShape
    <3>4. Written'
      BY <3>1, <3>2, <3>3 DEF LimitsInv, Written
    <3> QED
      BY <3>1, <3>4 DEF LimitsInv, Switched
  <2>2. CASE WriteConfig
    BY <2>2, WriteConfigInPlace
  <2>3. CASE InitEnd
    <3>1. Written'
      BY <2>3, WrittenStays DEF InitEnd, dump_configuration, LimitsInv
    <3> QED
      BY <2>3, <3>1 DEF InitEnd, dump_configuration, switchVars, LimitsInv, Switched
  <2>4. CASE InitFails
    <3>1. Written'
      BY <2>4, WrittenStays DEF InitFails, deviceVars, LimitsInv
    <3> QED
      BY <2>4, <3>1 DEF InitFails, deviceVars, switchVars, LimitsInv, Switched
  <2>5. ASSUME NEW op \in {"on", "off"}, ThreadWrites(op) PROVE LimitsInv'
    <3>1. Written'
      BY <2>5, WrittenStays DEF ThreadWrites, LimitsInv
    <3> QED
      BY <2>5, <3>1 DEF ThreadWrites, LimitsInv, Switched
  <2>6. CASE ThreadReadsBack
    <3>1. Written'
      BY <2>6, WrittenStays DEF ThreadReadsBack, deviceVars, LimitsInv
    <3>2. /\ lock = "thread" /\ lock' = "none" /\ enabled_ok' \in BOOLEAN
          /\ enabled_ok' => operation = "on"
          /\ UNCHANGED <<operation, stage, init_at>>
      BY <2>6 DEF ThreadReadsBack, deviceVars
    <3> QED
      BY <3>1, <3>2 DEF LimitsInv, Switched
  <2>7. CASE /\ UNCHANGED <<mode, operation, switchVars, cached_vout_mode, stage, init_at>>
             /\ UNCHANGED regs \/ get_iout
             /\ lock' = "thread" => lock = "thread"
    <3>1. Written'
      BY <2>7, WrittenStays DEF LimitsInv
    <3> QED
      BY <2>7, <3>1 DEF switchVars, LimitsInv, Switched
  <2>8. CASE CheckStarts \/ ReadDetail \/ CheckFails \/ ClearsFaults \/ DeviceRaises
             \/ DeviceRetries
    BY <2>7, <2>8 DEF CheckStarts, ReadDetail, CheckFails, ClearsFaults, DeviceRaises,
                      DeviceRetries, deviceVars
  <2>10. CASE CheckEnds \/ ReadsPower
    BY <2>7, <2>10 DEF CheckEnds, ReadsPower
  <2>9. CASE UNCHANGED regulatorVars
    BY <2>7, <2>9 DEF regulatorVars, deviceVars
  <2> QED
    BY <2>1, <2>2, <2>3, <2>4, <2>5, <2>6, <2>8, <2>9, <2>10 DEF RegulatorNext
<1> QED
  BY <1>1, <1>2, PTL DEF RegulatorSpec

(* The mantissa of a written LINEAR16 setting.                             *)
LEMMA Linear16InPlace ==
  ASSUME NEW e \in -12 .. -4, NEW x \in Nat, encode_linear16(x, e) # <<>>
  PROVE  /\ encode_linear16(x, e)[1] \in Nat
         /\ encode_linear16(x, e)[1] = (2 * (x * Up(e)) + 1000) \div 2000
         /\ 2 * Distance(encode_linear16(x, e)[1] * 1000, x * Up(e)) <= 1000
<1>1. e \in Exponents11 /\ e < 0
  BY DEF Exponents11
<1>2. Down(e) = 1 /\ Up(e) \in Nat \ {0}
  BY <1>1, Scales
<1> DEFINE n == x * Up(e)
           m == RoundDiv(n, 1000)
<1>3. n \in Nat
  BY <1>2
<1>4. encode_linear16(x, e) = IF m > 65535 THEN <<>> ELSE <<m>>
  BY <1>2 DEF encode_linear16
<1> HIDE DEF n
<1>5. m \in Nat /\ 2 * Distance(m * 1000, n) <= 1000
  BY <1>3, RoundHalf
<1>6. m = (2 * n + 1000) \div 2000
  BY DEF RoundDiv
<1> HIDE DEF m
<1>7. encode_linear16(x, e)[1] = m
  BY <1>4
<1> QED
  BY <1>5, <1>6, <1>7 DEF n

(* The invariant gives the property: thresholds that are more than a step  *)
(* apart stay apart, and the one pair that is not, 1.1 V and 1.16 V in     *)
(* sixteenths of a volt, is computed.                                      *)
LEMMA LimitsInOrder ==
  ASSUME LimitsInv, enabled_ok
  PROVE  LimitsInForce
<1> DEFINE u == Up(mode)
<1>1. mode \in -12 .. -4
  BY RegulatorCounts DEF LimitsInv, Written
<1>2. u \in Powers /\ u \in Nat \ {0} /\ u >= 16
  <2>1. mode \in Exponents11 /\ mode < 0 /\ -mode \in 0 .. 16 /\ -mode >= 4
    BY <1>1 DEF Exponents11
  <2>2. u = 2 ^ (-mode)
    BY <2>1 DEF Up
  <2> DEFINE n == -mode
  <2>3. n \in 0 .. 16 /\ n >= 4 /\ u = 2 ^ n
    BY <2>1, <2>2
  <2> HIDE DEF n, u
  <2>4. u >= 16
    BY <2>3, PowersOfTwo
  <2> QED
    BY <2>1, <2>4, Scales DEF u
<1>3. u = 16 \/ u >= 32
  BY <1>2 DEF Powers
<1>4. operation = "on" /\ \A k \in write_config : InPlace(k)
  <2>1. operation = "on" /\ init_at = Len(config) + 2
    BY DEF LimitsInv, Switched
  <2>2. \A k \in write_config : k < init_at - 1
    BY <2>1, ConfigShape
  <2> QED
    BY <2>1, <2>2 DEF LimitsInv, Written
<1>5. \A k \in DOMAIN config : config[k].value \in Nat
  BY SMTT(60) DEF config, L11, L16, Byte
<1>17. /\ 1 \in DOMAIN config /\ config[1].reg = "PHASE" /\ config[1].format = "raw"
       /\ \A k \in DOMAIN config : config[k].reg = "PHASE" => config[k].format = "raw"
       /\ \A k \in DOMAIN config : config[k].format \in {"raw", "linear11", "linear16"}
  BY SMTT(60) DEF config, L11, L16, Byte
<1>6. ASSUME NEW k \in write_config, config[k].format = "linear16"
      PROVE  /\ regs[config[k].reg] \in Nat
             /\ regs[config[k].reg] = (2 * (config[k].value * u) + 1000) \div 2000
             /\ 2 * Distance(regs[config[k].reg] * 1000, config[k].value * u) <= 1000
  <2> DEFINE x == config[k].value
  <2>1. x \in Nat
    BY <1>5, ConfigShape
  <2>2. Encoded(config[k], mode) = encode_linear16(x, mode)
    BY <1>6 DEF Encoded
  <2>3. encode_linear16(x, mode) # <<>> /\ regs[config[k].reg] = encode_linear16(x, mode)[1]
    <3>1. config[k].reg # "PHASE"
      BY <1>6, <1>17, ConfigShape
    <3> QED
      BY <1>4, <2>2, <3>1 DEF InPlace
  <2> HIDE DEF x
  <2>4. /\ encode_linear16(x, mode)[1] \in Nat
        /\ encode_linear16(x, mode)[1] = (2 * (x * u) + 1000) \div 2000
        /\ 2 * Distance(encode_linear16(x, mode)[1] * 1000, x * u) <= 1000
    BY <1>1, <2>1, <2>3, Linear16InPlace, SMTT(30)
  <2> QED
    BY <2>3, <2>4 DEF x
<1>7. /\ config[17] = [reg |-> "VOUT_UV_FAULT_LIMIT", format |-> "linear16", value |-> 750]
      /\ config[16] = [reg |-> "VOUT_UV_WARN_LIMIT", format |-> "linear16", value |-> 900]
      /\ config[15] = [reg |-> "VOUT_MARGIN_LOW", format |-> "linear16", value |-> 900]
      /\ config[14] = [reg |-> "VOUT_MARGIN_HIGH", format |-> "linear16", value |-> 1100]
      /\ config[13] = [reg |-> "VOUT_OV_WARN_LIMIT", format |-> "linear16", value |-> 1160]
      /\ config[12] = [reg |-> "VOUT_OV_FAULT_LIMIT", format |-> "linear16", value |-> 1250]
  BY DEF config, L11, L16, Byte
<1>8. \A k \in {12, 13, 14, 15, 16, 17} : k \in write_config
  <2>1. \A k \in {12, 13, 14, 15, 16, 17} : k \in DOMAIN config
    BY DEF config
  <2> QED
    BY <1>7, <2>1 DEF write_config
<1> DEFINE Half(m, x) == m \in Nat /\ 2 * Distance(m * 1000, x * u) <= 1000
           Exact(m, x) == m = (2 * (x * u) + 1000) \div 2000
           uvf == regs["VOUT_UV_FAULT_LIMIT"]
           uvw == regs["VOUT_UV_WARN_LIMIT"]
           low == regs["VOUT_MARGIN_LOW"]
           high == regs["VOUT_MARGIN_HIGH"]
           ovw == regs["VOUT_OV_WARN_LIMIT"]
           ovf == regs["VOUT_OV_FAULT_LIMIT"]
<1>9. /\ Half(uvf, 750) /\ Half(uvw, 900) /\ Half(low, 900)
      /\ Half(high, 1100) /\ Half(ovw, 1160) /\ Half(ovf, 1250)
  BY <1>6, <1>7, <1>8
<1>10. Exact(uvw, 900) /\ Exact(low, 900) /\ Exact(high, 1100) /\ Exact(ovw, 1160)
  BY <1>6, <1>7, <1>8
<1> HIDE DEF u, uvf, uvw, low, high, ovw, ovf
<1>11. uvf < uvw
  BY <1>2, <1>9 DEF Distance
<1>12. uvw <= low
  BY <1>9, <1>10
<1>13. low < u /\ u < high
  BY <1>2, <1>9 DEF Distance
<1>14. ovw < ovf
  BY <1>2, <1>9 DEF Distance
<1>15. high < ovw
  <2>1. CASE u = 16
    <3>1. high = 18 /\ ovw = 19
      BY <1>10, <2>1
    <3> QED
      BY <3>1
  <2>2. CASE u >= 32
    BY <1>2, <1>9, <2>2 DEF Distance
  <2> QED
    BY <1>3, <2>1, <2>2
<1>16. ASSUME NEW k \in write_config PROVE InForce(config[k])
  <2> DEFINE w == config[k]
  <2>1. k \in DOMAIN config /\ w.reg \in DOMAIN regs /\ InPlace(k)
    BY <1>4, ConfigShape DEF InPlace
  <2>2. CASE w.format = "linear11"
    <3>1. w.reg # "PHASE"
      BY <1>17, <2>1, <2>2
    <3>2. regs[w.reg] = from_float(w.value)
      BY <2>1, <2>2, <3>1 DEF InPlace, Encoded
    <3>3. HoldsLinear11(regs[w.reg], w.value)
      BY <2>1, <2>2, <3>2, SettingsRoundTrip DEF HalfStep
    <3> QED
      BY <2>1, <2>2, <3>3 DEF InForce
  <2>3. CASE w.format = "linear16"
    <3>1. HoldsLinear16(regs[w.reg], w.value, mode)
      BY <1>6, <2>3 DEF HoldsLinear16, u
    <3> QED
      BY <2>1, <2>3, <3>1 DEF InForce
  <2>4. CASE w.format = "raw"
    <3>1. Encoded(w, mode) = <<w.value>>
      BY <2>4 DEF Encoded
    <3>2. regs[w.reg] = w.value \/ (w.reg = "PHASE" /\ regs[w.reg] = AllPhases)
      BY <2>1, <3>1 DEF InPlace
    <3> QED
      BY <2>1, <2>4, <3>2 DEF InForce
  <2> QED
    BY <1>17, <2>1, <2>2, <2>3, <2>4
<1> QED
  BY <1>4, <1>11, <1>12, <1>13, <1>14, <1>15, <1>16
     DEF LimitsInForce, u, uvf, uvw, low, high, ovw, ovf

(* For any VOUT_MODE of the device and any failing transactions: a rail    *)
(* that enable_output reported on has every setting of write_config but    *)
(* PHASE in its register, within half a step, and its thresholds in order, *)
(* whatever the monitor has read and cleared since.                        *)
THEOREM LimitsInForceCorrect == RegulatorSpec => []LimitsInForce
<1>1. LimitsInv => LimitsInForce
  BY LimitsInOrder DEF LimitsInForce
<1> QED
  BY <1>1, LimitsInvariant, PTL

-----------------------------------------------------------------------------
(***************************************************************************)
(* The sensors: what the drivers make of the devices' registers.           *)
(***************************************************************************)
(* get_external_temperature: the high byte of one temperature with the low *)
(* byte of another is within a degree of the first.                        *)
LEMMA ExternalReading ==
  ASSUME NEW t \in Celsius, NEW u \in Celsius,
         external_temperature(EmcHigh(t), EmcLow(u)) # <<>>
  PROVE  external_temperature(EmcHigh(t), EmcLow(u))[1] - t \in -15 .. 15
<1> DEFINE high == EmcHigh(t)
           frac == (u % 16) \div 2
           raw == 8 * high + frac
<1>1. PICK q \in -64 .. 126, r \in 0 .. 15 : q = t \div 16 /\ t = 16 * q + r
  <2>1. /\ t \div 16 \in -64 .. 126 /\ t % 16 \in 0 .. 15
        /\ t = 16 * (t \div 16) + (t % 16)
    BY DEF Celsius
  <2> QED
    BY <2>1
<1>2. high = IF q < 0 THEN q + 256 ELSE q
  <2>1. q % 256 = IF q < 0 THEN q + 256 ELSE q
    OBVIOUS
  <2> QED
    BY <1>1, <2>1 DEF EmcHigh
<1>3. frac \in 0 .. 7
  BY DEF Celsius
<1>4. EmcLow(u) \div 32 = frac
  BY <1>3 DEF EmcLow
<1> HIDE DEF high, frac
<1>5. external_temperature(EmcHigh(t), EmcLow(u)) =
        IF raw \in {1016, 1023} THEN <<>>
        ELSE <<2 * (IF raw >= 1024 THEN raw - 2048 ELSE raw)>>
  BY <1>4 DEF external_temperature, high
<1>6. external_temperature(EmcHigh(t), EmcLow(u))[1] =
        2 * (IF raw >= 1024 THEN raw - 2048 ELSE raw)
  BY <1>5
<1>7. 2 * (IF raw >= 1024 THEN raw - 2048 ELSE raw) = 16 * q + 2 * frac
  <2>1. CASE q < 0
    BY <1>2, <1>3, <2>1
  <2>2. CASE ~(q < 0)
    BY <1>2, <1>3, <2>2
  <2> QED
    BY <2>1, <2>2
<1>8. (16 * q + 2 * frac) - t \in -15 .. 15
  BY <1>1, <1>3
<1> QED
  BY <1>6, <1>7, <1>8

(* from_high_low likewise, of a device that shows 0 below freezing.        *)
LEMMA RightReading ==
  ASSUME NEW t \in Celsius, NEW u \in Celsius
  PROVE  LET value == from_high_low(TmpHigh(t), TmpLow(u))[1]
         IN IF t < 0 THEN value \in 0 .. 15 ELSE value - t \in -15 .. 15
<1>1. TmpLow(u) \div 16 \in 0 .. 15
  <2>1. u % 16 \in 0 .. 15
    BY DEF Celsius
  <2> QED
    BY <2>1 DEF TmpLow
<1>2. from_high_low(TmpHigh(t), TmpLow(u))[1] = 16 * TmpHigh(t) + TmpLow(u) \div 16
  BY DEF from_high_low
<1>3. CASE t < 0
  BY <1>1, <1>2, <1>3 DEF TmpHigh
<1>4. CASE ~(t < 0)
  <2>1. t \div 16 \in Nat /\ t % 16 \in 0 .. 15 /\ t = 16 * (t \div 16) + (t % 16)
    BY <1>4 DEF Celsius
  <2> QED
    BY <1>1, <1>2, <1>4, <2>1 DEF TmpHigh
<1> QED
  BY <1>3, <1>4

(* from_raw inverts the two's complement word of the TMP1075.              *)
LEMMA LeftReading ==
  ASSUME NEW t \in Celsius
  PROVE  from_raw(Tmp1075Raw(t)) = <<t>>
<1>1. Tmp1075Raw(t) = IF t < 0 THEN 16 * t + 65536 ELSE 16 * t
  BY DEF Celsius, Tmp1075Raw
<1>2. (16 * t) \div 16 = t
  BY DEF Celsius
<1> QED
  BY <1>1, <1>2 DEF Celsius, from_raw

(* get_tach_count puts the two bytes of a count together again.            *)
LEMMA TachReading ==
  ASSUME NEW n \in Word16
  PROVE  256 * (n \div 256) + (n % 256) = n
<1>1. n \in Nat
  BY SMTT(30) DEF Word16
<1> QED
  BY <1>1

FanSettings == {[duty |-> 0, set |-> 0], [duty |-> 63, set |-> 100], [duty |-> 15, set |-> 25]}

(* The three fan settings of the board come back within 2 %.               *)
LEMMA SpeedReading ==
  /\ \A f \in FanSettings : f.set - PercentOf(f.duty) \in 0 .. 2
  /\ [duty |-> DutyOf(100), set |-> 100] \in FanSettings
  /\ [duty |-> DutyOf(25), set |-> 25] \in FanSettings
<1>1. PercentOf(0) = 0 /\ PercentOf(63) = 100 /\ PercentOf(15) = 23
  BY DEF PercentOf, PWM_MAX
<1>2. DutyOf(100) = 63 /\ DutyOf(25) = 15
  BY DEF DutyOf, PWM_MAX
<1> QED
  BY <1>1, <1>2 DEF FanSettings

(* The lowest temperature, at which the sensors begin, is one of them.     *)
LEMMA LowestTemperature ==
  (CHOOSE t \in Temperatures : \A u \in Temperatures : t <= u) \in Temperatures
<1> DEFINE R == {ss \in Nat \X Nat : ss[1] < ss[2]}
           T == {t + 1024 : t \in Temperatures}
<1>1. IsWellFoundedOn(R, Nat)
  BY NatLessThanWellFounded DEF OpToRel
<1>2. T \subseteq Nat /\ T # {}
  <2>1. \A t \in Temperatures : t + 1024 \in Nat
    <3>1. \A t \in Celsius : t + 1024 \in Nat
      BY DEF Celsius
    <3> QED
      BY <3>1, SensorRanges
  <2>2. T \subseteq Nat
    BY <2>1
  <2>3. PICK t : t \in Temperatures
    BY SensorRanges
  <2>4. t + 1024 \in T
    BY <2>3
  <2> QED
    BY <2>2, <2>4
<1> HIDE DEF R, T
<1>3. PICK x \in T : \A y \in T : ~(<<y, x>> \in R)
  BY <1>1, <1>2, WFMin
<1>4. \A y \in T : x <= y
  <2> SUFFICES ASSUME NEW y \in T PROVE x <= y
    OBVIOUS
  <2>1. x \in Nat /\ y \in Nat
    BY <1>2, <1>3
  <2>2. ~(y < x)
    BY <1>3, <2>1 DEF R
  <2> QED
    BY <2>1, <2>2
<1>5. PICK t \in Temperatures : x = t + 1024
  BY <1>3 DEF T
<1>6. \A u \in Celsius : u \in Int
  BY DEF Celsius
<1>7. ASSUME NEW u \in Temperatures PROVE t <= u
  <2>1. t \in Int /\ u \in Int
    BY <1>5, <1>6, <1>7, SensorRanges
  <2>2. u + 1024 \in T
    BY <1>7 DEF T
  <2> QED
    BY <1>4, <1>5, <2>1, <2>2
<1> QED
  BY <1>7

(***************************************************************************)
(* The inductive invariant of the sensors.  A poller between its two       *)
(* transactions holds the first byte of a temperature or count together    *)
(* with the truth, and an emberOne sensor is only read while its supply is *)
(* on: the shutdown waits for the monitor.                                 *)
(***************************************************************************)
Shows == Sites \cup {"fan", "speed"}

(* What ReadingsTrue says of one reading.                                  *)
TrueReading(s, reading) ==
  reading.value # <<>> =>
    /\ s \in {"chip", "left"} => reading.value[1] - reading.truth \in -15 .. 15
    /\ s \in {"right", "chip0"} =>
         IF reading.truth < 0 THEN reading.value[1] \in 0 .. 15
         ELSE reading.value[1] - reading.truth \in -15 .. 15
    /\ s = "fan" => reading.value[1] = get_rpm(reading.truth)
    /\ s = "speed" => reading.truth - reading.value[1] \in 0 .. 2

SensorTypes ==
  /\ temp \in [Sites -> Celsius] /\ tach \in Word16 /\ fan \in FanSettings
  /\ poll \in [Pollers -> 0 .. 5] /\ DOMAIN first = Pollers /\ DOMAIN shown = Shows
  /\ first = [p \in Pollers |-> first[p]] /\ shown = [s \in Shows |-> shown[s]]

BytesHeld ==
  /\ poll["fan"] = 2 => \E t \in Celsius : first["fan"] = <<EmcHigh(t), t>>
  /\ poll["fan"] = 5 => \E n \in Word16 : first["fan"] = <<n % 256, n>>
  /\ poll["ember"] \in {3, 5} => \E t \in Celsius : first["ember"] = <<TmpHigh(t), t>>

SupplyOn ==
  /\ poll["ember"] # 0 => board \in {"running", "stopping"}
  /\ board \in {"running", "stopping"} => vddio = TRUE
  /\ board = "create" /\ create_at # 1 => vddio = TRUE

Shown == \A s \in Shows : TrueReading(s, shown[s])

SensorsInv == SensorTypes /\ BytesHeld /\ SupplyOn /\ Shown

LEMMA UnreadTrue == \A s : TrueReading(s, Unread)
BY DEF TrueReading, Unread

LEMMA ShownIsTrue == Shown => ReadingsTrue
<1> SUFFICES ASSUME Shown PROVE ReadingsTrue
  OBVIOUS
<1>1. /\ TrueReading("chip", shown["chip"]) /\ TrueReading("left", shown["left"])
      /\ TrueReading("right", shown["right"]) /\ TrueReading("chip0", shown["chip0"])
      /\ TrueReading("fan", shown["fan"]) /\ TrueReading("speed", shown["speed"])
  BY DEF Shown, Shows, Sites
<1>2. \A s \in {"chip", "left"} :
        shown[s].value # <<>> => shown[s].value[1] - shown[s].truth \in -15 .. 15
  BY <1>1 DEF TrueReading
<1>3. \A s \in {"right", "chip0"} :
        shown[s].value # <<>> =>
          IF shown[s].truth < 0 THEN shown[s].value[1] \in 0 .. 15
          ELSE shown[s].value[1] - shown[s].truth \in -15 .. 15
  BY <1>1 DEF TrueReading
<1>4. shown["fan"].value # <<>> => shown["fan"].value[1] = get_rpm(shown["fan"].truth)
  BY <1>1 DEF TrueReading
<1>5. shown["speed"].value # <<>> => shown["speed"].truth - shown["speed"].value[1] \in 0 .. 2
  BY <1>1 DEF TrueReading
<1> QED
  BY <1>2, <1>3, <1>4, <1>5 DEF ReadingsTrue

(* A poller moves on to its step n; what it publishes is true; and what it *)
(* holds is what that step expects.                                        *)
Moves(p, n) ==
  /\ n \in 0 .. 5 /\ To(p, n)
  /\ UNCHANGED <<measured, vddio, board, fan, create_at>>
  /\ p = "ember" /\ n # 0 => board \in {"running", "stopping"}

Publishes ==
  \/ UNCHANGED shown
  \/ \E s \in Shows : \E reading :
       shown' = [shown EXCEPT ![s] = reading] /\ TrueReading(s, reading)

Keeps(p, n) ==
  /\ \/ UNCHANGED first
     \/ \E held : first' = [first EXCEPT ![p] = held]
  /\ p = "fan" /\ n = 2 => \E t \in Celsius : first'["fan"] = <<EmcHigh(t), t>>
  /\ p = "fan" /\ n = 5 => \E k \in Word16 : first'["fan"] = <<k % 256, k>>
  /\ p = "ember" /\ n \in {3, 5} => \E t \in Celsius : first'["ember"] = <<TmpHigh(t), t>>

LEMMA PollingKeepsInvariant ==
  ASSUME SensorsInv, NEW p \in Pollers, NEW n, Moves(p, n), Publishes, Keeps(p, n)
  PROVE  SensorsInv'
<1> USE DEF SensorsInv
<1>1. /\ poll' \in [Pollers -> 0 .. 5] /\ poll'[p] = n
      /\ \A q \in Pollers : q # p => poll'[q] = poll[q]
  BY DEF SensorTypes, Moves, To
<1>2. /\ DOMAIN first' = Pollers /\ first' = [q \in Pollers |-> first'[q]]
      /\ \A q \in Pollers : q # p => first'[q] = first[q]
  <2>1. CASE UNCHANGED first
    BY <2>1 DEF SensorTypes
  <2>2. ASSUME NEW held, first' = [first EXCEPT ![p] = held]
        PROVE  /\ DOMAIN first' = Pollers /\ first' = [q \in Pollers |-> first'[q]]
               /\ \A q \in Pollers : q # p => first'[q] = first[q]
    BY <2>2 DEF SensorTypes
  <2> QED
    BY <2>1, <2>2 DEF Keeps
<1>3. DOMAIN shown' = Shows /\ shown' = [s \in Shows |-> shown'[s]] /\ Shown'
  <2>1. CASE UNCHANGED shown
    BY <2>1 DEF SensorTypes, Shown
  <2>2. ASSUME NEW s \in Shows, NEW reading, shown' = [shown EXCEPT ![s] = reading],
               TrueReading(s, reading)
        PROVE  DOMAIN shown' = Shows /\ shown' = [z \in Shows |-> shown'[z]] /\ Shown'
    <3>1. DOMAIN shown' = Shows /\ shown' = [z \in Shows |-> shown'[z]]
      BY <2>2 DEF SensorTypes
    <3>2. \A z \in Shows : shown'[z] = IF z = s THEN reading ELSE shown[z]
      BY <2>2 DEF SensorTypes
    <3>3. \A z \in Shows : TrueReading(z, shown'[z])
      BY <2>2, <3>2 DEF Shown
    <3> QED
      BY <3>1, <3>3 DEF Shown
  <2> QED
    BY <2>1, <2>2 DEF Publishes
<1>4. SensorTypes'
  BY <1>1, <1>2, <1>3 DEF SensorTypes, measured, Moves
<1>5. "fan" \in Pollers /\ "ember" \in Pollers /\ (p = "fan" \/ p = "ember")
  BY DEF Pollers
<1>6. BytesHeld'
  <2>1. CASE p = "fan"
    BY <1>1, <1>2, <1>5, <2>1 DEF BytesHeld, Keeps
  <2>2. CASE p = "ember"
    BY <1>1, <1>2, <1>5, <2>2 DEF BytesHeld, Keeps
  <2> QED
    BY <1>5, <2>1, <2>2
<1>7. SupplyOn'
  BY <1>1, <1>5 DEF SupplyOn, Moves
<1> QED
  BY <1>3, <1>4, <1>6, <1>7

(* The EMC2101's poller.                                                   *)
LEMMA FanPollsTrue ==
  ASSUME SensorsInv,
         \/ FanTick \/ ReadExternalHigh \/ ReadExternalLow \/ ReadFanSpeed
         \/ ReadTachFirst \/ ReadTachSecond \/ FanReadFails
  PROVE  SensorsInv'
<1>1. /\ "fan" \in Pollers /\ "fan" # "ember" /\ "chip" \in Sites
      /\ "chip" \in Shows /\ "fan" \in Shows /\ "speed" \in Shows
  BY DEF Pollers, Shows, Sites
<1>2. temp["chip"] \in Celsius /\ tach \in Word16 /\ fan \in FanSettings
  BY <1>1 DEF SensorsInv, SensorTypes
<1>3. \A held : [first EXCEPT !["fan"] = held]["fan"] = held
  BY <1>1 DEF SensorsInv, SensorTypes
<1>4. CASE FanTick
  <2>1. Moves("fan", 1)
    BY <1>1, <1>4 DEF FanTick, Moves
  <2>2. Publishes /\ Keeps("fan", 1)
    BY <1>1, <1>4 DEF FanTick, Publishes, Keeps
  <2> QED
    BY <1>1, <2>1, <2>2, PollingKeepsInvariant
<1>5. CASE ReadExternalHigh
  <2>1. Moves("fan", 2) /\ Publishes
    BY <1>1, <1>5 DEF ReadExternalHigh, Moves, Publishes
  <2>2. first' = [first EXCEPT !["fan"] = <<EmcHigh(temp["chip"]), temp["chip"]>>]
    BY <1>5 DEF ReadExternalHigh, Hold
  <2>3. first'["fan"] = <<EmcHigh(temp["chip"]), temp["chip"]>>
    BY <1>3, <2>2
  <2>4. Keeps("fan", 2)
    <3>1. \E t \in Celsius : first'["fan"] = <<EmcHigh(t), t>>
      BY <1>2, <2>3
    <3>2. \E held : first' = [first EXCEPT !["fan"] = held]
      BY <2>2
    <3>3. 2 # 5
      OBVIOUS
    <3> QED
      BY <1>1, <3>1, <3>2, <3>3, Zenon DEF Keeps
  <2> QED
    BY <1>1, <2>1, <2>4, PollingKeepsInvariant
<1>6. CASE ReadExternalLow
  <2>1. PICK t \in Celsius : first["fan"] = <<EmcHigh(t), t>>
    BY <1>6 DEF ReadExternalLow, SensorsInv, BytesHeld
  <2>2. PICK u \in Celsius : u = temp["chip"]
    BY <1>2
  <2> DEFINE v == external_temperature(EmcHigh(t), EmcLow(u))
             reading == [value |-> v, truth |-> t]
  <2>3. shown' = [shown EXCEPT !["chip"] = reading]
    BY <1>6, <2>1, <2>2 DEF ReadExternalLow, Show
  <2>4. v # <<>> => v[1] - t \in -15 .. 15
    BY ExternalReading
  <2> HIDE DEF v
  <2>5. TrueReading("chip", reading)
    BY <2>4 DEF TrueReading
  <2> HIDE DEF reading
  <2>6. Publishes
    BY <1>1, <2>3, <2>5 DEF Publishes
  <2>7. Moves("fan", 3) /\ Keeps("fan", 3)
    BY <1>1, <1>6 DEF ReadExternalLow, Moves, Keeps
  <2> QED
    BY <1>1, <2>6, <2>7, PollingKeepsInvariant
<1>7. CASE ReadFanSpeed
  <2>1. PICK f \in FanSettings : f = fan
    BY <1>2
  <2> DEFINE v == PercentOf(f.duty)
             reading == [value |-> <<v>>, truth |-> f.set]
  <2>2. shown' = [shown EXCEPT !["speed"] = reading]
    BY <1>7, <2>1 DEF ReadFanSpeed, Show
  <2>3. f.set - v \in 0 .. 2
    BY SpeedReading
  <2> HIDE DEF v
  <2>4. TrueReading("speed", reading)
    BY <2>3 DEF TrueReading
  <2> HIDE DEF reading
  <2>5. Publishes
    BY <1>1, <2>2, <2>4 DEF Publishes
  <2>6. Moves("fan", 4) /\ Keeps("fan", 4)
    BY <1>1, <1>7 DEF ReadFanSpeed, Moves, Keeps
  <2> QED
    BY <1>1, <2>5, <2>6, PollingKeepsInvariant
<1>8. CASE ReadTachFirst
  <2>1. Moves("fan", 5) /\ Publishes
    BY <1>1, <1>8 DEF ReadTachFirst, Moves, Publishes
  <2>2. first' = [first EXCEPT !["fan"] = <<tach % 256, tach>>]
    BY <1>8 DEF ReadTachFirst, Hold
  <2>3. first'["fan"] = <<tach % 256, tach>>
    BY <1>3, <2>2
  <2>4. Keeps("fan", 5)
    <3>1. \E k \in Word16 : first'["fan"] = <<k % 256, k>>
      BY <1>2, <2>3
    <3>2. \E held : first' = [first EXCEPT !["fan"] = held]
      BY <2>2
    <3>3. 2 # 5
      OBVIOUS
    <3> QED
      BY <1>1, <3>1, <3>2, <3>3, Zenon DEF Keeps
  <2> QED
    BY <1>1, <2>1, <2>4, PollingKeepsInvariant
<1>9. CASE ReadTachSecond
  <2>1. PICK n \in Word16 : first["fan"] = <<n % 256, n>>
    BY <1>9 DEF ReadTachSecond, SensorsInv, BytesHeld
  <2> DEFINE v == get_rpm(n)
             reading == [value |-> <<v>>, truth |-> n]
  <2>2. 256 * (first["fan"][2] \div 256) + first["fan"][1] = n /\ first["fan"][2] = n
    BY <2>1, TachReading
  <2>3. shown' = [shown EXCEPT !["fan"] = reading]
    BY <1>9, <2>2 DEF ReadTachSecond, Show
  <2>4. TrueReading("fan", reading)
    BY DEF TrueReading
  <2> HIDE DEF reading
  <2>5. Publishes
    BY <1>1, <2>3, <2>4 DEF Publishes
  <2>6. Moves("fan", 0) /\ Keeps("fan", 0)
    BY <1>1, <1>9 DEF ReadTachSecond, Moves, Keeps
  <2> QED
    BY <1>1, <2>5, <2>6, PollingKeepsInvariant
<1>10. CASE FanReadFails
  <2>1. PICK s \in {"chip", "speed", "fan"}, n \in {0, 3, 4} :
          shown' = [shown EXCEPT ![s] = Unread] /\ To("fan", n)
    BY <1>10 DEF FanReadFails
  <2>2. Publishes
    BY <1>1, <2>1, UnreadTrue DEF Publishes
  <2>3. Moves("fan", n) /\ Keeps("fan", n)
    BY <1>1, <1>10, <2>1 DEF FanReadFails, Moves, Keeps
  <2> QED
    BY <1>1, <2>2, <2>3, PollingKeepsInvariant
<1> QED
  BY <1>4, <1>5, <1>6, <1>7, <1>8, <1>9, <1>10

(* The emberOne's monitor, which reads only powered sensors.               *)
LEMMA EmberPollsTrue ==
  ASSUME SensorsInv,
         \/ EmberTick \/ ReadLeft \/ ReadRightHigh \/ ReadRightLow
         \/ ReadRemoteHigh \/ ReadRemoteLow \/ EmberReadFails
  PROVE  SensorsInv'
<1>1. /\ "ember" \in Pollers /\ "fan" # "ember"
      /\ "left" \in Shows /\ "right" \in Shows /\ "chip0" \in Shows
      /\ "left" \in Sites /\ "right" \in Sites /\ "chip0" \in Sites
  BY DEF Pollers, Shows, Sites
<1>2. temp["left"] \in Celsius /\ temp["right"] \in Celsius /\ temp["chip0"] \in Celsius
  BY <1>1 DEF SensorsInv, SensorTypes
<1>3. \A held : [first EXCEPT !["ember"] = held]["ember"] = held
  BY <1>1 DEF SensorsInv, SensorTypes
<1>4. poll["ember"] # 0 => board \in {"running", "stopping"} /\ vddio = TRUE
  BY DEF SensorsInv, SupplyOn
<1>5. CASE EmberTick
  <2>1. Moves("ember", 1) /\ Publishes /\ Keeps("ember", 1)
    BY <1>1, <1>5 DEF EmberTick, Moves, Publishes, Keeps
  <2> QED
    BY <1>1, <2>1, PollingKeepsInvariant
<1>6. CASE ReadLeft
  <2>1. PICK t \in Celsius : t = temp["left"]
    BY <1>2
  <2>2. board \in {"running", "stopping"} /\ vddio = TRUE
    BY <1>4, <1>6 DEF ReadLeft
  <2>3. shown' = [shown EXCEPT !["left"] = [value |-> from_raw(Tmp1075Raw(t)), truth |-> t]]
    BY <1>6, <2>1, <2>2 DEF ReadLeft, Show
  <2>4. from_raw(Tmp1075Raw(t)) = <<t>>
    BY LeftReading
  <2>5. TrueReading("left", [value |-> <<t>>, truth |-> t])
    BY DEF TrueReading, Celsius
  <2>6. Publishes
    BY <1>1, <2>3, <2>4, <2>5 DEF Publishes
  <2>7. Moves("ember", 2) /\ Keeps("ember", 2)
    BY <1>1, <1>6, <2>2 DEF ReadLeft, Moves, Keeps
  <2> QED
    BY <1>1, <2>6, <2>7, PollingKeepsInvariant
<1>7. CASE ReadRightHigh
  <2>1. board \in {"running", "stopping"} /\ vddio = TRUE
    BY <1>4, <1>7 DEF ReadRightHigh
  <2>2. first' = [first EXCEPT !["ember"] = <<TmpHigh(temp["right"]), temp["right"]>>]
    BY <1>7, <2>1 DEF ReadRightHigh, Hold, Powered
  <2>3. first'["ember"] = <<TmpHigh(temp["right"]), temp["right"]>>
    BY <1>3, <2>2
  <2>4. Keeps("ember", 3)
    BY <1>1, <1>2, <2>2, <2>3 DEF Keeps
  <2>5. Moves("ember", 3) /\ Publishes
    BY <1>1, <1>7, <2>1 DEF ReadRightHigh, Moves, Publishes
  <2> QED
    BY <1>1, <2>4, <2>5, PollingKeepsInvariant
<1>8. CASE ReadRemoteHigh
  <2>1. board \in {"running", "stopping"} /\ vddio = TRUE
    BY <1>4, <1>8 DEF ReadRemoteHigh
  <2>2. first' = [first EXCEPT !["ember"] = <<TmpHigh(temp["chip0"]), temp["chip0"]>>]
    BY <1>8, <2>1 DEF ReadRemoteHigh, Hold, Powered
  <2>3. first'["ember"] = <<TmpHigh(temp["chip0"]), temp["chip0"]>>
    BY <1>3, <2>2
  <2>4. Keeps("ember", 5)
    BY <1>1, <1>2, <2>2, <2>3 DEF Keeps
  <2>5. Moves("ember", 5) /\ Publishes
    BY <1>1, <1>8, <2>1 DEF ReadRemoteHigh, Moves, Publishes
  <2> QED
    BY <1>1, <2>4, <2>5, PollingKeepsInvariant
<1>9. ASSUME NEW s \in {"right", "chip0"}, poll["ember"] \in {3, 5},
             NEW byte \in Powered(TmpLow(temp[s])),
             Show(s, from_high_low(first["ember"][1], byte), first["ember"][2])
      PROVE  Publishes
  <2>1. PICK t \in Celsius : first["ember"] = <<TmpHigh(t), t>>
    BY <1>9 DEF SensorsInv, BytesHeld
  <2>2. PICK u \in Celsius : u = temp[s]
    BY <1>2
  <2>3. byte = TmpLow(u)
    BY <1>4, <1>9, <2>2 DEF Powered
  <2> DEFINE v == from_high_low(TmpHigh(t), TmpLow(u))
             reading == [value |-> v, truth |-> t]
  <2>4. first["ember"][1] = TmpHigh(t) /\ first["ember"][2] = t
    BY <2>1
  <2>5. shown' = [shown EXCEPT ![s] = reading]
    BY <1>9, <2>3, <2>4 DEF Show
  <2>6. IF t < 0 THEN v[1] \in 0 .. 15 ELSE v[1] - t \in -15 .. 15
    BY RightReading
  <2> HIDE DEF v
  <2>7. TrueReading(s, reading)
    BY <2>6 DEF TrueReading
  <2> HIDE DEF reading
  <2> QED
    BY <1>1, <2>5, <2>7 DEF Publishes
<1>10. CASE ReadRightLow
  <2>1. Publishes
    BY <1>9, <1>10 DEF ReadRightLow
  <2>2. board \in {"running", "stopping"}
    BY <1>4, <1>10 DEF ReadRightLow
  <2>3. Moves("ember", 4) /\ Keeps("ember", 4)
    BY <1>1, <1>10, <2>2 DEF ReadRightLow, Moves, Keeps
  <2> QED
    BY <1>1, <2>1, <2>3, PollingKeepsInvariant
<1>11. CASE ReadRemoteLow
  <2>1. Publishes
    BY <1>9, <1>11 DEF ReadRemoteLow
  <2>2. Moves("ember", 0) /\ Keeps("ember", 0)
    BY <1>1, <1>11 DEF ReadRemoteLow, Moves, Keeps
  <2> QED
    BY <1>1, <2>1, <2>2, PollingKeepsInvariant
<1>12. CASE EmberReadFails
  <2>1. PICK s \in {"left", "right", "chip0"}, n \in {0, 2, 4} :
          shown' = [shown EXCEPT ![s] = Unread] /\ To("ember", n)
    BY <1>12 DEF EmberReadFails
  <2>2. Publishes
    BY <1>1, <2>1, UnreadTrue DEF Publishes
  <2>3. board \in {"running", "stopping"}
    BY <1>4, <1>12 DEF EmberReadFails
  <2>4. Moves("ember", n) /\ Keeps("ember", n)
    BY <1>1, <1>12, <2>1, <2>3 DEF EmberReadFails, Moves, Keeps
  <2> QED
    BY <1>1, <2>2, <2>4, PollingKeepsInvariant
<1> QED
  BY <1>5, <1>6, <1>7, <1>8, <1>10, <1>11, <1>12

(* What is measured changes, the fan is set, the emberOne is brought up    *)
(* and shut down.                                                          *)
LEMMA BoardKeepsReadings ==
  ASSUME SensorsInv,
         \/ World \/ FanInit \/ FanFull \/ FanSlow \/ CreateStep \/ CreateFails
         \/ EmberShutdown \/ PowerOff \/ UNCHANGED sensorVars
  PROVE  SensorsInv'
<1> USE DEF SensorsInv
<1>1. UNCHANGED <<poll, first, shown>>
  BY DEF World, FanInit, FanFull, FanSlow, FanSet, CreateStep, CreateFails, EmberShutdown,
         PowerOff, sensorVars
<1>2. BytesHeld' /\ Shown'
  BY <1>1 DEF BytesHeld, Shown
<1>3. temp' \in [Sites -> Celsius] /\ tach' \in Word16
  <2>1. ASSUME NEW s \in Sites, NEW t \in Temperatures, temp' = [temp EXCEPT ![s] = t]
        PROVE  temp' \in [Sites -> Celsius]
    BY <2>1, SensorRanges DEF SensorTypes
  <2>2. CASE World
    BY <2>1, <2>2, SensorRanges DEF World, SensorTypes
  <2>3. CASE ~World
    BY <2>3 DEF FanInit, FanFull, FanSlow, FanSet, CreateStep, CreateFails, EmberShutdown,
                PowerOff, sensorVars, measured, SensorTypes
  <2> QED
    BY <2>2, <2>3
<1>4. fan' \in FanSettings
  <2>1. CASE FanInit \/ FanFull \/ FanSlow
    BY <2>1, SpeedReading DEF FanInit, FanFull, FanSlow, FanSet, SetFan, SensorTypes
  <2>2. CASE ~(FanInit \/ FanFull \/ FanSlow)
    BY <2>2 DEF World, CreateStep, CreateFails, EmberShutdown, PowerOff, sensorVars, SensorTypes
  <2> QED
    BY <2>1, <2>2
<1>5. SensorTypes'
  BY <1>1, <1>3, <1>4 DEF SensorTypes
<1>6. SupplyOn'
  <2>1. CASE World \/ UNCHANGED sensorVars
    BY <2>1 DEF World, sensorVars, SupplyOn
  <2>2. CASE FanInit \/ FanFull \/ FanSlow
    BY <2>2 DEF FanInit, FanFull, FanSlow, FanSet, SupplyOn
  <2>3. CASE CreateStep \/ CreateFails
    <3>1. poll["ember"] = 0
      BY <2>3 DEF CreateStep, CreateFails, SupplyOn
    <3> QED
      BY <1>1, <2>3, <3>1 DEF CreateStep, CreateFails, SupplyOn
  <2>4. CASE EmberShutdown \/ PowerOff
    BY <1>1, <2>4 DEF EmberShutdown, PowerOff, SupplyOn
  <2> QED
    BY <2>1, <2>2, <2>3, <2>4
<1> QED
  BY <1>2, <1>5, <1>6

(* Every behaviour of Sensors reads powered sensors only, and shows what   *)
(* was true when its first byte was read.                                  *)
THEOREM SensorsInvariant == SensorsSpec => []SensorsInv
<1>1. SensorsInit => SensorsInv
  <2> SUFFICES ASSUME SensorsInit PROVE SensorsInv
    OBVIOUS
  <2>1. temp \in [Sites -> Celsius] /\ tach \in Word16
    BY LowestTemperature, SensorRanges DEF SensorsInit
  <2>2. fan \in FanSettings
    BY DEF SensorsInit, FanSettings
  <2>3. 0 \in 0 .. 5 /\ "fan" \in Pollers /\ "ember" \in Pollers
    BY DEF Pollers
  <2>4. SensorTypes
    BY <2>1, <2>2, <2>3 DEF SensorsInit, SensorTypes, Shows
  <2>5. poll["fan"] = 0 /\ poll["ember"] = 0
    BY <2>3 DEF SensorsInit
  <2>6. BytesHeld
    BY <2>5, SMT DEF BytesHeld
  <2>7. SupplyOn
    BY <2>5 DEF SensorsInit, SupplyOn
  <2>8. Shown
    BY UnreadTrue DEF SensorsInit, Shown, Shows
  <2> QED
    BY <2>4, <2>6, <2>7, <2>8 DEF SensorsInv
<1>2. SensorsInv /\ [SensorsNext]_sensorVars => SensorsInv'
  BY FanPollsTrue, EmberPollsTrue, BoardKeepsReadings DEF SensorsNext
<1> QED
  BY <1>1, <1>2, PTL DEF SensorsSpec

(* For all temperatures in the sensors' range and all counts of the        *)
(* tachometer, however they change between the transactions: what the      *)
(* monitors of the Bitaxe and the emberOne publish is true.                *)
THEOREM ReadingsTrueCorrect == SensorsSpec => []ReadingsTrue
BY SensorsInvariant, ShownIsTrue, PTL DEF SensorsInv
=============================================================================
