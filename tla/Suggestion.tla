----------------------------- MODULE Suggestion -----------------------------
(***************************************************************************)
(* The difficulty that a Stratum source suggests to its pool               *)
(* (job_source/stratum_v1.rs): with the handshake, and again when the      *)
(* hashrate has changed enough, at most once per SUGGEST_MIN_INTERVAL.     *)
(*                                                                         *)
(* StratumSource leaves the throttle open and suggests at any moment; this *)
(* module has only the throttle.  A difficulty is represented by the       *)
(* hashes a share takes on average.                                        *)
(***************************************************************************)
EXTENDS Naturals, Sequences

CONSTANTS
  SUGGEST_MIN_INTERVAL,   \* ticks of the cooldown: 5 s
  SUGGESTED_SHARE_RATE,   \* its interval in ticks: 3 s
  Hashrates,              \* hashrates the scheduler reports, 0 among them
  LastTick                \* bound on the time

ASSUME SuggestionBounds ==
  /\ SUGGEST_MIN_INTERVAL \in Nat \ {0} /\ SUGGESTED_SHARE_RATE \in Nat \ {0}
  /\ Hashrates \subseteq Nat /\ LastTick \in Nat

VARIABLES
  now,
  link,              \* "hold" before the first hashrate, "down" or "up"
  expected_hashrate,
  last_suggested,    \* last_suggested_difficulty: <<>> or <<d>>
  cooldown_until,    \* <<>> or <<t>>
  sent_at,           \* history: when a suggestion was last sent on this link
  too_soon           \* history: a suggestion followed another within the interval

suggestVars == <<now, link, expected_hashrate, last_suggested, cooldown_until, sent_at, too_soon>>

SuggestInit ==
  /\ now = 0 /\ link = "hold" /\ expected_hashrate = 0
  /\ last_suggested = <<>> /\ cooldown_until = <<>> /\ sent_at = <<>> /\ too_soon = FALSE

compute_suggested_difficulty(rate) ==
  IF rate = 0 THEN <<>> ELSE <<rate * SUGGESTED_SHARE_RATE>>

(* DOWN_FACTOR is 5/4, UP_FACTOR 3/2, from the last suggestion.            *)
is_material_change(new_diff, last) ==
  \/ last = <<>>
  \/ 5 * new_diff <= 4 * last[1]
  \/ 2 * new_diff >= 3 * last[1]

(* What there is to suggest at a hashrate: nothing, or a difficulty.       *)
Worthwhile(rate) ==
  LET diff == compute_suggested_difficulty(rate)
  IN diff # <<>> /\ is_material_change(diff[1], last_suggested)

in_cooldown == cooldown_until # <<>> /\ now < cooldown_until[1]

send_suggest(diff) ==
  /\ last_suggested' = diff
  /\ cooldown_until' = <<now + SUGGEST_MIN_INTERVAL>>
  /\ sent_at' = <<now>>
  /\ too_soon' = (too_soon \/ (sent_at # <<>> /\ now < sent_at[1] + SUGGEST_MIN_INTERVAL))

-----------------------------------------------------------------------------
(* connect_and_run begins: the first suggestion goes with the handshake.   *)
ConnectPool ==
  /\ link = "down" /\ link' = "up"
  /\ last_suggested' = compute_suggested_difficulty(expected_hashrate)
  /\ cooldown_until' = <<>> /\ sent_at' = <<>>
  /\ UNCHANGED <<now, expected_hashrate, too_soon>>

LosePool ==
  /\ link = "up" /\ link' = "down"
  /\ UNCHANGED <<now, expected_hashrate, last_suggested, cooldown_until, sent_at, too_soon>>

(* UpdateHashRate while there is no connection.                            *)
HearHashRate(rate) ==
  /\ link # "up" /\ expected_hashrate' = rate
  /\ link' = IF link = "hold" /\ rate = 0 THEN "hold" ELSE "down"
  /\ UNCHANGED <<now, last_suggested, cooldown_until, sent_at, too_soon>>

(* UpdateHashRate and maybe_suggest_difficulty.                            *)
UpdateHashRate(rate) ==
  /\ link = "up" /\ expected_hashrate' = rate
  /\ IF Worthwhile(rate) /\ ~in_cooldown
       THEN send_suggest(compute_suggested_difficulty(rate))
       ELSE UNCHANGED <<last_suggested, cooldown_until, sent_at, too_soon>>
  /\ UNCHANGED <<now, link>>

(* Mutant: the end of the cooldown does not look for a held change.        *)
FlushSuggest_forgets ==
  /\ link = "up" /\ cooldown_until # <<>> /\ now >= cooldown_until[1]
  /\ cooldown_until' = <<>> /\ UNCHANGED <<last_suggested, sent_at, too_soon>>
  /\ UNCHANGED <<now, link, expected_hashrate>>

(* The cooldown expires: flush_suggest.                                    *)
FlushSuggest ==
  /\ link = "up" /\ cooldown_until # <<>> /\ now >= cooldown_until[1]
  /\ IF Worthwhile(expected_hashrate)
       THEN send_suggest(compute_suggested_difficulty(expected_hashrate))
       ELSE cooldown_until' = <<>> /\ UNCHANGED <<last_suggested, sent_at, too_soon>>
  /\ UNCHANGED <<now, link, expected_hashrate>>

PassTime ==
  /\ now < LastTick /\ now' = now + 1
  /\ UNCHANGED <<link, expected_hashrate, last_suggested, cooldown_until, sent_at, too_soon>>

SuggestNext ==
  \/ ConnectPool
  \/ LosePool
  \/ \E r \in Hashrates : HearHashRate(r) \/ UpdateHashRate(r)
  \/ FlushSuggest
  \/ PassTime

SuggestSpec == SuggestInit /\ [][SuggestNext]_suggestVars

-----------------------------------------------------------------------------
(* Whenever no cooldown is running, the floor that the pool was given is   *)
(* within the deadband of the current hashrate, although changes that      *)
(* came during cooldowns were not sent at once; and "a burst of changes    *)
(* costs at most one message per interval".                                *)
FloorFollowsHashrate ==
  /\ link = "up" /\ cooldown_until = <<>> => ~Worthwhile(expected_hashrate)
  /\ ~too_soon
=============================================================================
