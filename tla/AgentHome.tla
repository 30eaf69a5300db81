------------------------------- MODULE AgentHome -------------------------------
(***************************************************************************)
(* The credentials a CLI lane hands to its agent (_claude_code_agent_extras, *)
(* _codex_agent_extras and _opencode_agent_extras of compose_unit.py).      *)
(* Every rollout copies what the operator's profile holds into a home of    *)
(* its own.  Several rollouts do so at once on one host, tokens expire,     *)
(* and the operator logs in and out whenever they like.                     *)
(*                                                                          *)
(* The profile of a lane is read three times, by the check, for the secrets *)
(* to redact, and by the copy; on macOS the Claude profile is also written, *)
(* in place, from the Keychain.  The lanes share nothing, so `lane` is that *)
(* of all rollouts of a behaviour.                                          *)
(***************************************************************************)
EXTENDS Naturals, Sequences

CONSTANTS
  Rollouts,    \* the rollouts prepared on this host
  Nobody,      \* none of them: the operator
  Platforms,   \* sys.platform
  Life,        \* how long a new token lives
  Skew,        \* _CLAUDE_OAUTH_SKEW_MS
  MaxTime,     \* bound on the time explored
  MaxTokens    \* bound on the tokens issued

ASSUME HomeAssumption ==
  /\ Life \in Nat /\ Skew \in Nat /\ MaxTime \in Nat
  /\ MaxTokens \in Nat \ {0, 1, 2}
  /\ Platforms \subseteq {"linux", "darwin"}
  /\ Nobody \notin Rollouts

VARIABLES
  platform,
  time,
  tokens,      \* every token issued: when it ends, and to whom it was issued
  keychain,    \* the token in the macOS Keychain, or NoToken
  lane,        \* the lane of the rollouts
  profile,     \* what the credential file of the operator holds
  doing,       \* what the preparation of a rollout does next
  since,       \* the time at which it looked at the profile first
  seed,        \* the token it read from the Keychain
  billed,      \* auth_mode in meta.json
  mode,        \* IB_CODEX_AUTH_MODE of the container
  secrets,     \* the tokens registered for redaction
  home,        \* what the credential file of its home holds
  disturbed    \* rollouts whose profile others wrote while they read it

hostVars == <<platform, lane, time, tokens, keychain>>
rollout  == <<since, seed, billed, mode, secrets, home>>
homeVars == <<hostVars, profile, rollout, doing, disturbed>>

HomeLanes == {"claude", "codex", "opencode"}

NoToken == 0

\* "bad" is a file without usable credentials, one that is being written included.
Missing == [kind |-> "missing", token |-> NoToken]
Bad     == [kind |-> "bad", token |-> NoToken]
Oauth(k)  == [kind |-> "oauth", token |-> k]
ApiKey(k) == [kind |-> "key", token |-> k]

Credential ==
  [kind : {"missing", "bad"}, token : {NoToken}] \union
  [kind : {"oauth", "key"}, token : 1..MaxTokens]

\* A file of the right shape, whatever has become of its token.
Valid == profile.kind \in (IF lane = "claude" THEN {"oauth"} ELSE {"oauth", "key"})

Mode(c) == CASE c.kind = "oauth" -> "chatgpt" [] c.kind = "key" -> "api_key" [] OTHER -> "none"

Lives(k) == k # NoToken /\ tokens[k].until > time + Skew

\* The profiles of the operator: a login of some age, in the file or the Keychain.
HomeInit ==
  /\ platform \in Platforms
  /\ time = 0
  /\ tokens \in { <<[until |-> u, to |-> "host"], [until |-> v, to |-> "host"]>> :
                    u \in {0, Life}, v \in {0, Life} }
  /\ keychain \in {NoToken, 2}
  /\ lane \in HomeLanes
  /\ profile \in {Missing} \union (IF lane = "opencode" THEN {} ELSE {Oauth(1)})
                            \union (IF lane = "claude" THEN {} ELSE {ApiKey(1)})
  /\ doing = [r \in Rollouts |-> "nothing"]
  /\ since = [r \in Rollouts |-> 0]
  /\ seed = [r \in Rollouts |-> NoToken]
  /\ billed = [r \in Rollouts |-> "none"]
  /\ mode = [r \in Rollouts |-> "none"]
  /\ secrets = [r \in Rollouts |-> {}]
  /\ home = [r \in Rollouts |-> Missing]
  /\ disturbed = {}

Goes(r, from, to) == doing[r] = from /\ doing' = [doing EXCEPT ![r] = to]

\* The profile is written by another than r.
Rewritten(r) ==
  disturbed' = disturbed \union
    { q \in Rollouts \ {r} : doing[q] \notin {"nothing", "own", "ready", "refused"} }

-------------------------------------------------------------------------------
(***************************************************************************)
(* One preparation.                                                        *)
(***************************************************************************)
\* Seeded error: a Codex lane is taken to run on the plan.
BeginHome_AssumesPlan(r) ==
  /\ Goes(r, "nothing",
          CASE lane = "claude" -> "seed" [] lane = "codex" -> "check" [] OTHER -> "take")
  /\ billed' = [billed EXCEPT ![r] = IF lane = "codex" THEN "chatgpt" ELSE "none"]
  /\ UNCHANGED <<hostVars, profile, since, seed, mode, secrets, home, disturbed>>

\* The Codex lane writes its mode into the metadata long before its home is made.
BeginHome(r) ==
  /\ Goes(r, "nothing",
          CASE lane = "claude" -> "seed" [] lane = "codex" -> "check" [] OTHER -> "take")
  /\ billed' = [billed EXCEPT ![r] = IF lane = "codex" THEN Mode(profile) ELSE "none"]
  /\ UNCHANGED <<hostVars, profile, since, seed, mode, secrets, home, disturbed>>

\* Seeded error: a file of the right shape is taken for a live one.
LookAtFile_ShapeOnly(r) ==
  /\ Goes(r, "seed", IF platform = "darwin" /\ ~Valid THEN "keychain" ELSE "check")
  /\ since' = [since EXCEPT ![r] = time]
  /\ UNCHANGED <<hostVars, profile, seed, billed, mode, secrets, home, disturbed>>

\* Only macOS has a Keychain to seed from; elsewhere the CLI renews its token.
LookAtFile(r) ==
  /\ Goes(r, "seed",
          IF platform = "darwin" /\ ~(Valid /\ Lives(profile.token))
          THEN "keychain" ELSE "check")
  /\ since' = [since EXCEPT ![r] = time]
  /\ UNCHANGED <<hostVars, profile, seed, billed, mode, secrets, home, disturbed>>

\* Seeded error: whatever the Keychain holds is copied.
ReadKeychain_Any(r) ==
  /\ Goes(r, "keychain", IF keychain # NoToken THEN "truncate" ELSE "refused")
  /\ seed' = [seed EXCEPT ![r] = keychain]
  /\ UNCHANGED <<hostVars, profile, since, billed, mode, secrets, home, disturbed>>

ReadKeychain(r) ==
  /\ Goes(r, "keychain", IF Lives(keychain) THEN "truncate" ELSE "refused")
  /\ seed' = [seed EXCEPT ![r] = keychain]
  /\ UNCHANGED <<hostVars, profile, since, billed, mode, secrets, home, disturbed>>

\* The file is opened with O_TRUNC, and then written.
Truncate(r) ==
  /\ Goes(r, "truncate", "write")
  /\ profile' = Bad
  /\ Rewritten(r)
  /\ UNCHANGED <<hostVars, rollout>>

WriteSeed(r) ==
  /\ Goes(r, "write", "check")
  /\ profile' = Oauth(seed[r])
  /\ Rewritten(r)
  /\ UNCHANGED <<hostVars, rollout>>

\* Seeded error: the secrets of a home are not registered.
CheckFile_Unregistered(r) ==
  /\ Goes(r, "check", IF Valid THEN "copy" ELSE "refused")
  /\ mode' = [mode EXCEPT ![r] = IF lane = "codex" THEN Mode(profile) ELSE "none"]
  /\ UNCHANGED <<hostVars, profile, since, seed, billed, secrets, home, disturbed>>

CheckFile(r) ==
  /\ Goes(r, "check", IF Valid THEN "register" ELSE "refused")
  /\ mode' = [mode EXCEPT ![r] = IF lane = "codex" THEN Mode(profile) ELSE "none"]
  /\ UNCHANGED <<hostVars, profile, since, seed, billed, secrets, home, disturbed>>

\* What cannot be read or parsed raises.
Register(r) ==
  /\ Goes(r, "register", IF profile.token = NoToken THEN "refused" ELSE "copy")
  /\ secrets' = [secrets EXCEPT ![r] = @ \union ({profile.token} \ {NoToken})]
  /\ UNCHANGED <<hostVars, profile, since, seed, billed, mode, home, disturbed>>

\* A file is copied as it is, unless it is gone.
Copy(r) ==
  /\ Goes(r, "copy", IF profile = Missing THEN "refused" ELSE "own")
  /\ home' = [home EXCEPT ![r] = profile]
  /\ UNCHANGED <<hostVars, profile, since, seed, billed, mode, secrets, disturbed>>

\* OpenCode's key is read from the environment, once.
TakeKey(r) ==
  /\ Goes(r, "take", IF profile = Missing THEN "refused" ELSE "own")
  /\ secrets' = [secrets EXCEPT ![r] = @ \union ({profile.token} \ {NoToken})]
  /\ home' = [home EXCEPT ![r] = profile]
  /\ UNCHANGED <<hostVars, profile, since, seed, billed, mode, disturbed>>

\* On Linux a container gives the home to the agent's uid, and may fail.
Own(r) ==
  /\ \/ Goes(r, "own", "ready")
     \/ platform = "linux" /\ Goes(r, "own", "refused")
  /\ UNCHANGED <<hostVars, profile, rollout, disturbed>>

Prepare(r) ==
  \/ BeginHome(r) \/ LookAtFile(r) \/ ReadKeychain(r) \/ Truncate(r) \/ WriteSeed(r)
  \/ CheckFile(r) \/ Register(r) \/ Copy(r) \/ TakeKey(r) \/ Own(r)

-------------------------------------------------------------------------------
(***************************************************************************)
(* The operator, the agents, and time.                                     *)
(***************************************************************************)
Passes ==
  /\ time < MaxTime
  /\ time' = time + 1
  /\ UNCHANGED <<platform, lane, tokens, keychain, profile, rollout, doing, disturbed>>

NewToken == Len(tokens) + 1

IssueToken(to) ==
  /\ Len(tokens) < MaxTokens
  /\ tokens' = Append(tokens, [until |-> time + Life, to |-> to])

\* A login in the shape of the lane; Claude's goes to the Keychain where there is one.
LogIn ==
  /\ lane # "opencode" /\ IssueToken("host")
  /\ IF lane = "claude" /\ platform = "darwin"
     THEN keychain' = NewToken /\ UNCHANGED <<profile, disturbed>>
     ELSE /\ profile' \in {Oauth(NewToken)} \union
                         (IF lane = "codex" THEN {ApiKey(NewToken)} ELSE {})
          /\ Rewritten(Nobody) /\ UNCHANGED keychain
  /\ UNCHANGED <<platform, lane, time, rollout, doing>>

LogOut ==
  /\ lane # "opencode" /\ profile # Missing
  /\ profile' = Missing
  /\ Rewritten(Nobody)
  /\ UNCHANGED <<hostVars, rollout, doing>>

\* Seeded error: the profile itself is mounted into the agent.
Renew_Mounted(r) ==
  /\ doing[r] = "ready" /\ home[r].kind = "oauth"
  /\ IssueToken("agent")
  /\ home' = [home EXCEPT ![r] = Oauth(NewToken)]
  /\ profile' = Oauth(NewToken)
  /\ UNCHANGED <<platform, lane, time, keychain, since, seed, billed, mode, secrets, doing,
                 disturbed>>

\* The CLI in the container renews its token, in its home.
Renew(r) ==
  /\ doing[r] = "ready" /\ home[r].kind = "oauth"
  /\ IssueToken("agent")
  /\ home' = [home EXCEPT ![r] = Oauth(NewToken)]
  /\ UNCHANGED <<platform, lane, time, keychain, profile, since, seed, billed, mode, secrets,
                 doing, disturbed>>

HomeNext ==
  \/ \E r \in Rollouts : Prepare(r) \/ Renew(r)
  \/ LogIn \/ LogOut \/ Passes

HomeSpec == HomeInit /\ [][HomeNext]_homeVars

-------------------------------------------------------------------------------
Modes == {"none", "chatgpt", "api_key"}

HomeSteps == {"nothing", "seed", "keychain", "truncate", "write", "check", "register", "copy",
          "take", "own", "ready", "refused"}

Token == [until : Nat, to : {"host", "agent"}]

\* The profile, the homes and where the preparations are.
HomeTypeOK ==
  /\ platform \in Platforms /\ lane \in HomeLanes
  /\ time \in Nat /\ tokens \in Seq(Token) /\ Len(tokens) \in 2..MaxTokens
  /\ keychain \in {NoToken} \union DOMAIN tokens
  /\ profile \in Credential
  /\ doing \in [Rollouts -> HomeSteps]
  /\ since \in [Rollouts -> Nat]
  /\ seed \in [Rollouts -> {NoToken} \union DOMAIN tokens]
  /\ billed \in [Rollouts -> Modes]
  /\ mode \in [Rollouts -> Modes]
  /\ secrets \in [Rollouts -> SUBSET DOMAIN tokens]
  /\ home \in [Rollouts -> Credential]
  /\ disturbed \subseteq Rollouts

\* What was copied from the operator, and was not rewritten while it was read.
Given(r) ==
  /\ doing[r] \in {"own", "ready"} /\ r \notin disturbed
  /\ home[r].token # NoToken => tokens[home[r].token].to = "host"

\* compose_unit.py:216: the lane refuses to copy a dead token into the container.
\* On macOS the token a Claude home is given lived at the time its preparation
\* looked at the profile, be it that of the file or that of the Keychain; and every
\* home that is given holds credentials of a shape its CLI can use.
GivenIsUsable ==
  \A r \in Rollouts : Given(r) =>
    /\ home[r].kind \in {"oauth", "key"}
    /\ lane = "claude" => home[r].kind = "oauth"
    /\ lane = "claude" /\ platform = "darwin"
         => tokens[home[r].token].until > since[r] + Skew

\* What a home is given can be found in evidence: it was registered for redaction.
GivenIsRegistered == \A r \in Rollouts : Given(r) => home[r].token \in secrets[r]

\* compose_unit.py:393: the billing path in meta.json is the one the container has.
BillingIsRecorded ==
  \A r \in Rollouts :
    Given(r) /\ lane = "codex" => billed[r] = Mode(home[r]) /\ mode[r] = billed[r]

\* compose_unit.py:321: the profile is input only; what an agent renews stays in its
\* home, and is neither in the profile nor given to another rollout.
ProfileIsInputOnly ==
  /\ profile.token # NoToken => tokens[profile.token].to = "host"
  /\ \A r \in Rollouts :
       home[r].token # NoToken /\ tokens[home[r].token].to = "agent"
         => \A q \in Rollouts \ {r} : home[q].token # home[r].token

\* What a CLI lane promises about the credentials of its agents.
HomeCorrect ==
  HomeTypeOK /\ GivenIsUsable /\ GivenIsRegistered /\ BillingIsRecorded /\ ProfileIsInputOnly

===============================================================================
