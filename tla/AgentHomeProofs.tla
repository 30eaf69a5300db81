---------------------------- MODULE AgentHomeProofs ----------------------------
(***************************************************************************)
(* Theorems about the homes of agents (module AgentHome), for every set of *)
(* rollouts, every skew and life of tokens, and any number of tokens.      *)
(***************************************************************************)
EXTENDS AgentHome, TLAPS

(***************************************************************************)
(* The inductive invariant, in parts.                                      *)
(***************************************************************************)

FromHost(k) == k # NoToken => k \in DOMAIN tokens /\ tokens[k].to = "host"

\* What a preparation can read was issued to the host, and is of its lane's kinds.
Sources ==
  /\ FromHost(profile.token) /\ FromHost(keychain)
  /\ \A r \in Rollouts : FromHost(seed[r])
  /\ lane = "claude" => profile.kind # "key"
  /\ lane = "opencode" => profile.kind \in {"missing", "key"}

\* What is in a home was issued, and an agent's token is in its own home only.
Homes ==
  \A r \in Rollouts :
    /\ home[r].token # NoToken => home[r].token \in DOMAIN tokens
    /\ home[r].token # NoToken /\ tokens[home[r].token].to = "agent"
         => \A q \in Rollouts \ {r} : home[q].token # home[r].token

\* A credential that lived when r looked at the profile, where that is looked at.
Lived(c, r) ==
  lane = "claude" /\ platform = "darwin" =>
    /\ c.kind = "oauth"
    /\ tokens[c.token].until > since[r] + Skew

\* The steps a lane takes, and the token that is on its way from the Keychain.
Path(r) ==
  /\ since[r] <= time
  /\ doing[r] \in {"seed", "keychain", "truncate", "write"} => lane = "claude"
  /\ doing[r] = "take" => lane = "opencode"
  /\ doing[r] \in {"check", "register", "copy"} => lane # "opencode"
  /\ doing[r] \in {"truncate", "write"} =>
       seed[r] # NoToken /\ tokens[seed[r]].until > since[r] + Skew

Reading(r) == r \notin disturbed /\ doing[r] \in {"check", "register", "copy"}

\* What r has established of a profile that nobody rewrites.
LivedSince(r)  == Reading(r) => Lived(profile, r)
Billed(r) == Reading(r) /\ lane = "codex" => billed[r] = Mode(profile)
Checked(r) ==
  Reading(r) /\ doing[r] # "check" => Valid /\ (lane = "codex" => mode[r] = Mode(profile))
Registered(r) == Reading(r) /\ doing[r] = "copy" => profile.token \in secrets[r]

HomeInv ==
  /\ HomeTypeOK /\ Sources /\ Homes
  /\ \A r \in Rollouts :
       Path(r) /\ LivedSince(r) /\ Billed(r) /\ Checked(r) /\ Registered(r)
  /\ GivenIsUsable /\ GivenIsRegistered /\ BillingIsRecorded

-------------------------------------------------------------------------------

\* The credentials a file may hold.
LEMMA Shapes ==
  /\ Missing \in Credential /\ Bad \in Credential
  /\ \A k \in 1..MaxTokens : Oauth(k) \in Credential /\ ApiKey(k) \in Credential
  BY DEF Missing, Bad, Oauth, ApiKey, Credential, NoToken

\* The billing modes of a credential.
LEMMA ModeTypes == "none" \in Modes /\ \A c : Mode(c) \in Modes
  BY DEF Mode, Modes

\* A new token is one no home, profile or Keychain holds yet; the others are as before.
LEMMA IssueAppends ==
  ASSUME HomeTypeOK, NEW to \in {"host", "agent"}, IssueToken(to)
  PROVE  /\ tokens' \in Seq(Token) /\ Len(tokens') \in 2..MaxTokens
         /\ NewToken \in (1..MaxTokens) \ DOMAIN tokens /\ NewToken \in DOMAIN tokens'
         /\ tokens'[NewToken].to = to
         /\ \A k \in DOMAIN tokens : k \in DOMAIN tokens' /\ tokens'[k] = tokens[k]
  BY HomeAssumption DEF HomeTypeOK, IssueToken, NewToken, Token

\* The recorded mode is that of the profile now.
LEMMA BeginKeeps ==
  ASSUME HomeInv, NEW r \in Rollouts, BeginHome(r) PROVE HomeInv'
<1> USE HomeAssumption DEF HomeInv
<1>1. HomeTypeOK'
  BY Shapes, ModeTypes DEF BeginHome, Goes, hostVars, rollout, HomeTypeOK, HomeSteps, HomeLanes,
     Token, NoToken
<1>2. Sources' /\ Homes'
  BY DEF BeginHome, Goes, hostVars, rollout, HomeTypeOK, Sources, Homes, FromHost, Token,
     Oauth, ApiKey, Missing, Bad, NoToken
<1>3. ASSUME NEW q \in Rollouts PROVE Path(q)' /\ LivedSince(q)'
  <2>1. Path(q)'
    BY DEF BeginHome, Goes, hostVars, HomeTypeOK, Path, HomeLanes
  <2>2. LivedSince(q)'
    BY DEF BeginHome, Goes, hostVars, HomeTypeOK, LivedSince, Reading, Lived, HomeLanes
  <2> QED
    BY <2>1, <2>2
<1>4. ASSUME NEW q \in Rollouts PROVE Billed(q)' /\ Checked(q)' /\ Registered(q)'
  BY DEF BeginHome, Goes, hostVars, rollout, HomeTypeOK, Path, Billed, Checked, Registered,
     Reading, Valid, NoToken
<1>5. GivenIsUsable'
  BY DEF BeginHome, Goes, hostVars, rollout, HomeTypeOK, GivenIsUsable, Given, Homes,
     LivedSince, Checked, Reading, Lived, Valid, Token, Oauth, ApiKey, Missing, Bad,
     NoToken
<1>6. GivenIsRegistered' /\ BillingIsRecorded'
  BY DEF BeginHome, Goes, hostVars, rollout, HomeTypeOK, GivenIsRegistered,
     BillingIsRecorded, Given, Homes, Registered, Billed, Checked, Reading, Token, Oauth,
     ApiKey, Missing, Bad, NoToken
<1> QED
  BY <1>1, <1>2, <1>3, <1>4, <1>5, <1>6

\* A file that is kept holds a token that lives at `since`.
LEMMA LookAtFileKeeps ==
  ASSUME HomeInv, NEW r \in Rollouts, LookAtFile(r) PROVE HomeInv'
<1> USE HomeAssumption DEF HomeInv
<1>1. HomeTypeOK'
  BY Shapes, ModeTypes DEF LookAtFile, Goes, Lives, hostVars, rollout, HomeTypeOK, HomeSteps,
     HomeLanes, Token, NoToken
<1>2. Sources' /\ Homes'
  BY DEF LookAtFile, Goes, Lives, hostVars, rollout, HomeTypeOK, Sources, Homes,
     FromHost, Token, Oauth, ApiKey, Missing, Bad, NoToken
<1>3. ASSUME NEW q \in Rollouts PROVE Path(q)' /\ LivedSince(q)'
  BY DEF LookAtFile, Goes, Lives, hostVars, rollout, HomeTypeOK, Path, LivedSince,
     Reading, Lived, Sources, FromHost, Valid, Token, Oauth, ApiKey, Missing, Bad, NoToken
<1>4. ASSUME NEW q \in Rollouts PROVE Billed(q)' /\ Checked(q)' /\ Registered(q)'
  BY DEF LookAtFile, Goes, Lives, hostVars, rollout, HomeTypeOK, Path, Billed, Checked,
     Registered, Reading, Valid, NoToken
<1>5. GivenIsUsable'
  BY DEF LookAtFile, Goes, Lives, hostVars, rollout, HomeTypeOK, GivenIsUsable, Given,
     Homes, LivedSince, Checked, Reading, Lived, Valid, Token, Oauth, ApiKey, Missing, Bad,
     NoToken
<1>6. GivenIsRegistered' /\ BillingIsRecorded'
  BY DEF LookAtFile, Goes, Lives, hostVars, rollout, HomeTypeOK, GivenIsRegistered,
     BillingIsRecorded, Given, Homes, Registered, Billed, Checked, Reading, Token, Oauth,
     ApiKey, Missing, Bad, NoToken
<1> QED
  BY <1>1, <1>2, <1>3, <1>4, <1>5, <1>6

\* What is carried to the file lived when it was read from the Keychain.
LEMMA ReadKeychainKeeps ==
  ASSUME HomeInv, NEW r \in Rollouts, ReadKeychain(r) PROVE HomeInv'
<1> USE HomeAssumption DEF HomeInv
<1>1. HomeTypeOK'
  BY Shapes, ModeTypes DEF ReadKeychain, Goes, Lives, hostVars, rollout, HomeTypeOK,
     HomeSteps, HomeLanes, Token, NoToken
<1>2. Sources' /\ Homes'
  BY DEF ReadKeychain, Goes, Lives, hostVars, rollout, HomeTypeOK, Sources, Homes,
     FromHost, Token, Oauth, ApiKey, Missing, Bad, NoToken
<1>3. ASSUME NEW q \in Rollouts PROVE Path(q)' /\ LivedSince(q)'
  <2>1. /\ since' = since /\ time' = time /\ lane' = lane /\ tokens' = tokens
        /\ \A p \in Rollouts \ {r} : doing'[p] = doing[p] /\ seed'[p] = seed[p]
    BY DEF ReadKeychain, Goes, hostVars, HomeTypeOK
  <2>2. LivedSince(q)'
    BY DEF ReadKeychain, Goes, hostVars, HomeTypeOK, LivedSince, Reading, Lived
  <2>3. Path(q)'
    <3>1. CASE q # r
      <4>1. doing'[q] = doing[q] /\ seed'[q] = seed[q]
        BY <2>1, <3>1
      <4> QED
        BY <2>1, <4>1 DEF Path
    <3>2. CASE q = r
      <4>1. /\ doing[r] = "keychain" /\ seed'[r] = keychain
            /\ doing'[r] = IF Lives(keychain) THEN "truncate" ELSE "refused"
        BY DEF ReadKeychain, Goes, HomeTypeOK
      <4>2. ASSUME Lives(keychain)
            PROVE  keychain # NoToken /\ tokens[keychain].until > since[r] + Skew
        <5>1. keychain # NoToken /\ tokens[keychain].until > time + Skew
          BY <4>2 DEF Lives
        <5>2. keychain \in DOMAIN tokens
          BY <5>1 DEF HomeTypeOK
        <5>3. tokens[keychain] \in Token
          BY <5>2 DEF HomeTypeOK
        <5>4. tokens[keychain].until \in Nat /\ since[r] \in Nat /\ time \in Nat
          BY <5>3 DEF Token, HomeTypeOK
        <5>5. since[r] <= time
          BY DEF Path
        <5> QED
          BY <5>1, <5>4, <5>5
      <4>3. CASE Lives(keychain)
        BY <2>1, <3>2, <4>1, <4>2, <4>3 DEF Path
      <4>4. CASE ~Lives(keychain)
        BY <2>1, <3>2, <4>1, <4>4 DEF Path
      <4> QED
        BY <4>3, <4>4
    <3> QED
      BY <3>1, <3>2
  <2> QED
    BY <2>2, <2>3
<1>4. ASSUME NEW q \in Rollouts PROVE Billed(q)' /\ Checked(q)' /\ Registered(q)'
  BY DEF ReadKeychain, Goes, Lives, hostVars, rollout, HomeTypeOK, Path, Billed, Checked,
     Registered, Reading, Valid, NoToken
<1>5. GivenIsUsable'
  BY DEF ReadKeychain, Goes, Lives, hostVars, rollout, HomeTypeOK, GivenIsUsable, Given,
     Homes, LivedSince, Checked, Reading, Lived, Valid, Token, Oauth, ApiKey, Missing, Bad,
     NoToken
<1>6. GivenIsRegistered' /\ BillingIsRecorded'
  BY DEF ReadKeychain, Goes, Lives, hostVars, rollout, HomeTypeOK, GivenIsRegistered,
     BillingIsRecorded, Given, Homes, Registered, Billed, Checked, Reading, Token, Oauth,
     ApiKey, Missing, Bad, NoToken
<1> QED
  BY <1>1, <1>2, <1>3, <1>4, <1>5, <1>6

\* Others that read the profile are disturbed.
LEMMA TruncateKeeps ==
  ASSUME HomeInv, NEW r \in Rollouts, Truncate(r) PROVE HomeInv'
<1> USE HomeAssumption DEF HomeInv
<1>1. HomeTypeOK'
  BY Shapes, ModeTypes DEF Truncate, Goes, Rewritten, hostVars, rollout, HomeTypeOK,
     HomeSteps, HomeLanes, Token, NoToken
<1>2. Sources' /\ Homes'
  BY DEF Truncate, Goes, Rewritten, hostVars, rollout, HomeTypeOK, Sources, Homes,
     FromHost, Token, Oauth, ApiKey, Missing, Bad, NoToken, Path
<1>3. ASSUME NEW q \in Rollouts PROVE Path(q)' /\ LivedSince(q)'
  BY DEF Truncate, Goes, Rewritten, hostVars, rollout, HomeTypeOK, Path, LivedSince,
     Reading, Lived, Sources, FromHost, Valid, Token, Oauth, ApiKey, Missing, Bad, NoToken
<1>4. ASSUME NEW q \in Rollouts PROVE Billed(q)' /\ Checked(q)' /\ Registered(q)'
  BY DEF Truncate, Goes, Rewritten, hostVars, rollout, HomeTypeOK, Path, Billed, Checked,
     Registered, Reading, Valid, NoToken
<1>5. GivenIsUsable'
  BY DEF Truncate, Goes, Rewritten, hostVars, rollout, HomeTypeOK, GivenIsUsable, Given,
     Homes, LivedSince, Checked, Reading, Lived, Valid, Token, Oauth, ApiKey, Missing, Bad,
     NoToken
<1>6. GivenIsRegistered' /\ BillingIsRecorded'
  BY DEF Truncate, Goes, Rewritten, hostVars, rollout, HomeTypeOK, GivenIsRegistered,
     BillingIsRecorded, Given, Homes, Registered, Billed, Checked, Reading, Token, Oauth,
     ApiKey, Missing, Bad, NoToken
<1> QED
  BY <1>1, <1>2, <1>3, <1>4, <1>5, <1>6

\* The profile holds the seed, which has lived since this rollout first looked.
LEMMA WriteSeedKeeps ==
  ASSUME HomeInv, NEW r \in Rollouts, WriteSeed(r) PROVE HomeInv'
<1> USE HomeAssumption DEF HomeInv
<1>1. HomeTypeOK'
  BY Shapes, ModeTypes DEF WriteSeed, Goes, Rewritten, hostVars, rollout, HomeTypeOK,
     HomeSteps, HomeLanes, Token, NoToken, Path
<1>2. Sources' /\ Homes'
  BY DEF WriteSeed, Goes, Rewritten, hostVars, rollout, HomeTypeOK, Sources, Homes,
     FromHost, Token, Oauth, ApiKey, Missing, Bad, NoToken, Path
<1>3. ASSUME NEW q \in Rollouts PROVE Path(q)' /\ LivedSince(q)'
  BY DEF WriteSeed, Goes, Rewritten, hostVars, rollout, HomeTypeOK, Path, LivedSince,
     Reading, Lived, Sources, FromHost, Valid, Token, Oauth, ApiKey, Missing, Bad, NoToken
<1>4. ASSUME NEW q \in Rollouts PROVE Billed(q)' /\ Checked(q)' /\ Registered(q)'
  BY DEF WriteSeed, Goes, Rewritten, hostVars, rollout, HomeTypeOK, Path, Billed,
     Checked, Registered, Reading, Valid, NoToken
<1>5. GivenIsUsable'
  BY DEF WriteSeed, Goes, Rewritten, hostVars, rollout, HomeTypeOK, GivenIsUsable, Given,
     Homes, LivedSince, Checked, Reading, Lived, Valid, Token, Oauth, ApiKey, Missing, Bad,
     NoToken
<1>6. GivenIsRegistered' /\ BillingIsRecorded'
  BY DEF WriteSeed, Goes, Rewritten, hostVars, rollout, HomeTypeOK, GivenIsRegistered,
     BillingIsRecorded, Given, Homes, Registered, Billed, Checked, Reading, Token, Oauth,
     ApiKey, Missing, Bad, NoToken
<1> QED
  BY <1>1, <1>2, <1>3, <1>4, <1>5, <1>6

\* The mode of the container is that of the profile the check has seen.
LEMMA CheckKeeps ==
  ASSUME HomeInv, NEW r \in Rollouts, CheckFile(r) PROVE HomeInv'
<1> USE HomeAssumption DEF HomeInv
<1>1. HomeTypeOK'
  BY Shapes, ModeTypes DEF CheckFile, Goes, hostVars, rollout, HomeTypeOK, HomeSteps, HomeLanes,
     Token, NoToken
<1>2. Sources' /\ Homes'
  BY DEF CheckFile, Goes, hostVars, rollout, HomeTypeOK, Sources, Homes, FromHost, Token,
     Oauth, ApiKey, Missing, Bad, NoToken
<1>3. ASSUME NEW q \in Rollouts PROVE Path(q)' /\ LivedSince(q)'
  BY DEF CheckFile, Goes, hostVars, rollout, HomeTypeOK, Path, LivedSince, Reading, Lived,
     Sources, FromHost, Valid, Token, Oauth, ApiKey, Missing, Bad, NoToken
<1>4. ASSUME NEW q \in Rollouts PROVE Billed(q)' /\ Checked(q)' /\ Registered(q)'
  BY DEF CheckFile, Goes, hostVars, rollout, HomeTypeOK, Path, Billed, Checked, Registered,
     Reading, Valid, NoToken
<1>5. GivenIsUsable'
  BY DEF CheckFile, Goes, hostVars, rollout, HomeTypeOK, GivenIsUsable, Given, Homes,
     LivedSince, Checked, Reading, Lived, Valid, Token, Oauth, ApiKey, Missing, Bad,
     NoToken
<1>6. GivenIsRegistered' /\ BillingIsRecorded'
  BY DEF CheckFile, Goes, hostVars, rollout, HomeTypeOK, GivenIsRegistered,
     BillingIsRecorded, Given, Homes, Registered, Billed, Checked, Reading, Token, Oauth,
     ApiKey, Missing, Bad, NoToken
<1> QED
  BY <1>1, <1>2, <1>3, <1>4, <1>5, <1>6

\* The token of an undisturbed profile is registered.
LEMMA RegisterKeeps ==
  ASSUME HomeInv, NEW r \in Rollouts, Register(r) PROVE HomeInv'
<1> USE HomeAssumption DEF HomeInv
<1>1. HomeTypeOK'
  BY Shapes, ModeTypes DEF Register, Goes, hostVars, rollout, HomeTypeOK, HomeSteps,
     HomeLanes, Token, NoToken, Sources, FromHost
<1>2. Sources' /\ Homes'
  BY DEF Register, Goes, hostVars, rollout, HomeTypeOK, Sources, Homes, FromHost, Token,
     Oauth, ApiKey, Missing, Bad, NoToken
<1>3. ASSUME NEW q \in Rollouts PROVE Path(q)' /\ LivedSince(q)'
  BY DEF Register, Goes, hostVars, rollout, HomeTypeOK, Path, LivedSince, Reading, Lived,
     Sources, FromHost, Valid, Token, Oauth, ApiKey, Missing, Bad, NoToken
<1>4. ASSUME NEW q \in Rollouts PROVE Billed(q)' /\ Checked(q)' /\ Registered(q)'
  BY DEF Register, Goes, hostVars, rollout, HomeTypeOK, Path, Billed, Checked,
     Registered, Reading, Valid, NoToken
<1>5. GivenIsUsable'
  BY DEF Register, Goes, hostVars, rollout, HomeTypeOK, GivenIsUsable, Given, Homes,
     LivedSince, Checked, Reading, Lived, Valid, Token, Oauth, ApiKey, Missing, Bad,
     NoToken
<1>6. GivenIsRegistered' /\ BillingIsRecorded'
  BY DEF Register, Goes, hostVars, rollout, HomeTypeOK, GivenIsRegistered,
     BillingIsRecorded, Given, Homes, Registered, Billed, Checked, Reading, Token, Oauth,
     ApiKey, Missing, Bad, NoToken
<1> QED
  BY <1>1, <1>2, <1>3, <1>4, <1>5, <1>6

\* An undisturbed profile is what was checked and registered.
LEMMA CopyKeeps ==
  ASSUME HomeInv, NEW r \in Rollouts, Copy(r) PROVE HomeInv'
<1> USE HomeAssumption DEF HomeInv
<1>1. HomeTypeOK'
  BY Shapes, ModeTypes DEF Copy, Goes, hostVars, rollout, HomeTypeOK, HomeSteps, HomeLanes,
     Token, NoToken
<1>2. Sources' /\ Homes'
  BY DEF Copy, Goes, hostVars, rollout, HomeTypeOK, Sources, Homes, FromHost, Token,
     Oauth, ApiKey, Missing, Bad, NoToken
<1>3. ASSUME NEW q \in Rollouts PROVE Path(q)' /\ LivedSince(q)'
  BY DEF Copy, Goes, hostVars, rollout, HomeTypeOK, Path, LivedSince, Reading, Lived,
     Sources, FromHost, Valid, Token, Oauth, ApiKey, Missing, Bad, NoToken
<1>4. ASSUME NEW q \in Rollouts PROVE Billed(q)' /\ Checked(q)' /\ Registered(q)'
  BY DEF Copy, Goes, hostVars, rollout, HomeTypeOK, Path, Billed, Checked, Registered,
     Reading, Valid, NoToken
<1>5. GivenIsUsable'
  BY DEF Copy, Goes, hostVars, rollout, HomeTypeOK, GivenIsUsable, Given, Homes,
     LivedSince, Checked, Reading, Lived, Valid, Token, Oauth, ApiKey, Missing, Bad,
     NoToken
<1>6. GivenIsRegistered' /\ BillingIsRecorded'
  BY DEF Copy, Goes, hostVars, rollout, HomeTypeOK, GivenIsRegistered, BillingIsRecorded,
     Given, Homes, Registered, Billed, Checked, Reading, Token, Oauth, ApiKey, Missing,
     Bad, NoToken
<1> QED
  BY <1>1, <1>2, <1>3, <1>4, <1>5, <1>6

\* The key of OpenCode is registered in the step that takes it.
LEMMA TakeKeyKeeps ==
  ASSUME HomeInv, NEW r \in Rollouts, TakeKey(r) PROVE HomeInv'
<1> USE HomeAssumption DEF HomeInv
<1>1. HomeTypeOK'
  BY Shapes, ModeTypes DEF TakeKey, Goes, hostVars, rollout, HomeTypeOK, HomeSteps,
     HomeLanes, Token, NoToken, Sources, FromHost
<1>2. Sources' /\ Homes'
  BY DEF TakeKey, Goes, hostVars, rollout, HomeTypeOK, Sources, Homes, FromHost, Token,
     Oauth, ApiKey, Missing, Bad, NoToken
<1>3. ASSUME NEW q \in Rollouts PROVE Path(q)' /\ LivedSince(q)'
  BY DEF TakeKey, Goes, hostVars, rollout, HomeTypeOK, Path, LivedSince, Reading, Lived,
     Sources, FromHost, Valid, Token, Oauth, ApiKey, Missing, Bad, NoToken
<1>4. ASSUME NEW q \in Rollouts PROVE Billed(q)' /\ Checked(q)' /\ Registered(q)'
  BY DEF TakeKey, Goes, hostVars, rollout, HomeTypeOK, Path, Billed, Checked, Registered,
     Reading, Valid, NoToken
<1>5. GivenIsUsable'
  BY DEF TakeKey, Goes, hostVars, rollout, HomeTypeOK, GivenIsUsable, Given, Sources,
     FromHost, Homes, Path, LivedSince, Checked, Reading, Lived, Valid, Token, Oauth,
     ApiKey, Missing, Bad, NoToken, Credential
<1>6. GivenIsRegistered' /\ BillingIsRecorded'
  BY DEF TakeKey, Goes, hostVars, rollout, HomeTypeOK, GivenIsRegistered,
     BillingIsRecorded, Given, Sources, FromHost, Homes, Path, Registered, Billed, Checked,
     Reading, Token, Oauth, ApiKey, Missing, Bad, NoToken, Credential
<1> QED
  BY <1>1, <1>2, <1>3, <1>4, <1>5, <1>6

\* Owning the home changes nothing in it.
LEMMA OwnKeeps ==
  ASSUME HomeInv, NEW r \in Rollouts, Own(r) PROVE HomeInv'
<1> USE HomeAssumption DEF HomeInv
<1>1. HomeTypeOK'
  BY Shapes, ModeTypes DEF Own, Goes, hostVars, rollout, HomeTypeOK, HomeSteps, HomeLanes,
     Token, NoToken
<1>2. Sources' /\ Homes'
  BY DEF Own, Goes, hostVars, rollout, HomeTypeOK, Sources, Homes, FromHost, Token,
     Oauth, ApiKey, Missing, Bad, NoToken
<1>3. ASSUME NEW q \in Rollouts PROVE Path(q)' /\ LivedSince(q)'
  BY DEF Own, Goes, hostVars, rollout, HomeTypeOK, Path, LivedSince, Reading, Lived,
     Sources, FromHost, Valid, Token, Oauth, ApiKey, Missing, Bad, NoToken
<1>4. ASSUME NEW q \in Rollouts PROVE Billed(q)' /\ Checked(q)' /\ Registered(q)'
  BY DEF Own, Goes, hostVars, rollout, HomeTypeOK, Path, Billed, Checked, Registered,
     Reading, Valid, NoToken
<1>5. GivenIsUsable'
  BY DEF Own, Goes, hostVars, rollout, HomeTypeOK, GivenIsUsable, Given, Homes,
     LivedSince, Checked, Reading, Lived, Valid, Token, Oauth, ApiKey, Missing, Bad,
     NoToken
<1>6. GivenIsRegistered' /\ BillingIsRecorded'
  BY DEF Own, Goes, hostVars, rollout, HomeTypeOK, GivenIsRegistered, BillingIsRecorded,
     Given, Homes, Registered, Billed, Checked, Reading, Token, Oauth, ApiKey, Missing,
     Bad, NoToken
<1> QED
  BY <1>1, <1>2, <1>3, <1>4, <1>5, <1>6

\* A renewed token is in one home, and is not the one that was given.
LEMMA RenewKeeps ==
  ASSUME HomeInv, NEW r \in Rollouts, Renew(r) PROVE HomeInv'
<1> USE HomeAssumption DEF HomeInv, NoToken
<1>1. /\ tokens' \in Seq(Token) /\ Len(tokens') \in 2..MaxTokens
      /\ NewToken \in (1..MaxTokens) \ DOMAIN tokens /\ NewToken \in DOMAIN tokens'
      /\ tokens'[NewToken].to = "agent"
      /\ \A k \in DOMAIN tokens : k \in DOMAIN tokens' /\ tokens'[k] = tokens[k]
  BY IssueAppends DEF Renew
<1>2. /\ home' = [home EXCEPT ![r] = Oauth(NewToken)] /\ home \in [Rollouts -> Credential]
      /\ Oauth(NewToken).token = NewToken /\ Oauth(NewToken) \in Credential
  BY <1>1, Shapes DEF Renew, HomeTypeOK, Oauth
<1>3. UNCHANGED <<platform, lane, time, keychain, profile, since, seed, billed, mode, secrets,
                  doing, disturbed>>
  BY DEF Renew
<1>4. HomeTypeOK'
  BY <1>1, <1>2, <1>3 DEF HomeTypeOK
<1>5. Sources'
  BY <1>1, <1>3 DEF Sources, FromHost
<1>6. Homes'
  <2>1. \A q \in Rollouts \ {r} : home'[q] = home[q]
    BY <1>2
  <2>2. home'[r].token = NewToken
    BY <1>2
  <2>3. \A q \in Rollouts \ {r} : home[q].token # NewToken
    BY <1>1 DEF Homes
  <2> QED
    BY <1>1, <2>1, <2>2, <2>3 DEF Homes
\* What was renewed is no longer what was given.
<1>7. \A q \in Rollouts : Given(q)' => q # r /\ Given(q) /\ home'[q] = home[q]
  BY <1>1, <1>2, <1>3 DEF Given, Homes
<1>8. ASSUME NEW q \in Rollouts
      PROVE (Path(q) /\ LivedSince(q) /\ Billed(q) /\ Checked(q) /\ Registered(q))'
  <2>1. Path(q)'
    BY <1>1, <1>3 DEF Path, HomeTypeOK
  <2>2. LivedSince(q)'
    <3>1. Reading(q)' => Reading(q)
      BY <1>3 DEF Reading
    <3>2. Lived(profile, q) => Lived(profile, q)'
      <4> SUFFICES ASSUME lane = "claude", platform = "darwin", Lived(profile, q)
                   PROVE  profile.kind = "oauth" /\ tokens'[profile.token].until > since[q] + Skew
        BY <1>3 DEF Lived
      <4>1. profile.token \in DOMAIN tokens
        BY DEF Lived, Sources, FromHost, HomeTypeOK, Credential
      <4> QED
        BY <1>1, <4>1 DEF Lived
    <3> QED
      BY <3>1, <3>2 DEF LivedSince
  <2>3. Billed(q)' /\ Checked(q)' /\ Registered(q)'
    BY <1>3 DEF Billed, Checked, Registered, Reading, Valid, Mode
  <2> QED
    BY <2>1, <2>2, <2>3
<1>9. GivenIsUsable' /\ GivenIsRegistered' /\ BillingIsRecorded'
  <2> SUFFICES ASSUME NEW q \in Rollouts, q # r, Given(q), home'[q] = home[q]
               PROVE  /\ home[q].kind \in {"oauth", "key"}
                      /\ lane = "claude" => home[q].kind = "oauth"
                      /\ lane = "claude" /\ platform = "darwin"
                           => tokens'[home[q].token].until > since[q] + Skew
                      /\ home[q].token \in secrets[q]
                      /\ lane = "codex" => billed[q] = Mode(home[q]) /\ mode[q] = billed[q]
    BY <1>3, <1>7 DEF GivenIsUsable, GivenIsRegistered, BillingIsRecorded
  <2>1. home[q].token \in DOMAIN tokens
    BY DEF GivenIsRegistered, HomeTypeOK
  <2> QED
    BY <1>1, <2>1 DEF GivenIsUsable, GivenIsRegistered, BillingIsRecorded
<1> QED
  BY <1>4, <1>5, <1>6, <1>8, <1>9

\* A login issues a token of the host; whoever reads the profile is disturbed.
LEMMA LogInKeeps ==
  ASSUME HomeInv, LogIn PROVE HomeInv'
<1> USE HomeAssumption DEF HomeInv
<1>1. /\ tokens' \in Seq(Token) /\ Len(tokens') \in 2..MaxTokens
      /\ NewToken \in (1..MaxTokens) \ DOMAIN tokens /\ NewToken \in DOMAIN tokens'
      /\ tokens'[NewToken].to = "host"
      /\ \A k \in DOMAIN tokens : k \in DOMAIN tokens' /\ tokens'[k] = tokens[k]
  BY IssueAppends DEF LogIn
<1>2. UNCHANGED <<platform, lane, time, since, seed, billed, mode, secrets, home, doing>>
  BY DEF LogIn, rollout
<1>3. \A q \in Rollouts : Reading(q)' => Reading(q) /\ profile' = profile
  BY <1>2 DEF LogIn, Rewritten, Reading
<1>4. HomeTypeOK'
  BY <1>1, <1>2, Shapes DEF LogIn, Rewritten, HomeTypeOK
<1>5. Sources'
  <2>1. keychain' \in {keychain, NewToken} /\ profile' \in {profile, Oauth(NewToken), ApiKey(NewToken)}
    BY DEF LogIn
  <2>2. /\ lane = "claude" => profile' \in {profile, Oauth(NewToken)}
        /\ lane # "opencode"
    BY DEF LogIn
  <2>3. FromHost(profile.token)' /\ FromHost(keychain)' /\ \A q \in Rollouts : FromHost(seed[q])'
    BY <1>1, <1>2, <2>1 DEF Sources, FromHost, Oauth, ApiKey
  <2> QED
    BY <1>2, <2>2, <2>3 DEF Sources, Oauth
<1>6. Homes'
  BY <1>1, <1>2 DEF Homes
<1>7. \A q \in Rollouts : Given(q)' => Given(q)
  BY <1>1, <1>2 DEF LogIn, Rewritten, Given, Homes
<1>8. ASSUME NEW q \in Rollouts
      PROVE (Path(q) /\ LivedSince(q) /\ Billed(q) /\ Checked(q) /\ Registered(q))'
  <2>1. Path(q)'
    BY <1>1, <1>2 DEF Path, Sources, FromHost
  <2>2. LivedSince(q)'
    <3> SUFFICES ASSUME Reading(q)', lane = "claude", platform = "darwin"
                 PROVE  profile'.kind = "oauth" /\ tokens'[profile'.token].until > since[q] + Skew
      BY <1>2 DEF LivedSince, Lived
    <3>1. Lived(profile, q) /\ profile' = profile
      BY <1>3 DEF LivedSince
    <3>2. profile.token \in DOMAIN tokens
      BY <3>1 DEF Lived, Sources, FromHost, HomeTypeOK, Credential, NoToken
    <3> QED
      BY <1>1, <3>1, <3>2 DEF Lived
  <2>3. Billed(q)' /\ Checked(q)' /\ Registered(q)'
    BY <1>2, <1>3 DEF Billed, Checked, Registered, Reading, Valid, Mode
  <2> QED
    BY <2>1, <2>2, <2>3
<1>9. GivenIsUsable' /\ GivenIsRegistered' /\ BillingIsRecorded'
  <2> SUFFICES ASSUME NEW q \in Rollouts, Given(q)
               PROVE  /\ home[q].kind \in {"oauth", "key"}
                      /\ lane = "claude" => home[q].kind = "oauth"
                      /\ lane = "claude" /\ platform = "darwin"
                           => tokens'[home[q].token].until > since[q] + Skew
                      /\ home[q].token \in secrets[q]
                      /\ lane = "codex" => billed[q] = Mode(home[q]) /\ mode[q] = billed[q]
    BY <1>2, <1>7 DEF GivenIsUsable, GivenIsRegistered, BillingIsRecorded
  <2>1. home[q].token \in DOMAIN tokens
    BY DEF GivenIsRegistered, HomeTypeOK
  <2> QED
    BY <1>1, <2>1 DEF GivenIsUsable, GivenIsRegistered, BillingIsRecorded
<1> QED
  BY <1>4, <1>5, <1>6, <1>8, <1>9

\* A logout disturbs whoever reads the profile.
LEMMA LogOutKeeps ==
  ASSUME HomeInv, LogOut PROVE HomeInv'
<1> USE HomeAssumption DEF HomeInv
<1>1. HomeTypeOK'
  BY Shapes, ModeTypes DEF LogOut, Rewritten, hostVars, rollout, HomeTypeOK, HomeSteps,
     HomeLanes, Token, NoToken
<1>2. Sources' /\ Homes'
  BY DEF LogOut, Rewritten, hostVars, rollout, HomeTypeOK, Sources, Homes, FromHost,
     Token, Oauth, ApiKey, Missing, Bad, NoToken
<1>3. ASSUME NEW q \in Rollouts PROVE Path(q)' /\ LivedSince(q)'
  BY DEF LogOut, Rewritten, hostVars, rollout, HomeTypeOK, Path, LivedSince, Reading,
     Lived, Sources, FromHost, Valid, Token, Oauth, ApiKey, Missing, Bad, NoToken
<1>4. ASSUME NEW q \in Rollouts PROVE Billed(q)' /\ Checked(q)' /\ Registered(q)'
  BY DEF LogOut, Rewritten, hostVars, rollout, HomeTypeOK, Path, Billed, Checked,
     Registered, Reading, Valid, NoToken
<1>5. GivenIsUsable'
  BY DEF LogOut, Rewritten, hostVars, rollout, HomeTypeOK, GivenIsUsable, Given, Homes,
     LivedSince, Checked, Reading, Lived, Valid, Token, Oauth, ApiKey, Missing, Bad,
     NoToken
<1>6. GivenIsRegistered' /\ BillingIsRecorded'
  BY DEF LogOut, Rewritten, hostVars, rollout, HomeTypeOK, GivenIsRegistered,
     BillingIsRecorded, Given, Homes, Registered, Billed, Checked, Reading, Token, Oauth,
     ApiKey, Missing, Bad, NoToken
<1> QED
  BY <1>1, <1>2, <1>3, <1>4, <1>5, <1>6

\* Time passes no token by: what was live is compared with `since`.
LEMMA PassesKeeps ==
  ASSUME HomeInv, Passes PROVE HomeInv'
<1> USE HomeAssumption DEF HomeInv
<1>1. HomeTypeOK'
  BY Shapes, ModeTypes DEF Passes, hostVars, rollout, HomeTypeOK, HomeSteps, HomeLanes,
     Token, NoToken
<1>2. Sources' /\ Homes'
  BY DEF Passes, hostVars, rollout, HomeTypeOK, Sources, Homes, FromHost, Token, Oauth,
     ApiKey, Missing, Bad, NoToken
<1>3. ASSUME NEW q \in Rollouts PROVE Path(q)' /\ LivedSince(q)'
  BY DEF Passes, hostVars, rollout, HomeTypeOK, Path, LivedSince, Reading, Lived,
     Sources, FromHost, Valid, Token, Oauth, ApiKey, Missing, Bad, NoToken
<1>4. ASSUME NEW q \in Rollouts PROVE Billed(q)' /\ Checked(q)' /\ Registered(q)'
  BY DEF Passes, hostVars, rollout, HomeTypeOK, Path, Billed, Checked, Registered,
     Reading, Valid, NoToken
<1>5. GivenIsUsable'
  BY DEF Passes, hostVars, rollout, HomeTypeOK, GivenIsUsable, Given, Homes, LivedSince,
     Checked, Reading, Lived, Valid, Token, Oauth, ApiKey, Missing, Bad, NoToken
<1>6. GivenIsRegistered' /\ BillingIsRecorded'
  BY DEF Passes, hostVars, rollout, HomeTypeOK, GivenIsRegistered, BillingIsRecorded,
     Given, Homes, Registered, Billed, Checked, Reading, Token, Oauth, ApiKey, Missing,
     Bad, NoToken
<1> QED
  BY <1>1, <1>2, <1>3, <1>4, <1>5, <1>6

\* Before any preparation only the operator's own credentials exist.
LEMMA HomeStarts == HomeInit => HomeInv
<1> SUFFICES ASSUME HomeInit PROVE HomeInv
  OBVIOUS
<1> USE HomeAssumption DEF HomeInit
<1>1. HomeTypeOK
  <2>1. tokens \in Seq(Token) /\ Len(tokens) = 2 /\ 1 \in DOMAIN tokens /\ 2 \in DOMAIN tokens
    <3>1. PICK u \in {0, Life}, v \in {0, Life} :
            tokens = <<[until |-> u, to |-> "host"], [until |-> v, to |-> "host"]>>
      OBVIOUS
    <3>2. [until |-> u, to |-> "host"] \in Token /\ [until |-> v, to |-> "host"] \in Token
      BY DEF Token
    <3> HIDE DEF HomeInit
    <3> QED
      BY <3>1, <3>2
  <2>2. profile \in Credential
    BY Shapes
  <2> QED
    BY <2>1, <2>2, Shapes DEF HomeTypeOK, HomeLanes, HomeSteps, Modes, NoToken
<1>2. Sources /\ Homes
  BY DEF Sources, Homes, FromHost, Missing, Oauth, ApiKey, NoToken
<1>3. ASSUME NEW r \in Rollouts
      PROVE  Path(r) /\ LivedSince(r) /\ Billed(r) /\ Checked(r) /\ Registered(r)
  BY DEF Path, LivedSince, Billed, Checked, Registered, Reading
<1>4. GivenIsUsable /\ GivenIsRegistered /\ BillingIsRecorded
  BY DEF GivenIsUsable, GivenIsRegistered, BillingIsRecorded, Given
<1> QED
  BY <1>1, <1>2, <1>3, <1>4 DEF HomeInv

-------------------------------------------------------------------------------

\* Every preparation, login, logout, renewal and passing of time keeps the invariant:
\* what a preparation knows of the profile holds until another writes it.
THEOREM HomeInvariant == HomeSpec => []HomeInv
<1>1. HomeInv /\ [HomeNext]_homeVars => HomeInv'
  <2> SUFFICES ASSUME HomeInv, [HomeNext]_homeVars PROVE HomeInv'
    OBVIOUS
  <2>1. ASSUME NEW r \in Rollouts, Prepare(r) PROVE HomeInv'
    BY <2>1, BeginKeeps, LookAtFileKeeps, ReadKeychainKeeps, TruncateKeeps, WriteSeedKeeps,
       CheckKeeps, RegisterKeeps, CopyKeeps, TakeKeyKeeps, OwnKeeps DEF Prepare
  <2>2. ASSUME NEW r \in Rollouts, Renew(r) PROVE HomeInv'
    BY <2>2, RenewKeeps
  <2>3. CASE LogIn \/ LogOut \/ Passes
    BY <2>3, LogInKeeps, LogOutKeeps, PassesKeeps
  <2>4. CASE UNCHANGED homeVars
    <3>1. UNCHANGED <<platform, lane, time, tokens, keychain, profile, since, seed, billed,
                      mode, secrets, home, doing, disturbed>>
      BY <2>4 DEF homeVars, hostVars, rollout
    <3> QED
      BY <3>1 DEF HomeInv, HomeTypeOK, Sources, Homes, FromHost, Path, LivedSince, Billed,
                  Checked, Registered, Reading, Lived, Valid, Mode, GivenIsUsable,
                  GivenIsRegistered, BillingIsRecorded, Given
  <2> QED
    BY <2>1, <2>2, <2>3, <2>4 DEF HomeNext
<1> QED
  BY <1>1, HomeStarts, PTL DEF HomeSpec

\* compose_unit.py: the credentials of every home are usable, known for redaction, billed
\* as recorded, and separate from the profile and from other homes.
THEOREM HomeIsCorrect == HomeSpec => []HomeCorrect
<1>1. HomeInv => HomeCorrect
  <2> SUFFICES ASSUME HomeInv PROVE ProfileIsInputOnly
    BY DEF HomeInv, HomeCorrect
  <2> QED
    BY DEF HomeInv, Sources, Homes, FromHost, ProfileIsInputOnly
<1> QED
  BY <1>1, HomeInvariant, PTL

===============================================================================
