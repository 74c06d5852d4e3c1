-------------------------------- MODULE Auth --------------------------------
(***************************************************************************)
(* backend/gateway/auth.py and POST /v1/admin/auth/token: API keys and the *)
(* JWTs issued for them, while time passes, the wall clock is corrected,   *)
(* the operator changes the settings and the gateway restarts.  Verifying  *)
(* a credential keeps no state: it is an operator of the current state.    *)
(* What PyJWT makes of "iat" and "exp" is external: it compares them with  *)
(* the wall clock, fractions included, without leeway.                     *)
(***************************************************************************)
EXTENDS Integers, FiniteSets

CONSTANTS
  ApiKeys,
  Secrets,           \* values of jwt_secret
  Expiry,            \* jwt_expiry_seconds
  TicksPerSecond,
  Skews,             \* bound: how far the wall clock may be from elapsed time
  MaxNow,            \* bound: time stops here
  MaxTokens          \* bound: tokens issued

ASSUME ConstantsAssumption ==
  /\ Expiry \in Nat \ {0}
  /\ TicksPerSecond \in Nat \ {0}
  /\ Skews \subseteq Nat /\ Skews # {}
  /\ MaxNow \in Nat /\ MaxTokens \in Nat

Settings == [keys : SUBSET ApiKeys, secret : Secrets]

VARIABLES
  now,        \* elapsed time, in ticks
  skew,       \* what the wall clock shows is now + skew
  env,        \* SERVELLM_API_KEYS and SERVELLM_JWT_SECRET, as they are set now
  settings,   \* what get_settings() has cached of them
  tokens,     \* the tokens issued: the claim and the secret, and as history
              \* the key, the time and the skew at which they were issued
  dropped     \* history: since when each key is not in the settings

vars == <<now, skew, env, settings, tokens, dropped>>

Token == [iat : Nat, secret : Secrets, key : ApiKeys, born : Nat, skew : Nat]

time == now + skew

Init ==
  /\ now = 0
  /\ skew \in Skews
  /\ env \in Settings
  /\ settings = env
  /\ tokens = {}
  /\ dropped = [k \in ApiKeys |-> 0]

-----------------------------------------------------------------------------
(* Mutants: the time of issue is rounded, or is a second early; the expiry *)
(* includes its last instant.                                              *)
IssuedAtRounded == (time + TicksPerSecond - 1) \div TicksPerSecond
IssuedAtEarly == time \div TicksPerSecond - 1
IsLiveInclusive(t) == time <= (t.iat + Expiry) * TicksPerSecond

(* int(time.time())                                                        *)
IssuedAt == time \div TicksPerSecond

(* exp = iat + jwt_expiry_seconds, not included.                           *)
IsLive(t) == time < (t.iat + Expiry) * TicksPerSecond

(* A token from the future, after a correction of the clock, is refused.   *)
_verify_jwt(t) ==
  /\ t.secret = settings.secret
  /\ t.iat * TicksPerSecond <= time
  /\ IsLive(t)

disabled == settings.keys = {}
AcceptsKey(k) == disabled \/ k \in settings.keys
AcceptsToken(t) == disabled \/ _verify_jwt(t)

(* Mutant: the key is taken as it comes.                                   *)
MayIssueAny(k) == ~disabled
MayIssue(k) == ~disabled /\ k \in settings.keys

create_access_token(k) ==
  [iat |-> IssuedAt, secret |-> settings.secret, key |-> k, born |-> now, skew |-> skew]

(* A wrong key is answered 401, and with no keys at all 400.               *)
issue_token(k) ==
  /\ MayIssue(k)
  /\ Cardinality(tokens) < MaxTokens
  /\ tokens' = tokens \cup {create_access_token(k)}
  /\ UNCHANGED <<now, skew, env, settings, dropped>>

(* The operator changes the environment; nobody reads it before a restart. *)
Configure ==
  /\ env' \in Settings
  /\ UNCHANGED <<now, skew, settings, tokens, dropped>>

Restart ==
  /\ settings' = env
  /\ dropped' = [k \in ApiKeys |-> IF k \in settings.keys THEN now ELSE dropped[k]]
  /\ UNCHANGED <<now, skew, env, tokens>>

Tick ==
  /\ now < MaxNow
  /\ now' = now + 1
  /\ UNCHANGED <<skew, env, settings, tokens, dropped>>

SetClock ==
  /\ skew' \in Skews
  /\ UNCHANGED <<now, env, settings, tokens, dropped>>

Next ==
  \/ \E k \in ApiKeys : issue_token(k)
  \/ Configure \/ Restart \/ Tick \/ SetClock

Spec == Init /\ [][Next]_vars

-----------------------------------------------------------------------------
TypeOK ==
  /\ now \in Nat
  /\ skew \in Skews
  /\ env \in Settings
  /\ settings \in Settings
  /\ tokens \in SUBSET Token
  /\ dropped \in [ApiKeys -> Nat]

(* "A credential with a built-in expiry": a token is good for less than    *)
(* Expiry seconds of elapsed time, corrected by what the wall clock was    *)
(* set back since, across restarts and changes of the settings.            *)
TokenExpires ==
  \A t \in tokens : _verify_jwt(t) =>
    now - t.born < Expiry * TicksPerSecond + (t.skew - skew)

(* A token is good for as long as its client was told, less the second     *)
(* that int() may cut off: neither the revocation of the key nor a restart *)
(* ends it earlier, only another secret or the clock.                      *)
TokenLasts ==
  \A t \in tokens :
    /\ t.secret = settings.secret /\ t.skew = skew
    /\ now - t.born <= (Expiry - 1) * TicksPerSecond
    => AcceptsToken(t)

(* Revoking a key ends what it gave access to, as long as a key is left:   *)
(* Expiry seconds after the restart that dropped it, a gateway that asks   *)
(* for credentials accepts no token issued for it, also if the key came    *)
(* and went or authentication was switched off in between.  Dropping the   *)
(* last key revokes nothing: it lets everybody in.                         *)
RevocationEnds ==
  ~disabled =>
    \A t \in tokens : t.key \notin settings.keys /\ AcceptsToken(t) =>
      now - dropped[t.key] < Expiry * TicksPerSecond + (t.skew - skew)
=============================================================================
