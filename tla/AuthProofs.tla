----------------------------- MODULE AuthProofs -----------------------------
(***************************************************************************)
(* Theorems about Auth: how long a token is good for and when revoking its *)
(* key ends it, for every expiry, resolution and set of clock corrections. *)
(***************************************************************************)
EXTENDS Auth, TLAPS

(* int() of a number of seconds: at most it, and less than one below it.   *)
LEMMA WholeSeconds ==
  ASSUME NEW t \in Nat, NEW d \in Nat \ {0}
  PROVE  /\ t \div d \in Nat
         /\ (t \div d) * d <= t
         /\ t < (t \div d) * d + d
OBVIOUS

(* Products of the expiry, with nothing but the distributive law.          *)
LEMMA Distributes ==
  ASSUME NEW a \in Nat, NEW e \in Nat \ {0}, NEW d \in Nat \ {0}
  PROVE  /\ (a + e) * d = a * d + e * d
         /\ (e - 1) * d = e * d - d
         /\ a * d \in Nat /\ e * d \in Nat
OBVIOUS

-----------------------------------------------------------------------------
(* What is known of a token: it was issued in the past, its claim is the   *)
(* wall clock then, cut to seconds; and if its key is not in the settings  *)
(* now, it was issued before the restart that dropped the key.             *)

Issued(t) ==
  /\ t.born <= now
  /\ t.skew \in Nat
  /\ t.iat * TicksPerSecond <= t.born + t.skew
  /\ t.born + t.skew < t.iat * TicksPerSecond + TicksPerSecond
  /\ t.key \notin settings.keys => t.born <= dropped[t.key]

AuthInv == /\ TypeOK
           /\ \A k \in ApiKeys : dropped[k] <= now
           /\ \A t \in tokens : Issued(t)

LEMMA AuthInit == Init => AuthInv
BY ConstantsAssumption DEF Init, AuthInv, TypeOK, Settings

(* A token issued now is a token, and known of what AuthInv says.          *)
LEMMA IssueStep ==
  ASSUME AuthInv, NEW k \in ApiKeys, issue_token(k)
  PROVE  AuthInv'
<1>1. /\ now \in Nat /\ skew \in Nat /\ settings.secret \in Secrets
      /\ TicksPerSecond \in Nat \ {0} /\ k \in settings.keys
  BY ConstantsAssumption DEF AuthInv, TypeOK, Settings, issue_token, MayIssue
<1>2. PICK t : t = create_access_token(k)
  OBVIOUS
<1>3. /\ time \in Nat /\ time = now + skew
      /\ IssuedAt \in Nat
      /\ IssuedAt * TicksPerSecond <= time
      /\ time < IssuedAt * TicksPerSecond + TicksPerSecond
  BY <1>1, WholeSeconds DEF time, IssuedAt
<1>4. /\ t.iat = IssuedAt /\ t.secret = settings.secret /\ t.key = k
      /\ t.born = now /\ t.skew = skew /\ t \in Token
  BY <1>1, <1>2, <1>3 DEF create_access_token, Token
<1>5. Issued(t)
  BY <1>1, <1>3, <1>4 DEF Issued
<1>6. tokens' = tokens \cup {t} /\ UNCHANGED <<now, skew, env, settings, dropped>>
  BY <1>2 DEF issue_token
<1>7. TypeOK'
  BY <1>4, <1>6 DEF AuthInv, TypeOK
<1>8. \A u \in tokens \cup {t} : Issued(u)'
  BY <1>5, <1>6 DEF AuthInv, Issued
<1>9. QED
  BY <1>6, <1>7, <1>8 DEF AuthInv

(* A restart notes since when the keys that go are gone.                   *)
LEMMA RestartStep ==
  ASSUME AuthInv, Restart
  PROVE  AuthInv'
<1>1. /\ settings' = env /\ UNCHANGED <<now, skew, env, tokens>>
      /\ dropped' = [k \in ApiKeys |-> IF k \in settings.keys THEN now ELSE dropped[k]]
  BY DEF Restart
<1>2. now \in Nat /\ dropped \in [ApiKeys -> Nat]
  BY DEF AuthInv, TypeOK
<1>3. dropped' \in [ApiKeys -> Nat] /\ \A k \in ApiKeys : dropped'[k] <= now
  BY <1>1, <1>2 DEF AuthInv
<1>4. TypeOK'
  BY <1>1, <1>3 DEF AuthInv, TypeOK
<1>5. ASSUME NEW t \in tokens
      PROVE  Issued(t)'
  <2>1. t.key \in ApiKeys /\ Issued(t)
    BY DEF AuthInv, TypeOK, Token
  <2>2. t.born <= dropped'[t.key]
    BY <1>1, <2>1 DEF Issued
  <2>3. QED
    BY <1>1, <2>1, <2>2 DEF Issued
<1>6. QED
  BY <1>1, <1>3, <1>4, <1>5 DEF AuthInv

LEMMA AuthStep == AuthInv /\ [Next]_vars => AuthInv'
<1> SUFFICES ASSUME AuthInv, [Next]_vars PROVE AuthInv'
  OBVIOUS
<1>1. CASE Configure
  BY <1>1 DEF Configure, AuthInv, TypeOK, Issued
<1>2. CASE Tick
  <2>1. now' = now + 1 /\ UNCHANGED <<skew, env, settings, tokens, dropped>>
    BY <1>2 DEF Tick
  <2>2. TypeOK'
    BY <2>1 DEF AuthInv, TypeOK
  <2>3. ASSUME NEW t \in tokens
        PROVE  Issued(t)'
    <3>1. t.born \in Nat /\ now \in Nat /\ Issued(t)
      BY DEF AuthInv, TypeOK, Token
    <3>2. t.born <= now'
      BY <2>1, <3>1 DEF Issued
    <3>3. QED
      BY <2>1, <3>1, <3>2 DEF Issued
  <2>4. \A k \in ApiKeys : dropped'[k] <= now'
    BY <2>1 DEF AuthInv, TypeOK
  <2>5. QED
    BY <2>1, <2>2, <2>3, <2>4 DEF AuthInv
<1>3. CASE SetClock
  BY <1>3 DEF SetClock, AuthInv, TypeOK, Issued
<1>4. CASE UNCHANGED vars
  BY <1>4 DEF vars, AuthInv, TypeOK, Issued
<1>5. QED
  BY <1>1, <1>2, <1>3, <1>4, IssueStep, RestartStep DEF Next

LEMMA AuthInvariant == Spec => []AuthInv
BY AuthInit, AuthStep, PTL DEF Spec

(* The states of authentication are well typed: every issued claim is a    *)
(* number of seconds, every key of a token one that was configured.        *)
THEOREM AuthTypeCorrect == Spec => []TypeOK
BY AuthInvariant, PTL DEF AuthInv

(* What a valid token says of the time, in terms that need no products.    *)
LEMMA ValidIsYoung ==
  ASSUME AuthInv, NEW t \in tokens, _verify_jwt(t)
  PROVE  now + skew < t.born + t.skew + Expiry * TicksPerSecond
<1>1. /\ t.iat \in Nat /\ t.born \in Nat /\ t.skew \in Nat /\ now \in Nat /\ skew \in Nat
      /\ Expiry \in Nat \ {0} /\ TicksPerSecond \in Nat \ {0} /\ Issued(t)
  BY ConstantsAssumption DEF AuthInv, TypeOK, Token
<1>2. now + skew < (t.iat + Expiry) * TicksPerSecond
  BY DEF _verify_jwt, IsLive, time
<1>3. PICK i \in Nat, e \in Nat :
        /\ i = t.iat * TicksPerSecond /\ e = Expiry * TicksPerSecond
        /\ (t.iat + Expiry) * TicksPerSecond = i + e
  BY <1>1, Distributes
<1>4. i <= t.born + t.skew
  BY <1>1, <1>3 DEF Issued
<1>5. now + skew < i + e
  BY <1>2, <1>3
<1>6. now + skew < t.born + t.skew + e
  BY <1>1, <1>4, <1>5
<1>7. QED
  BY <1>3, <1>6

(* A token is refused once Expiry seconds have passed since it was issued, *)
(* whatever the clock was corrected by, for every expiry and resolution.   *)
THEOREM TokensExpire == Spec => []TokenExpires
<1>1. AuthInv => TokenExpires
  <2> SUFFICES ASSUME AuthInv, NEW t \in tokens, _verify_jwt(t)
               PROVE  now - t.born < Expiry * TicksPerSecond + (t.skew - skew)
    BY DEF TokenExpires
  <2>1. now \in Nat /\ skew \in Nat /\ t.born \in Nat /\ t.skew \in Nat
    BY ConstantsAssumption DEF AuthInv, TypeOK, Token
  <2>2. PICK e \in Nat : e = Expiry * TicksPerSecond
    BY ConstantsAssumption
  <2>3. now + skew < t.born + t.skew + e
    BY <2>2, ValidIsYoung
  <2>4. QED
    BY <2>1, <2>2, <2>3
<1>2. QED
  BY <1>1, AuthInvariant, PTL

(* A token is accepted until the last second of its expiry begins, unless  *)
(* the secret or the clock is changed, and whatever becomes of its key.    *)
THEOREM TokensLast == Spec => []TokenLasts
<1>1. AuthInv => TokenLasts
  <2> SUFFICES ASSUME AuthInv, NEW t \in tokens, t.secret = settings.secret,
                      t.skew = skew, now - t.born <= (Expiry - 1) * TicksPerSecond
               PROVE  AcceptsToken(t)
    BY DEF TokenLasts
  <2>1. /\ t.iat \in Nat /\ t.born \in Nat /\ now \in Nat /\ skew \in Nat
        /\ Expiry \in Nat \ {0} /\ TicksPerSecond \in Nat \ {0} /\ Issued(t)
    BY ConstantsAssumption DEF AuthInv, TypeOK, Token
  <2>2. PICK i \in Nat, e \in Nat :
          /\ i = t.iat * TicksPerSecond /\ e = Expiry * TicksPerSecond
          /\ (t.iat + Expiry) * TicksPerSecond = i + e
          /\ (Expiry - 1) * TicksPerSecond = e - TicksPerSecond
    BY <2>1, Distributes
  <2>3. i <= t.born + skew /\ t.born + skew < i + TicksPerSecond /\ t.born <= now
    BY <2>1, <2>2 DEF Issued
  <2>4. i <= now + skew
    BY <2>1, <2>2, <2>3
  <2>5. now - t.born <= e - TicksPerSecond
    BY <2>2
  <2>6. now + skew < i + e
    BY <2>1, <2>3, <2>5
  <2>7. QED
    BY <2>2, <2>4, <2>6 DEF AcceptsToken, _verify_jwt, IsLive, time
<1>2. QED
  BY <1>1, AuthInvariant, PTL

(* Revocation is final while a key is left: Expiry seconds after the       *)
(* restart that dropped a key, a gateway that asks for credentials accepts *)
(* no token issued for it, for every expiry and clock correction.          *)
THEOREM RevocationIsFinal == Spec => []RevocationEnds
<1>1. AuthInv => RevocationEnds
  <2> SUFFICES ASSUME AuthInv, ~disabled,
                      NEW t \in tokens, t.key \notin settings.keys, AcceptsToken(t)
               PROVE  now - dropped[t.key] < Expiry * TicksPerSecond + (t.skew - skew)
    BY DEF RevocationEnds
  <2>0. _verify_jwt(t)
    BY DEF AcceptsToken
  <2>1. /\ now \in Nat /\ skew \in Nat /\ t.born \in Nat /\ t.skew \in Nat
        /\ dropped[t.key] \in Nat /\ t.born <= dropped[t.key]
    BY ConstantsAssumption DEF AuthInv, TypeOK, Token, Issued
  <2>2. PICK e \in Nat : e = Expiry * TicksPerSecond
    BY ConstantsAssumption
  <2>3. now + skew < t.born + t.skew + e
    BY <2>0, <2>2, ValidIsYoung
  <2>4. QED
    BY <2>1, <2>2, <2>3
<1>2. QED
  BY <1>1, AuthInvariant, PTL
=============================================================================
