---------------------------- MODULE ProviderToken ----------------------------
(***************************************************************************)
(* The provider token of the APNs client (crates/core/src/push/apns.rs).   *)
(* Every send takes the cached token, under a mutex, or mints a new one.   *)
(* The cache reads the wall clock, which an administrator or NTP may step; *)
(* Apple judges a token by the time that really passed.                    *)
(***************************************************************************)
EXTENDS Integers

CONSTANTS
  JwtMaxAge,    \* JWT_MAX_AGE_SECS: the cache's limit
  AppleMaxAge,  \* Apple rejects an older token
  AppleMinGap,  \* Apple objects to tokens minted closer together
  NoToken,
  Steps,        \* clock corrections, negative and positive
  MaxWall, MaxSends, MaxSteps   \* bounds

ASSUME TokenAssumption ==
  /\ JwtMaxAge \in Nat \ {0}
  /\ {AppleMaxAge, AppleMinGap} \subseteq Nat
  /\ AppleMinGap <= JwtMaxAge /\ JwtMaxAge <= AppleMaxAge
  /\ NoToken \notin Int
  /\ Steps \subseteq Int
  /\ {MaxWall, MaxSends, MaxSteps} \subseteq Nat

VARIABLES
  wall,     \* the wall clock, seconds since the epoch; negative before it
  jwt,      \* issued_at of the cached token
  age,      \* the time that passed since it was minted
  back,     \* how far the clock was set back since then, in all
  ahead,    \* how far it was set forward
  sends, mints, steps

tokenVars == <<wall, jwt, age, back, ahead, sends, mints, steps>>

TokenTypeOK ==
  /\ wall \in Int
  /\ jwt \in Nat \cup {NoToken}
  /\ {age, back, ahead, sends, mints, steps} \subseteq Nat

TokenInit ==
  /\ wall \in {-1, 0}
  /\ jwt = NoToken
  /\ age = 0 /\ back = 0 /\ ahead = 0
  /\ sends = 0 /\ mints = 0 /\ steps = 0

(* Mutant: the check is on the wrong side of the limit.                    *)
CachedAnyAge == jwt # NoToken /\ wall - jwt <= AppleMaxAge

(* now.saturating_sub(issued_at) < JWT_MAX_AGE_SECS: a token that seems to *)
(* come from the future is as good as new.                                 *)
Cached ==
  /\ jwt # NoToken
  /\ (IF wall < jwt THEN 0 ELSE wall - jwt) < JwtMaxAge

Mint ==
  /\ jwt' = wall
  /\ age' = 0 /\ back' = 0 /\ ahead' = 0
  /\ mints' = mints + 1

(* A send to one device.  Before the epoch now_secs fails and nothing is   *)
(* sent; a token Apple rejects stays cached.                               *)
SendWithToken ==
  /\ sends < MaxSends
  /\ wall >= 0
  /\ sends' = sends + 1
  /\ IF Cached THEN UNCHANGED <<jwt, age, back, ahead, mints>> ELSE Mint
  /\ UNCHANGED <<wall, steps>>

(* Time passes.                                                            *)
Pass ==
  /\ wall < MaxWall
  /\ wall' = wall + 1
  /\ age' = age + 1
  /\ UNCHANGED <<jwt, back, ahead, sends, mints, steps>>

(* The clock is corrected by d.                                            *)
StepClock(d) ==
  /\ steps < MaxSteps /\ wall + d <= MaxWall
  /\ steps' = steps + 1
  /\ wall' = wall + d
  /\ IF d < 0 THEN back' = back - d /\ UNCHANGED ahead
     ELSE ahead' = ahead + d /\ UNCHANGED back
  /\ UNCHANGED <<jwt, age, sends, mints>>

TokenNext == SendWithToken \/ Pass \/ \E d \in Steps : StepClock(d)

TokenSpec == TokenInit /\ [][TokenNext]_tokenVars

(* Apple's two limits hold as long as the clock is not set back, or ahead, *)
(* by more than the margin the refresh mark leaves: no token older than an *)
(* hour is sent and no two are minted within twenty minutes in one process *)
(* (current_jwt; the comment at CachedJwt).                                *)
WithinAppleLimits ==
  [][/\ sends' # sends /\ back' <= AppleMaxAge - JwtMaxAge => age' < AppleMaxAge
     /\ mints' # mints /\ jwt # NoToken /\ ahead <= JwtMaxAge - AppleMinGap
          => age >= AppleMinGap]_tokenVars
=============================================================================
