----------------------------- MODULE WalletAuth -----------------------------
(***************************************************************************)
(* Users who log in with a wallet's signature and a one-time code          *)
(* (auth/wallet-auth.ts).  Everything is in one process's memory.  A       *)
(* login, the check of a signed action and the set-up of the second factor *)
(* each await once, the wallet's signature or the picture of the secret,   *)
(* and other calls run in between; a call that fails changes nothing.      *)
(*                                                                         *)
(* A signature is any non-empty string, so it is left out.  A code is      *)
(* taken to be the secret it is made from.                                 *)
(***************************************************************************)
EXTENDS Naturals, FiniteSets, Functions

CONSTANTS
   Key,            \* public keys
   Challenge,      \* bound: challenges of a run
   Session,        \* bound: sessions kept together
   Secret,         \* bound: TOTP secrets in use together
   Nonce,          \* nonces of signed actions
   AuthCall,       \* calls in progress
   Missing,        \* no entry in a map, no secret, no code
   ChallengeLife,  \* 5 minutes
   SessionLife,    \* 24 hours
   NonceLimit,     \* 10000: more used nonces than this are forgotten
   MaxTime,        \* bound
   MaxActions      \* bound: signed actions

UserRecord == [enabled : BOOLEAN, secret : Secret \cup {Missing}, proven : BOOLEAN]
Users == [Key -> UserRecord \cup {Missing}]
ChallengeRecord == [key : Key, at : 0..MaxTime, used : BOOLEAN]
SessionRecord == [key : Key, at : 0..MaxTime, unchecked : BOOLEAN]
CallRecord == [pc : {"idle", "login", "action", "setup"}, key : Key \cup {Missing},
               challenge : Challenge \cup {Missing}, nonce : Nonce \cup {Missing},
               secret : Secret \cup {Missing}, enabled : BOOLEAN, live : BOOLEAN,
               asked : BOOLEAN]

ASSUME AuthAssumption ==
   /\ Missing \notin Key \cup Challenge \cup Secret \cup Nonce \cup Users
                        \cup UserRecord \cup ChallengeRecord \cup SessionRecord
   /\ {ChallengeLife, SessionLife, NonceLimit, MaxTime, MaxActions} \subseteq Nat

\* What a run counts is finite.
ASSUME AuthBounds == IsFiniteSet(Key) /\ IsFiniteSet(Nonce) /\ IsFiniteSet(AuthCall)

VARIABLES
   users, challenges, sessions, usedNonces,
   clock,
   call,      \* calls at their await
   saved,     \* an export of the users
   logins,    \* history: sessions made of each challenge
   accepted,  \* history: how often each key's nonce was accepted
   clears,    \* history: how often the used nonces were forgotten
   crossed    \* history: challenges two logins held together, nonces two
              \* actions did, keys enabled while a set-up was at its await

authBook == <<users, challenges, sessions, usedNonces, saved>>
authHistory == <<logins, accepted, clears, crossed>>
authVars == <<authBook, clock, call, authHistory>>

\* enabled: of the user's record when the call took it, or when it was
\* replaced; live: the record the call holds is the one in the map; asked
\* (history): the login's user had a second factor when the login began.
NoCall == [pc |-> "idle", key |-> Missing, challenge |-> Missing, nonce |-> Missing,
           secret |-> Missing, enabled |-> FALSE, live |-> TRUE,
           asked |-> FALSE]

AuthInit ==
   /\ users = [k \in Key |-> Missing]
   /\ challenges = [c \in Challenge |-> Missing]
   /\ sessions = [s \in Session |-> Missing]
   /\ usedNonces = {}
   /\ clock = 0
   /\ call = [t \in AuthCall |-> NoCall]
   /\ saved = Missing
   /\ logins = [c \in Challenge |-> 0]
   /\ accepted = [k \in Key |-> [n \in Nonce |-> 0]]
   /\ clears = 0
   /\ crossed = {}

AuthTypeOK ==
   /\ users \in Users
   /\ challenges \in [Challenge -> ChallengeRecord \cup {Missing}]
   /\ sessions \in [Session -> SessionRecord \cup {Missing}]
   /\ usedNonces \subseteq Key \X Nonce
   /\ clock \in 0..MaxTime
   /\ call \in [AuthCall -> CallRecord]
   /\ saved \in Users \cup {Missing}
   /\ logins \in [Challenge -> 0..Cardinality(AuthCall)]
   /\ accepted \in [Key -> [Nonce -> 0..(MaxActions + Cardinality(AuthCall))]]
   /\ clears \in Nat
   /\ crossed \subseteq Challenge \cup (Key \X Nonce) \cup Key
-----------------------------------------------------------------------------
RegisterUser(k) ==
   /\ users[k] = Missing
   /\ users' = [users EXCEPT ![k] = [enabled |-> FALSE, secret |-> Missing, proven |-> FALSE]]
   /\ UNCHANGED <<challenges, sessions, usedNonces, saved, clock, call, authHistory>>

Expired(at, life) == clock > at + life

\* Those that have expired go whenever one is made.
CreateLoginChallenge(k, c) ==
   /\ users[k] # Missing
   /\ challenges[c] = Missing /\ logins[c] = 0
   /\ \A t \in AuthCall : call[t].challenge # c
   /\ challenges' = [d \in Challenge |->
         IF d = c THEN [key |-> k, at |-> clock, used |-> FALSE]
         ELSE IF challenges[d] # Missing /\ Expired(challenges[d].at, ChallengeLife)
              THEN Missing ELSE challenges[d]]
   /\ UNCHANGED <<users, sessions, usedNonces, saved, clock, call, authHistory>>

Await(t, c) == call[t].pc = "idle" /\ call' = [call EXCEPT ![t] = c]

\* What a call is about, if another call at its await is about it too.
Both(t, thing, about(_)) ==
   IF \E u \in AuthCall \ {t} : about(call[u]) = thing THEN {thing} ELSE {}

VerifyLogin(t, k, c, code) ==
   /\ challenges[c] # Missing /\ users[k] # Missing
   /\ ~challenges[c].used
   /\ ~Expired(challenges[c].at, ChallengeLife)
   /\ challenges[c].key = k
   /\ Await(t, [NoCall EXCEPT !.pc = "login", !.key = k, !.challenge = c, !.secret = code,
                              !.enabled = users[k].enabled, !.asked = users[k].enabled])
   /\ crossed' = crossed \cup Both(t, c, LAMBDA d : d.challenge)
   /\ UNCHANGED <<authBook, clock, logins, accepted, clears>>

(* What was read before the await decides (a seeded bug). *)
EnabledBefore(t) == call[t].enabled

\* Whether the record the call t holds asks for a second factor.
HeldEnabled(t) == IF call[t].live THEN users[call[t].key].enabled ELSE call[t].enabled

\* The user is looked up again.
VerifyTOTP(k, code) ==
   /\ users[k] # Missing
   /\ users[k].enabled
   /\ users[k].secret # Missing
   /\ code = users[k].secret

\* The record in the map asks for a second factor.
Asks(k) == users[k] # Missing /\ users[k].enabled

\* A login that owes a code, from its beginning or since its await, has not the
\* one of the record in the map.
Unchecked(c) ==
   /\ c.asked \/ (c.live /\ Asks(c.key))
   /\ ~(Asks(c.key) /\ c.secret = users[c.key].secret)

CreateSession(c) ==
   \E s \in Session :
      /\ sessions[s] = Missing
      /\ sessions' = [sessions EXCEPT
            ![s] = [key |-> c.key, at |-> clock,
                    unchecked |-> Unchecked(c)]]

(* The challenge can be used again (a seeded bug). *)
MarkNothing(c) == UNCHANGED challenges

MarkUsed(c) ==
   challenges' = IF challenges[c] = Missing THEN challenges
                 ELSE [challenges EXCEPT ![c].used = TRUE]

LoggedIn(t) ==
   LET c == call[t]
   IN  /\ c.pc = "login"
       /\ call' = [call EXCEPT ![t] = NoCall]
       /\ IF HeldEnabled(t) => VerifyTOTP(c.key, c.secret)
          THEN /\ MarkUsed(c.challenge)
               /\ CreateSession(c)
               /\ logins' = [logins EXCEPT ![c.challenge] = @ + 1]
          ELSE UNCHANGED <<challenges, sessions, logins>>
       /\ UNCHANGED <<users, usedNonces, saved, clock, accepted, clears, crossed>>

(* The nonce is not looked up (a seeded bug). *)
AcceptAnyAction(t, k, n) ==
   /\ SumFunction([j \in Key |-> SumFunction(accepted[j])]) < MaxActions
   /\ Await(t, [NoCall EXCEPT !.pc = "action", !.key = k, !.nonce = n])
   /\ crossed' = crossed \cup Both(t, <<k, n>>, LAMBDA d : <<d.key, d.nonce>>)
   /\ UNCHANGED <<authBook, clock, logins, accepted, clears>>

\* The expiry that is compared with the clock is written in the action by its
\* signer, so an action with this nonce that has not expired can be signed.
VerifySignedAction(t, k, n) ==
   /\ SumFunction([j \in Key |-> SumFunction(accepted[j])]) < MaxActions
   /\ <<k, n>> \notin usedNonces
   /\ Await(t, [NoCall EXCEPT !.pc = "action", !.key = k, !.nonce = n])
   /\ crossed' = crossed \cup Both(t, <<k, n>>, LAMBDA d : <<d.key, d.nonce>>)
   /\ UNCHANGED <<authBook, clock, logins, accepted, clears>>

\* All the used nonces are forgotten when there are too many.
ActionVerified(t) ==
   LET k == call[t].key
       n == call[t].nonce
       used == usedNonces \cup {<<k, n>>}
       full == Cardinality(used) > NonceLimit
   IN  /\ call[t].pc = "action"
       /\ call' = [call EXCEPT ![t] = NoCall]
       /\ usedNonces' = IF full THEN {} ELSE used
       /\ clears' = IF full THEN clears + 1 ELSE clears
       /\ accepted' = [accepted EXCEPT ![k][n] = @ + 1]
       /\ UNCHANGED <<users, challenges, sessions, saved, clock, logins, crossed>>

InUse == {call[t].secret : t \in AuthCall} \cup {u.secret : u \in Range(users) \ {Missing}}
            \cup (IF saved = Missing THEN {}
                  ELSE {u.secret : u \in Range(saved) \ {Missing}})

(* A user who has the second factor may set it up again (a seeded bug). *)
SetupAgain(t, k, s) ==
   /\ users[k] # Missing
   /\ s \notin InUse
   /\ Await(t, [NoCall EXCEPT !.pc = "setup", !.key = k, !.secret = s])
   /\ UNCHANGED <<authBook, clock, authHistory>>

SetupTOTP(t, k, s) ==
   /\ users[k] # Missing
   /\ ~users[k].enabled
   /\ s \notin InUse
   /\ Await(t, [NoCall EXCEPT !.pc = "setup", !.key = k, !.secret = s])
   /\ UNCHANGED <<authBook, clock, authHistory>>

\* The secret is stored without looking at the record again.
SecretDrawn(t) ==
   LET c == call[t]
   IN  /\ c.pc = "setup"
       /\ call' = [call EXCEPT ![t] = NoCall]
       /\ users' = IF c.live THEN [users EXCEPT ![c.key] =
                                      [@ EXCEPT !.secret = c.secret, !.proven = FALSE]]
                   ELSE users
       /\ UNCHANGED <<challenges, sessions, usedNonces, saved, clock, authHistory>>

\* The user has typed a code made from the stored secret.
EnableTOTP(k) ==
   /\ users[k] # Missing
   /\ users[k].secret # Missing
   /\ users' = [users EXCEPT ![k] = [@ EXCEPT !.enabled = TRUE, !.proven = TRUE]]
   /\ crossed' = crossed \cup
         {k : t \in {u \in AuthCall : call[u].pc = "setup" /\ call[u].key = k}}
   /\ UNCHANGED <<challenges, sessions, usedNonces, saved, clock, call,
                  logins, accepted, clears>>

\* A session goes when it is asked for after its end, or by a logout.
EndSession(s) ==
   /\ sessions[s] # Missing
   /\ sessions' = [sessions EXCEPT ![s] = Missing]
   /\ UNCHANGED <<users, challenges, usedNonces, saved, clock, call, authHistory>>

ValidateSession(s) ==
   /\ sessions[s] # Missing
   /\ Expired(sessions[s].at, SessionLife)
   /\ EndSession(s)

Logout(s) == EndSession(s)

ExportUsers ==
   /\ saved' = users
   /\ UNCHANGED <<users, challenges, sessions, usedNonces, clock, call, authHistory>>

\* The records the calls at their await hold are no longer in the map.
ImportUsers ==
   /\ saved # Missing
   /\ users' = saved
   /\ call' = [t \in AuthCall |->
         IF call[t].pc \notin {"login", "setup"} THEN call[t]
         ELSE [call[t] EXCEPT !.live = FALSE, !.enabled = HeldEnabled(t)]]
   /\ UNCHANGED <<challenges, sessions, usedNonces, saved, clock, authHistory>>

AuthTick == clock < MaxTime /\ clock' = clock + 1 /\ UNCHANGED <<authBook, call, authHistory>>

AuthStep ==
   \/ \E k \in Key : RegisterUser(k) \/ EnableTOTP(k)
   \/ \E k \in Key, c \in Challenge : CreateLoginChallenge(k, c)
   \/ \E t \in AuthCall :
         \/ \E k \in Key, c \in Challenge, code \in Secret \cup {Missing} :
               VerifyLogin(t, k, c, code)
         \/ \E k \in Key, n \in Nonce : VerifySignedAction(t, k, n)
         \/ \E k \in Key, s \in Secret : SetupTOTP(t, k, s)
         \/ LoggedIn(t) \/ ActionVerified(t) \/ SecretDrawn(t)
   \/ \E s \in Session : ValidateSession(s) \/ Logout(s)
   \/ ExportUsers \/ ImportUsers
   \/ AuthTick

AuthSpec == AuthInit /\ [][AuthStep]_authVars
-----------------------------------------------------------------------------
(* The second factor a user has enabled is one the user can answer: a code   *)
(* was made from its secret before it came to be asked for, across set-ups,  *)
(* exports and imports; unless it was enabled while a set-up was drawing its *)
(* picture, which then stores another secret.                                *)
EnabledSecretWasProven ==
   \A k \in Key \ crossed : users[k] # Missing /\ users[k].enabled => users[k].proven

(* A challenge makes one session, whatever expires, is cleaned up, imported  *)
(* or logged out meanwhile; unless two logins with it overlapped.            *)
OneLoginPerChallenge == \A c \in Challenge \ crossed : logins[c] <= 1

(* A user whose second factor was on when the login began, or came to be on  *)
(* at the login's await, has a session only of a code made from the secret   *)
(* that the record in the map had when the session was made, whatever was    *)
(* set up, enabled, exported or imported in between.  A login that began     *)
(* without it and whose record an import then replaced owes no code.         *)
SecondFactorChecked == \A s \in Session : sessions[s] # Missing => ~sessions[s].unchecked

(* A nonce is accepted once, and once more for each time that the used ones  *)
(* were forgotten; unless two actions with it overlapped.                    *)
NonceSpentOnce ==
   \A k \in Key, n \in Nonce :
      <<k, n>> \notin crossed => accepted[k][n] <= 1 + clears
=============================================================================
