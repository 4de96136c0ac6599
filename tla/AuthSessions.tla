---------------------------- MODULE AuthSessions ----------------------------
(***************************************************************************)
(* Sessions of one user: login, rotation of the refresh token, logout.     *)
(*                                                                         *)
(* A refresh token is a signed JWT with the session and the second it was  *)
(* issued in, and nothing else that differs: two tokens made for a session *)
(* within one second are the same token.  Token i of session s is          *)
(* therefore the pair of s and the second i.  Whoever has been given a     *)
(* token may present it at any time, any number of times, from any device. *)
(***************************************************************************)
EXTENDS Integers

CONSTANTS
    AuthRequests,   \* requests served at the same time
    SessionIds,     \* AuthSession rows
    Ttl,            \* REFRESH_TOKEN_TTL_MS, in seconds
    LastSecond      \* bound of the clock

ASSUME AuthAssumption == Ttl \in Nat \ {0} /\ LastSecond \in Nat

Seconds == 0..LastSecond

VARIABLES
    session,    \* AuthSession rows
    active,     \* user.isActive
    held,       \* tokens that clients were given
    pending,    \* what every request has read and will write
    now,        \* the clock
    renewals    \* times token i of s was exchanged for another one (not in the code)

authVars == <<session, active, held, pending, now, renewals>>

NoSession == [st |-> "none", hash |-> 0, expires |-> 0]
Waiting == [op |-> "none"]
Await(c, step) == pending' = [pending EXCEPT ![c] = step]

(* The signature of a token is valid until its time is over. *)
Verified(i) == now < i + Ttl

(* login: the user is read and the password compared. *)
Login(c) ==
    /\ pending[c] = Waiting
    /\ active
    /\ Await(c, [op |-> "login"])
    /\ UNCHANGED <<session, active, held, now, renewals>>

CreateSession(c, s) ==
    /\ pending[c].op = "login"
    /\ session[s].st = "none"
    /\ session' = [session EXCEPT ![s] = [st |-> "live", hash |-> now, expires |-> now + Ttl]]
    /\ held' = held \cup {<<s, now>>}
    /\ Await(c, Waiting)
    /\ UNCHANGED <<active, now, renewals>>

(* refresh: the session and its user are read and the next token signed. *)
Refresh(c, s, i) ==
    /\ pending[c] = Waiting
    /\ <<s, i>> \in held /\ Verified(i)
    /\ session[s].st = "live" /\ session[s].expires > now /\ session[s].hash = i
    /\ active
    /\ Await(c, [op |-> "rotate", s |-> s, i |-> i, next |-> now])
    /\ UNCHANGED <<session, active, held, now, renewals>>

(* The where of updateMany. *)
(* Fault: the session is updated by its id unless it is revoked. *)
StillLive(s, i) == session[s].st = "live"
(* Fault: the session is updated by its token. *)
StillHashed(s, i) == session[s].hash = i
StillCurrent(s, i) == session[s].hash = i /\ session[s].st = "live"

(* updateMany, and the answer, which the client may never see. *)
Rotate(c) ==
    /\ pending[c].op = "rotate"
    /\ LET s == pending[c].s
           i == pending[c].i
           next == pending[c].next
       IN IF StillCurrent(s, i)
          THEN /\ session' = [session EXCEPT ![s] =
                                [st |-> @.st, hash |-> next, expires |-> now + Ttl]]
               /\ renewals' = IF next = i THEN renewals ELSE [renewals EXCEPT ![s][i] = @ + 1]
               /\ held' \in {held, held \cup {<<s, next>>}}
          ELSE UNCHANGED <<session, held, renewals>>
    /\ Await(c, Waiting)
    /\ UNCHANGED <<active, now>>

(* logout with any token of the session that has not expired. *)
Logout(c, s, i) ==
    /\ pending[c] = Waiting
    /\ <<s, i>> \in held /\ Verified(i)
    /\ session' = [session EXCEPT ![s].st = "revoked"]
    /\ UNCHANGED <<active, held, pending, now, renewals>>

(* An administrator blocks or admits the user. *)
SetActive ==
    /\ active' = ~active
    /\ UNCHANGED <<session, held, pending, now, renewals>>

Tick ==
    /\ now < LastSecond
    /\ now' = now + 1
    /\ UNCHANGED <<session, active, held, pending, renewals>>

AuthInit ==
    /\ session = [s \in SessionIds |-> NoSession]
    /\ active = TRUE
    /\ held = {}
    /\ pending = [c \in AuthRequests |-> Waiting]
    /\ now = 0
    /\ renewals = [s \in SessionIds |-> [i \in Seconds |-> 0]]

AuthNext ==
    \/ \E c \in AuthRequests :
          \/ Login(c) \/ Rotate(c)
          \/ \E s \in SessionIds : CreateSession(c, s)
          \/ \E s \in SessionIds, i \in Seconds : Refresh(c, s, i) \/ Logout(c, s, i)
    \/ SetActive
    \/ Tick

AuthSpec == AuthInit /\ [][AuthNext]_authVars

-----------------------------------------------------------------------------
(* Properties *)

Pendings ==
    {Waiting} \cup {[op |-> "login"]}
    \cup [op : {"rotate"}, s : SessionIds, i : Seconds, next : Seconds]
AuthTypeOK ==
    /\ session \in [SessionIds -> [st : {"none", "live", "revoked"}, hash : Seconds,
                                   expires : Nat]]
    /\ active \in BOOLEAN
    /\ held \subseteq SessionIds \X Seconds
    /\ pending \in [AuthRequests -> Pendings]
    /\ now \in Seconds
    /\ renewals \in [SessionIds -> [Seconds -> Nat]]

(* However many requests present a refresh token at once, one of them at   *)
(* most exchanges it for another token: AuthService.refresh.               *)
RenewedOnce == \A s \in SessionIds, i \in Seconds : renewals[s][i] <= 1

(* A session that was logged out is never renewed, not even by a refresh   *)
(* that had been let through before the logout.                            *)
LogoutIsFinal ==
    [][\A s \in SessionIds : session[s].st = "revoked" => session'[s] = session[s]]_authVars
=============================================================================
