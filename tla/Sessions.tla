------------------------------- MODULE Sessions -------------------------------
(***************************************************************************)
(* Sessions: refresh tokens on the server (auth/service.ts), the cookies of*)
(* one browser (auth/router.ts), and the fetch wrapper of each of its tabs *)
(* (web/src/api/client.ts), which answers a 401 with one silent rotation   *)
(* and one retry.                                                          *)
(*                                                                         *)
(* Tabs share the cookies and nothing else.  A request carries the cookies *)
(* of the moment it was sent; its answer changes them when it arrives.  On *)
(* the server a step is the code between two `await`s.  Refresh tokens are *)
(* numbered as they are created; 0 is no token.                            *)
(***************************************************************************)
EXTENDS Naturals, Sequences

CONSTANTS
  Tabs,          \* tabs of the browser
  Queries,       \* calls a tab may have under way at once
  MaxCalls,      \* bound: calls of apiFetch
  MaxExpiries,   \* bound: access cookies that run out
  MaxLogins,     \* bound: logins
  MaxLosses,     \* bound: answers that are lost, handlers that fail
  MaxLogouts     \* bound: logouts

ASSUME SessionsAssumption ==
  {MaxCalls, MaxExpiries, MaxLogins, MaxLosses, MaxLogouts} \subseteq Nat

VARIABLES
  tokens,    \* refresh_tokens
  jar,       \* the cookies: whether the access token is accepted, the refresh token
  rotation,  \* per tab: the request to /auth/refresh under way
  logout,    \* the request to /auth/logout under way
  calls,     \* per tab and query: how far apiFetch has come
  exhausted, \* per tab: refreshExhausted
  past,      \* history: families whose tokens were presented twice without theft,
             \* families that were logged out, and those a rotation overlapped
  quota      \* what remains of the bounds

sessionVars == <<tokens, jar, rotation, logout, calls, exhausted, past, quota>>

-----------------------------------------------------------------------------
Reason == {"none", "REUSE_DETECTED", "LOGOUT"}
Token  == [family : Nat, used : BOOLEAN, revoked : Reason]
Jar    == [access : BOOLEAN, refresh : Nat]
RotationPc == {"idle", "sent", "reuse", "found", "used", "granted", "refused"}
CallPc == {"idle", "accepted", "rejected", "waiting", "retried"}

Allow(b) == quota[b] > 0 /\ quota' = [quota EXCEPT ![b] = @ - 1]
NoRotation == [pc |-> "idle", token |-> 0, new |-> 0]
NoLogout   == [pc |-> "idle", token |-> 0]
Family(n)  == IF n = 0 THEN 0 ELSE tokens[n].family
Live(n)    == ~tokens[n].used /\ tokens[n].revoked = "none"

SessionsInit ==
  /\ tokens = <<>>
  /\ jar = [access |-> FALSE, refresh |-> 0]
  /\ rotation = [t \in Tabs |-> NoRotation]
  /\ logout = NoLogout
  /\ calls = [t \in Tabs |-> [q \in Queries |-> "idle"]]
  /\ exhausted = [t \in Tabs |-> FALSE]
  /\ past = [doubled |-> {}, loggedOut |-> {}, overlapped |-> {}]
  /\ quota = [calls |-> MaxCalls, expiries |-> MaxExpiries, logins |-> MaxLogins,
              losses |-> MaxLosses, logouts |-> MaxLogouts]

\* login: a token of a new family; a clean response also ends refreshExhausted.
Login(t) ==
  /\ Allow("logins")
  /\ tokens' = Append(tokens, [family |-> Len(tokens) + 1, used |-> FALSE, revoked |-> "none"])
  /\ jar' = [access |-> TRUE, refresh |-> Len(tokens) + 1]
  /\ exhausted' = [exhausted EXCEPT ![t] = FALSE]
  /\ UNCHANGED <<rotation, logout, calls, past>>

\* The access cookie has a life of ACCESS_TTL_SECONDS.
AccessExpires ==
  /\ jar.access
  /\ Allow("expiries")
  /\ jar' = [jar EXCEPT !.access = FALSE]
  /\ UNCHANGED <<tokens, rotation, logout, calls, exhausted, past>>

-----------------------------------------------------------------------------
(* The fetch wrapper *)

Sent == IF jar.access THEN "accepted" ELSE "rejected"

\* apiFetch: authenticate() looks at the access cookie of the request.
SendCall(t, q) ==
  /\ calls[t][q] = "idle"
  /\ Allow("calls")
  /\ calls' = [calls EXCEPT ![t][q] = Sent]
  /\ UNCHANGED <<tokens, jar, rotation, logout, exhausted, past>>

\* A clean response.
Answered(t, q) ==
  /\ calls[t][q] = "accepted"
  /\ calls' = [calls EXCEPT ![t][q] = "idle"]
  /\ exhausted' = [exhausted EXCEPT ![t] = FALSE]
  /\ UNCHANGED <<tokens, jar, rotation, logout, past, quota>>

\* The same token is on its way from another tab, or its answer was lost.
PresentedElsewhere(t) == \E u \in Tabs \ {t} : rotation[u].pc # "idle" /\ rotation[u].token = jar.refresh
StartRotation(t) ==
  /\ rotation' = [rotation EXCEPT ![t] = [pc |-> "sent", token |-> jar.refresh, new |-> 0]]
  /\ past' = [past EXCEPT !.doubled = IF PresentedElsewhere(t) THEN @ \cup {Family(jar.refresh)} ELSE @,
                          !.overlapped = IF logout.pc # "idle" /\ logout.token # 0 /\ jar.refresh # 0
                                           THEN @ \cup {Family(jar.refresh)} ELSE @]

\* A 401: wait for the tab's rotation, which the first such call starts, or give up.
RotateEach(t, q) ==
  /\ calls[t][q] = "rejected"
  /\ IF exhausted[t]
       THEN calls' = [calls EXCEPT ![t][q] = "idle"] /\ UNCHANGED <<rotation, past>>
       ELSE calls' = [calls EXCEPT ![t][q] = "waiting"] /\ StartRotation(t)
  /\ UNCHANGED <<tokens, jar, logout, exhausted, quota>>
Unauthorised(t, q) ==
  /\ calls[t][q] = "rejected"
  /\ IF exhausted[t]
       THEN calls' = [calls EXCEPT ![t][q] = "idle"] /\ UNCHANGED <<rotation, past>>
       ELSE /\ calls' = [calls EXCEPT ![t][q] = "waiting"]
            /\ IF rotation[t].pc = "idle" THEN StartRotation(t) ELSE UNCHANGED <<rotation, past>>
  /\ UNCHANGED <<tokens, jar, logout, exhausted, quota>>

\* The answer to the rotation arrives: its cookies are stored, or the error handler has
\* them cleared, or it was lost on the way; the calls that wait are sent once more, and
\* a second 401 is final.
Waiting(t, pc) == [q \in Queries |-> IF calls[t][q] = "waiting" THEN pc ELSE calls[t][q]]
RotationArrives(t) ==
  /\ rotation[t].pc \in {"granted", "refused"}
  /\ LET granted == rotation[t].pc = "granted" IN
     /\ jar' = IF granted THEN [access |-> TRUE, refresh |-> rotation[t].new]
                          ELSE [access |-> FALSE, refresh |-> 0]
     /\ exhausted' = [exhausted EXCEPT ![t] = ~granted]
     /\ calls' = [calls EXCEPT ![t] = Waiting(t, IF granted THEN "retried" ELSE "idle")]
  /\ rotation' = [rotation EXCEPT ![t] = NoRotation]
  /\ UNCHANGED <<tokens, logout, past, quota>>

RotationIsLost(t) ==
  /\ rotation[t].pc \in {"sent", "granted", "refused"}
  /\ Allow("losses")
  /\ exhausted' = [exhausted EXCEPT ![t] = TRUE]
  /\ calls' = [calls EXCEPT ![t] = Waiting(t, "idle")]
  /\ rotation' = [rotation EXCEPT ![t] = NoRotation]
  /\ past' = [past EXCEPT !.doubled = @ \cup {Family(rotation[t].token)}]
  /\ UNCHANGED <<tokens, jar, logout>>

Retry(t, q) ==
  /\ calls[t][q] = "retried"
  /\ calls' = [calls EXCEPT ![t][q] = IF jar.access THEN "accepted" ELSE "idle"]
  /\ UNCHANGED <<tokens, jar, rotation, logout, exhausted, past, quota>>

-----------------------------------------------------------------------------
(* refresh *)

\* findOne, and what is refused without a change.
FindToken(t) ==
  LET r == rotation[t] IN
  /\ r.pc = "sent"
  /\ rotation' = [rotation EXCEPT ![t].pc =
       IF r.token = 0 THEN "refused" ELSE IF Live(r.token) THEN "found" ELSE "reuse"]
  /\ UNCHANGED <<tokens, jar, logout, calls, exhausted, past, quota>>

\* updateMany of the tokens of a family that are not revoked.
Revoked(f, reason) ==
  [n \in DOMAIN tokens |-> IF tokens[n].family = f /\ tokens[n].revoked = "none"
                             THEN [tokens[n] EXCEPT !.revoked = reason] ELSE tokens[n]]
ReuseDetected(t) ==
  /\ rotation[t].pc = "reuse"
  /\ tokens' = Revoked(Family(rotation[t].token), "REUSE_DETECTED")
  /\ rotation' = [rotation EXCEPT ![t].pc = "refused"]
  /\ UNCHANGED <<jar, logout, calls, exhausted, past, quota>>

\* stored.save(), which sends usedAt alone.
UseToken(t) ==
  /\ rotation[t].pc = "found"
  /\ tokens' = [tokens EXCEPT ![rotation[t].token].used = TRUE]
  /\ rotation' = [rotation EXCEPT ![t].pc = "used"]
  /\ UNCHANGED <<jar, logout, calls, exhausted, past, quota>>

\* issueSession within the family.
IssueToken(t) ==
  /\ rotation[t].pc = "used"
  /\ tokens' = Append(tokens, [family |-> Family(rotation[t].token), used |-> FALSE, revoked |-> "none"])
  /\ rotation' = [rotation EXCEPT ![t] = [pc |-> "granted", token |-> @.token, new |-> Len(tokens) + 1]]
  /\ UNCHANGED <<jar, logout, calls, exhausted, past, quota>>

\* The token has expired, the account is disabled, or the database fails.
RefuseRotation(t) ==
  /\ rotation[t].pc \in {"found", "used"}
  /\ Allow("losses")
  /\ rotation' = [rotation EXCEPT ![t].pc = "refused"]
  /\ UNCHANGED <<tokens, jar, logout, calls, exhausted, past>>

-----------------------------------------------------------------------------
(* logout *)

StartLogout ==
  /\ logout.pc = "idle"
  /\ Allow("logouts")
  /\ logout' = [pc |-> "sent", token |-> jar.refresh]
  /\ past' = [past EXCEPT !.overlapped =
       IF \E t \in Tabs : rotation[t].token # 0 /\ Family(rotation[t].token) = Family(jar.refresh)
         THEN @ \cup {Family(jar.refresh)} ELSE @]
  /\ UNCHANGED <<tokens, jar, rotation, calls, exhausted>>

LogoutOne ==
  /\ logout.pc = "sent"
  /\ tokens' = IF logout.token = 0 THEN tokens
               ELSE [tokens EXCEPT ![logout.token].revoked = IF @ = "none" THEN "LOGOUT" ELSE @]
  /\ past' = [past EXCEPT !.loggedOut = @ \cup {Family(logout.token)}]
  /\ logout' = [logout EXCEPT !.pc = "done"]
  /\ UNCHANGED <<jar, rotation, calls, exhausted, quota>>
Logout ==
  /\ logout.pc = "sent"
  /\ tokens' = Revoked(Family(logout.token), "LOGOUT")
  /\ past' = [past EXCEPT !.loggedOut = @ \cup {Family(logout.token)}]
  /\ logout' = [logout EXCEPT !.pc = "done"]
  /\ UNCHANGED <<jar, rotation, calls, exhausted, quota>>

\* clearSessionCookies
LogoutArrives ==
  /\ logout.pc = "done"
  /\ jar' = [access |-> FALSE, refresh |-> 0]
  /\ logout' = NoLogout
  /\ UNCHANGED <<tokens, rotation, calls, exhausted, past, quota>>

-----------------------------------------------------------------------------
CallStep(t, q) == Answered(t, q) \/ Unauthorised(t, q) \/ Retry(t, q)
RotationStep(t) ==
  \/ FindToken(t) \/ ReuseDetected(t) \/ UseToken(t) \/ IssueToken(t) \/ RotationArrives(t)

SessionsNext ==
  \/ AccessExpires \/ StartLogout \/ Logout \/ LogoutArrives
  \/ \E t \in Tabs :
       \/ Login(t) \/ RotationStep(t) \/ RotationIsLost(t) \/ RefuseRotation(t)
       \/ \E q \in Queries : SendCall(t, q) \/ CallStep(t, q)

SessionsSpec == SessionsInit /\ [][SessionsNext]_sessionVars

-----------------------------------------------------------------------------
(* Properties *)

SessionsTypeOK ==
  /\ tokens \in Seq(Token)
  /\ jar \in Jar /\ jar.refresh <= Len(tokens)
  /\ rotation \in [Tabs -> [pc : RotationPc, token : 0 .. Len(tokens), new : 0 .. Len(tokens)]]
  /\ logout \in [pc : {"idle", "sent", "done"}, token : 0 .. Len(tokens)]
  /\ calls \in [Tabs -> [Queries -> CallPc]]
  /\ exhausted \in [Tabs -> BOOLEAN]

\* client.ts, "ONE refresh at a time, and this is not merely an optimisation ... Racing
\* here would log the user out for real": however the calls of a tab overlap, a family
\* is revoked as stolen only when two tabs presented one token or an answer was lost.
NoFalseTheft ==
  \A n \in DOMAIN tokens :
    tokens[n].revoked = "REUSE_DETECTED" => tokens[n].family \in past.doubled

\* logout, "ends the session everywhere it rotated": no token of a family that has been
\* logged out is accepted any more, unless a rotation of it was under way with the logout.
LogoutEndsSession ==
  \A n \in DOMAIN tokens :
    tokens[n].family \in past.loggedOut \ past.overlapped => ~Live(n)

\* The same without the exception.
LogoutEndsEverything ==
  \A n \in DOMAIN tokens : tokens[n].family \in past.loggedOut => ~Live(n)

=============================================================================
