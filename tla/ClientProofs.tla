---------------------------- MODULE ClientProofs ----------------------------
(***************************************************************************)
(* What holds for all people, tabs, cases and bounds of what a person of   *)
(* the platform does and sees: sessions end and are not revoked without    *)
(* cause, cases remember what was done to them, and the workspace shows    *)
(* one case, a next step the server has what it needs for unless a re-run  *)
(* took it away, and what was written.                                     *)
(***************************************************************************)
EXTENDS Sessions, Workspace, Investigations, TLAPS, SequenceTheorems, WellFoundedInduction

-----------------------------------------------------------------------------
(* Sessions: the inductive invariant *)

Fam(n)   == tokens[n].family
Busy(t)  == rotation[t].pc # "idle" /\ rotation[t].token # 0
Clean(n) == Fam(n) \notin past.doubled

\* All of the family of a token is revoked; and a token that is used by nobody, or whose
\* whole family is over.
AllOff(n)  == \A m \in DOMAIN tokens : Fam(m) = Fam(n) => tokens[m].revoked # "none"
Unused(n) == ~tokens[n].used /\ (tokens[n].revoked # "none" => AllOff(n))

Types ==
  /\ tokens \in Seq(Token)
  /\ jar \in [access : BOOLEAN, refresh : 0 .. Len(tokens)]
  /\ rotation \in [Tabs -> [pc : RotationPc, token : 0 .. Len(tokens), new : 0 .. Len(tokens)]]
  /\ logout \in [pc : {"idle", "sent", "done"}, token : 0 .. Len(tokens)]
  /\ calls \in [Tabs -> [Queries -> CallPc]]
  /\ exhausted \in [Tabs -> BOOLEAN]
  /\ past \in [doubled : SUBSET Nat, loggedOut : SUBSET Nat, overlapped : SUBSET Nat]
  /\ quota \in [{"calls", "expiries", "logins", "losses", "logouts"} -> Nat]

\* A family is of its first token, and only such a family, or none, was logged out; the
\* token of a rotation is no token only while nothing was found.
FamiliesExist ==
  /\ \A n \in DOMAIN tokens : Fam(n) \in DOMAIN tokens
  /\ \A t \in Tabs : rotation[t].pc \in {"reuse", "found", "used", "granted"} => rotation[t].token # 0
  /\ past.loggedOut \subseteq {0} \cup DOMAIN tokens

\* In a family that nobody doubled, one tab rotates one token, which is the one in the jar
\* if that is of the family.
OneEach ==
  \A t, u \in Tabs :
    Busy(t) /\ Busy(u) /\ t # u /\ Fam(rotation[t].token) = Fam(rotation[u].token)
      => ~Clean(rotation[t].token)
JarIsTheirs ==
  \A t \in Tabs :
    Busy(t) /\ jar.refresh # 0 /\ Fam(rotation[t].token) = Fam(jar.refresh) /\ Clean(jar.refresh)
      => rotation[t].token = jar.refresh

\* What is presented, or could be, was not used; what is taken for stolen is of a family
\* that is over.
JarIsUnused ==
  jar.refresh # 0 /\ Clean(jar.refresh) /\ (\A t \in Tabs : Busy(t) => rotation[t].token # jar.refresh)
    => Unused(jar.refresh)
SentIsUnused ==
  \A t \in Tabs : rotation[t].pc = "sent" /\ rotation[t].token # 0 /\ Clean(rotation[t].token)
    => Unused(rotation[t].token)
ReuseIsOver ==
  \A t \in Tabs : rotation[t].pc = "reuse" /\ Clean(rotation[t].token) => AllOff(rotation[t].token)
GrantIsUnused ==
  \A t \in Tabs : rotation[t].pc = "granted" =>
    /\ rotation[t].new # 0 /\ Fam(rotation[t].new) = Fam(rotation[t].token)
    /\ Clean(rotation[t].new) => Unused(rotation[t].new)

\* A rotation that may still issue a token of a family that is logged out, or about to be,
\* overlapped the logout.
IssueOverlaps ==
  \A t \in Tabs : rotation[t].pc \in {"found", "used"} /\ Fam(rotation[t].token) \in past.loggedOut
    => Fam(rotation[t].token) \in past.overlapped
LogoutOverlaps ==
  \A t \in Tabs :
    Busy(t) /\ logout.pc = "sent" /\ logout.token # 0 /\ Fam(rotation[t].token) = Fam(logout.token)
      => Fam(logout.token) \in past.overlapped

TheftInv  == OneEach /\ JarIsTheirs /\ JarIsUnused /\ SentIsUnused /\ ReuseIsOver /\ GrantIsUnused /\ NoFalseTheft
LogoutInv == IssueOverlaps /\ LogoutOverlaps /\ LogoutEndsSession
Rest == FamiliesExist /\ TheftInv /\ LogoutInv

-----------------------------------------------------------------------------
(* Sessions: types *)

LEMMA RotationTyped ==
  ASSUME Types, NEW t \in Tabs
  PROVE  /\ rotation[t] \in [pc : RotationPc, token : 0 .. Len(tokens), new : 0 .. Len(tokens)]
         /\ rotation[t].pc \in RotationPc
         /\ rotation[t].token \in 0 .. Len(tokens)
         /\ rotation[t].new \in 0 .. Len(tokens)
<1>1. rotation[t] \in [pc : RotationPc, token : 0 .. Len(tokens), new : 0 .. Len(tokens)]
  BY DEF Types
<1>2. QED
  BY <1>1

LEMMA TokenTyped ==
  ASSUME Types
  PROVE  /\ Len(tokens) \in Nat /\ DOMAIN tokens = 1 .. Len(tokens)
         /\ \A n \in DOMAIN tokens : tokens[n] \in Token /\ tokens[n].family \in Nat
         /\ jar.refresh \in 0 .. Len(tokens) /\ logout.token \in 0 .. Len(tokens)
<1>1. tokens \in Seq(Token)
  BY DEF Types
<1>2. Len(tokens) \in Nat /\ DOMAIN tokens = 1 .. Len(tokens) /\ \A n \in DOMAIN tokens : tokens[n] \in Token
  BY <1>1
<1>3. \A n \in DOMAIN tokens : tokens[n].family \in Nat
  BY <1>2 DEF Token
<1>4. QED
  BY <1>2, <1>3 DEF Types

LEMMA FamilyTyped ==
  ASSUME Types, NEW n \in 0 .. Len(tokens)
  PROVE  Family(n) \in Nat /\ (n # 0 => n \in DOMAIN tokens /\ Family(n) = Fam(n))
  BY TokenTyped DEF Family, Fam

\* What the actions make of the tokens: one more, a family revoked, one used.
LEMMA AppendMakes ==
  ASSUME Types, NEW x \in Token, tokens' = Append(tokens, x)
  PROVE  /\ tokens' \in Seq(Token) /\ Len(tokens') = Len(tokens) + 1
         /\ DOMAIN tokens' = DOMAIN tokens \cup {Len(tokens) + 1} /\ Len(tokens) + 1 \notin DOMAIN tokens
         /\ tokens'[Len(tokens) + 1] = x /\ \A n \in DOMAIN tokens : tokens'[n] = tokens[n]
<1>1. tokens \in Seq(Token) /\ Len(tokens) \in Nat /\ DOMAIN tokens = 1 .. Len(tokens)
  BY TokenTyped DEF Types
<1>2. QED
  BY <1>1

LEMMA RevokedMakes ==
  ASSUME Types, NEW f, NEW reason \in Reason \ {"none"}, tokens' = Revoked(f, reason)
  PROVE  /\ tokens' \in Seq(Token) /\ Len(tokens') = Len(tokens) /\ DOMAIN tokens' = DOMAIN tokens
         /\ \A n \in DOMAIN tokens :
              /\ tokens'[n].family = tokens[n].family /\ tokens'[n].used = tokens[n].used
              /\ tokens[n].revoked # "none" => tokens'[n].revoked = tokens[n].revoked
              /\ tokens[n].family # f => tokens'[n].revoked = tokens[n].revoked
              /\ tokens[n].family = f => tokens'[n].revoked # "none"
              /\ tokens'[n].revoked \in {tokens[n].revoked, reason}
<1>1. tokens \in Seq(Token) /\ Len(tokens) \in Nat /\ DOMAIN tokens = 1 .. Len(tokens)
  BY TokenTyped DEF Types
<1>2. \A n \in DOMAIN tokens : tokens[n] \in Token
  BY TokenTyped
<1>3. \A n \in DOMAIN tokens : tokens'[n] = IF tokens[n].family = f /\ tokens[n].revoked = "none"
                                            THEN [tokens[n] EXCEPT !.revoked = reason] ELSE tokens[n]
  BY DEF Revoked
<1>4. \A n \in DOMAIN tokens : tokens'[n] \in Token
  BY <1>2, <1>3 DEF Token
<1>5. DOMAIN tokens' = 1 .. Len(tokens)
  BY <1>1 DEF Revoked
<1>6. tokens' = [n \in 1 .. Len(tokens) |-> tokens'[n]]
  BY <1>1 DEF Revoked
<1>7. tokens' \in [1 .. Len(tokens) -> Token]
  BY <1>1, <1>4, <1>5, <1>6
<1>8. tokens' \in Seq(Token)
  BY <1>1, <1>7, SeqDef
<1>9. Len(tokens') = Len(tokens)
  BY <1>1, <1>5, <1>8
<1>10. QED
  BY <1>1, <1>2, <1>3, <1>5, <1>8, <1>9 DEF Token

LEMMA UseMakes ==
  ASSUME Types, NEW k \in DOMAIN tokens, tokens' = [tokens EXCEPT ![k].used = TRUE]
  PROVE  /\ tokens' \in Seq(Token) /\ Len(tokens') = Len(tokens) /\ DOMAIN tokens' = DOMAIN tokens
         /\ \A n \in DOMAIN tokens :
              /\ tokens'[n].family = tokens[n].family /\ tokens'[n].revoked = tokens[n].revoked
              /\ n # k => tokens'[n].used = tokens[n].used
              /\ tokens[n].used => tokens'[n].used
<1>1. tokens \in Seq(Token) /\ Len(tokens) \in Nat /\ DOMAIN tokens = 1 .. Len(tokens)
  BY TokenTyped DEF Types
<1>2. \A n \in DOMAIN tokens : tokens[n] \in Token
  BY TokenTyped
<1>3. [tokens[k] EXCEPT !.used = TRUE] \in Token
  BY <1>2 DEF Token
<1>4. tokens' = [tokens EXCEPT ![k] = [tokens[k] EXCEPT !.used = TRUE]]
  OBVIOUS
<1>5. tokens' \in Seq(Token) /\ Len(tokens') = Len(tokens)
  BY <1>1, <1>3, <1>4
<1>6. QED
  BY <1>1, <1>2, <1>4, <1>5 DEF Token

\* What they make of a rotation: another state of it, or another rotation.
LEMMA PcMakes ==
  ASSUME Types, NEW t \in Tabs, NEW p \in RotationPc, rotation' = [rotation EXCEPT ![t].pc = p]
  PROVE  /\ rotation' \in [Tabs -> [pc : RotationPc, token : 0 .. Len(tokens), new : 0 .. Len(tokens)]]
         /\ rotation'[t].pc = p /\ rotation'[t].token = rotation[t].token /\ rotation'[t].new = rotation[t].new
         /\ \A u \in Tabs \ {t} : rotation'[u] = rotation[u]
<1>1. rotation[t] \in [pc : RotationPc, token : 0 .. Len(tokens), new : 0 .. Len(tokens)]
  BY RotationTyped
<1>2. [rotation[t] EXCEPT !.pc = p] \in [pc : RotationPc, token : 0 .. Len(tokens), new : 0 .. Len(tokens)]
  BY <1>1
<1>3. rotation' = [rotation EXCEPT ![t] = [rotation[t] EXCEPT !.pc = p]]
  OBVIOUS
<1>4. QED
  BY <1>1, <1>2, <1>3 DEF Types

LEMMA RotationMakes ==
  ASSUME Types, NEW t \in Tabs, NEW r, rotation' = [rotation EXCEPT ![t] = r]
  PROVE  /\ rotation'[t] = r
         /\ \A u \in Tabs \ {t} : rotation'[u] = rotation[u]
  BY DEF Types

LEMMA AllowTyped ==
  ASSUME Types, NEW b \in {"calls", "expiries", "logins", "losses", "logouts"}, Allow(b)
  PROVE  quota' \in [{"calls", "expiries", "logins", "losses", "logouts"} -> Nat]
<1>1. quota[b] \in Nat /\ quota[b] > 0
  BY DEF Types, Allow
<1>2. quota[b] - 1 \in Nat
  BY <1>1
<1>3. QED
  BY <1>2 DEF Types, Allow

LEMMA TypesInit == SessionsInit => Types
<1> SUFFICES ASSUME SessionsInit PROVE Types
  OBVIOUS
<1>1. tokens \in Seq(Token) /\ Len(tokens) = 0
  BY DEF SessionsInit
<1>2. NoRotation \in [pc : RotationPc, token : 0 .. 0, new : 0 .. 0]
  BY DEF NoRotation, RotationPc
<1>3. quota \in [{"calls", "expiries", "logins", "losses", "logouts"} -> Nat]
  BY SessionsAssumption DEF SessionsInit
<1>4. past \in [doubled : SUBSET Nat, loggedOut : SUBSET Nat, overlapped : SUBSET Nat]
  BY DEF SessionsInit
<1>5. QED
  BY <1>1, <1>2, <1>3, <1>4 DEF SessionsInit, Types, NoLogout, CallPc

LEMMA StartTyped ==
  ASSUME Types, NEW t \in Tabs, StartRotation(t), UNCHANGED <<tokens, jar>>
  PROVE  /\ rotation' \in [Tabs -> [pc : RotationPc, token : 0 .. Len(tokens'), new : 0 .. Len(tokens')]]
         /\ past' \in [doubled : SUBSET Nat, loggedOut : SUBSET Nat, overlapped : SUBSET Nat]
<1>1. jar.refresh \in 0 .. Len(tokens) /\ Len(tokens) \in Nat
  BY TokenTyped
<1>2. Family(jar.refresh) \in Nat
  BY <1>1, FamilyTyped
<1>3. rotation' \in [Tabs -> [pc : RotationPc, token : 0 .. Len(tokens'), new : 0 .. Len(tokens')]]
  BY <1>1 DEF StartRotation, Types, RotationPc
<1>4. past' \in [doubled : SUBSET Nat, loggedOut : SUBSET Nat, overlapped : SUBSET Nat]
  BY <1>2 DEF StartRotation, Types
<1>5. QED
  BY <1>3, <1>4

LEMMA TypesStep == Types /\ FamiliesExist /\ [SessionsNext]_sessionVars => Types'
<1> SUFFICES ASSUME Types, FamiliesExist, [SessionsNext]_sessionVars PROVE Types'
  OBVIOUS
<1> USE TokenTyped
<1> DEFINE Rots(k) == [Tabs -> [pc : RotationPc, token : 0 .. k, new : 0 .. k]]
           Pasts   == [doubled : SUBSET Nat, loggedOut : SUBSET Nat, overlapped : SUBSET Nat]
<1>0. rotation \in Rots(Len(tokens)) /\ rotation \in Rots(Len(tokens) + 1)
  BY DEF Types
<1>1. CASE AccessExpires
  BY <1>1, AllowTyped DEF AccessExpires, Types
<1>2. CASE StartLogout
  <2>1. Family(jar.refresh) \in Nat
    BY FamilyTyped
  <2>2. past' \in Pasts
    BY <1>2, <2>1 DEF StartLogout, Types
  <2>3. logout' \in [pc : {"idle", "sent", "done"}, token : 0 .. Len(tokens)]
    BY <1>2 DEF StartLogout
  <2>4. QED
    BY <1>2, <2>2, <2>3, AllowTyped DEF StartLogout, Types
<1>3. CASE Logout
  <2>1. tokens' \in Seq(Token) /\ Len(tokens') = Len(tokens)
    BY <1>3, RevokedMakes DEF Logout, Reason
  <2>2. Family(logout.token) \in Nat
    BY FamilyTyped
  <2>3. past' \in Pasts
    BY <1>3, <2>2 DEF Logout, Types
  <2>4. logout' \in [pc : {"idle", "sent", "done"}, token : 0 .. Len(tokens)]
    BY <1>3 DEF Logout, Types
  <2>5. QED
    BY <1>3, <2>1, <2>3, <2>4 DEF Logout, Types
<1>4. CASE LogoutArrives
  BY <1>4 DEF LogoutArrives, Types, NoLogout
<1>5. ASSUME NEW t \in Tabs, Login(t) PROVE Types'
  <2>1. [family |-> Len(tokens) + 1, used |-> FALSE, revoked |-> "none"] \in Token
    BY DEF Token, Reason
  <2>2. tokens' \in Seq(Token) /\ Len(tokens') = Len(tokens) + 1
    BY <1>5, <2>1, AppendMakes DEF Login
  <2>3. jar' \in [access : BOOLEAN, refresh : 0 .. Len(tokens')]
    BY <1>5, <2>2 DEF Login
  <2>4. logout' \in [pc : {"idle", "sent", "done"}, token : 0 .. Len(tokens')]
    BY <1>5, <2>2 DEF Login, Types
  <2>5. quota' \in [{"calls", "expiries", "logins", "losses", "logouts"} -> Nat]
    BY <1>5, AllowTyped DEF Login
  <2>6. QED
    BY <1>0, <1>5, <2>2, <2>3, <2>4, <2>5 DEF Login, Types
<1>6. ASSUME NEW t \in Tabs, FindToken(t) PROVE Types'
  <2>1. rotation' \in Rots(Len(tokens))
    <3>1. PICK p \in RotationPc : rotation' = [rotation EXCEPT ![t].pc = p]
      BY <1>6 DEF FindToken, RotationPc
    <3>2. QED
      BY <3>1, PcMakes
  <2>2. QED
    BY <1>6, <2>1 DEF FindToken, Types
<1>7. ASSUME NEW t \in Tabs, ReuseDetected(t) PROVE Types'
  <2>1. tokens' \in Seq(Token) /\ Len(tokens') = Len(tokens)
    BY <1>7, RevokedMakes DEF ReuseDetected, Reason
  <2>2. rotation' \in Rots(Len(tokens))
    BY <1>7, PcMakes DEF ReuseDetected, RotationPc
  <2>3. QED
    BY <1>7, <2>1, <2>2 DEF ReuseDetected, Types
<1>8. ASSUME NEW t \in Tabs, UseToken(t) PROVE Types'
  <2>1. rotation[t].token \in DOMAIN tokens
    BY <1>8, RotationTyped DEF UseToken, FamiliesExist
  <2>2. tokens' \in Seq(Token) /\ Len(tokens') = Len(tokens)
    BY <1>8, <2>1, UseMakes DEF UseToken
  <2>3. rotation' \in Rots(Len(tokens))
    BY <1>8, PcMakes DEF UseToken, RotationPc
  <2>4. QED
    BY <1>8, <2>2, <2>3 DEF UseToken, Types
<1>9. ASSUME NEW t \in Tabs, IssueToken(t) PROVE Types'
  <2>1. Family(rotation[t].token) \in Nat
    BY RotationTyped, FamilyTyped
  <2>2. [family |-> Family(rotation[t].token), used |-> FALSE, revoked |-> "none"] \in Token
    BY <2>1 DEF Token, Reason
  <2>3. tokens' \in Seq(Token) /\ Len(tokens') = Len(tokens) + 1
    BY <1>9, <2>2, AppendMakes DEF IssueToken
  <2>4. [pc |-> "granted", token |-> rotation[t].token, new |-> Len(tokens) + 1]
          \in [pc : RotationPc, token : 0 .. Len(tokens'), new : 0 .. Len(tokens')]
    BY <2>3, RotationTyped DEF RotationPc
  <2>5. rotation' = [rotation EXCEPT ![t] = [pc |-> "granted", token |-> rotation[t].token, new |-> Len(tokens) + 1]]
    BY <1>9 DEF IssueToken
  <2>6. rotation' \in Rots(Len(tokens'))
    BY <1>0, <2>3, <2>4, <2>5
  <2>7. jar' \in [access : BOOLEAN, refresh : 0 .. Len(tokens')] /\ logout' \in [pc : {"idle", "sent", "done"}, token : 0 .. Len(tokens')]
    BY <1>9, <2>3 DEF IssueToken, Types
  <2>8. QED
    BY <1>9, <2>3, <2>6, <2>7 DEF IssueToken, Types
<1>10. ASSUME NEW t \in Tabs, RefuseRotation(t) PROVE Types'
  <2>1. rotation' \in Rots(Len(tokens))
    BY <1>10, PcMakes DEF RefuseRotation, RotationPc
  <2>2. QED
    BY <1>10, <2>1, AllowTyped DEF RefuseRotation, Types
<1>11. ASSUME NEW t \in Tabs, NEW pc \in CallPc
       PROVE  [calls EXCEPT ![t] = Waiting(t, pc)] \in [Tabs -> [Queries -> CallPc]]
  BY DEF Types, Waiting
<1>12. NoRotation \in [pc : RotationPc, token : 0 .. Len(tokens), new : 0 .. Len(tokens)]
  BY DEF NoRotation, RotationPc
<1>13. ASSUME NEW t \in Tabs, RotationArrives(t) PROVE Types'
  <2>1. jar' \in [access : BOOLEAN, refresh : 0 .. Len(tokens)]
    BY <1>13, RotationTyped DEF RotationArrives
  <2>2. calls' \in [Tabs -> [Queries -> CallPc]]
    BY <1>11, <1>13 DEF RotationArrives, CallPc
  <2>3. exhausted' \in [Tabs -> BOOLEAN]
    BY <1>13 DEF RotationArrives, Types
  <2>4. rotation' \in Rots(Len(tokens))
    BY <1>0, <1>12, <1>13 DEF RotationArrives
  <2>5. QED
    BY <1>13, <2>1, <2>2, <2>3, <2>4 DEF RotationArrives, Types
<1>14. ASSUME NEW t \in Tabs, RotationIsLost(t) PROVE Types'
  <2>1. Family(rotation[t].token) \in Nat
    BY RotationTyped, FamilyTyped
  <2>2. past' \in Pasts
    BY <1>14, <2>1 DEF RotationIsLost, Types
  <2>3. calls' \in [Tabs -> [Queries -> CallPc]]
    BY <1>11, <1>14 DEF RotationIsLost, CallPc
  <2>4. rotation' \in Rots(Len(tokens))
    BY <1>0, <1>12, <1>14 DEF RotationIsLost
  <2>5. QED
    BY <1>14, <2>2, <2>3, <2>4, AllowTyped DEF RotationIsLost, Types
<1>15. ASSUME NEW t \in Tabs, NEW q \in Queries, SendCall(t, q) PROVE Types'
  BY <1>15, AllowTyped DEF SendCall, Types, Sent, CallPc
<1>16. ASSUME NEW t \in Tabs, NEW q \in Queries, Answered(t, q) PROVE Types'
  BY <1>16 DEF Answered, Types, CallPc
<1>17. ASSUME NEW t \in Tabs, NEW q \in Queries, Retry(t, q) PROVE Types'
  BY <1>17 DEF Retry, Types, CallPc
<1>18. ASSUME NEW t \in Tabs, NEW q \in Queries, Unauthorised(t, q) PROVE Types'
  <2>1. calls' \in [Tabs -> [Queries -> CallPc]]
    <3>1. PICK c \in CallPc : calls' = [calls EXCEPT ![t][q] = c]
      BY <1>18 DEF Unauthorised, CallPc
    <3>2. QED
      BY <3>1 DEF Types
  <2>2. CASE StartRotation(t)
    BY <1>18, <2>1, <2>2, StartTyped DEF Unauthorised, Types
  <2>3. CASE UNCHANGED <<rotation, past>>
    BY <1>18, <2>1, <2>3 DEF Unauthorised, Types
  <2>4. QED
    BY <1>18, <2>2, <2>3 DEF Unauthorised
<1>19. CASE UNCHANGED sessionVars
  BY <1>19 DEF sessionVars, Types
<1>20. QED
  BY <1>1, <1>2, <1>3, <1>4, <1>5, <1>6, <1>7, <1>8, <1>9, <1>10, <1>13, <1>14, <1>15, <1>16, <1>17, <1>18, <1>19
     DEF SessionsNext, RotationStep, CallStep

-----------------------------------------------------------------------------
(* Sessions: the rest of the invariant, action by action *)

LEMMA RestInit == SessionsInit => Rest
<1> SUFFICES ASSUME SessionsInit PROVE Rest
  OBVIOUS
<1>1. DOMAIN tokens = {} /\ jar.refresh = 0 /\ logout.token = 0
  BY DEF SessionsInit, NoLogout
<1>2. \A t \in Tabs : rotation[t].pc = "idle"
  BY DEF SessionsInit, NoRotation
<1>3. past.loggedOut = {}
  BY DEF SessionsInit
<1>4. QED
  BY <1>1, <1>2, <1>3 DEF Rest, FamiliesExist, TheftInv, LogoutInv, OneEach, JarIsTheirs, JarIsUnused, SentIsUnused,
     ReuseIsOver, GrantIsUnused, NoFalseTheft, IssueOverlaps, LogoutOverlaps, LogoutEndsSession, Busy

LEMMA QuietKeeps ==
  ASSUME Rest, UNCHANGED <<tokens, rotation, logout, past>>, jar'.refresh = jar.refresh
  PROVE  Rest'
  BY DEF Rest, FamiliesExist, TheftInv, LogoutInv, OneEach, JarIsTheirs, JarIsUnused, SentIsUnused, ReuseIsOver,
     GrantIsUnused, NoFalseTheft, IssueOverlaps, LogoutOverlaps, LogoutEndsSession, Busy, Clean, Unused, AllOff,
     Fam, Live

LEMMA StartKeeps ==
  ASSUME Types, Rest, NEW t \in Tabs, rotation[t].pc = "idle", StartRotation(t), UNCHANGED <<tokens, jar, logout>>
  PROVE  Rest'
<1> DEFINE n == jar.refresh
<1>1. /\ rotation'[t].pc = "sent" /\ rotation'[t].token = n
      /\ \A u \in Tabs \ {t} : rotation'[u] = rotation[u]
  BY DEF StartRotation, Types
<1>2. /\ past.doubled \subseteq past'.doubled /\ past.overlapped \subseteq past'.overlapped
      /\ past'.loggedOut = past.loggedOut
  BY DEF StartRotation, Types
<1>3. n # 0 => Family(n) = Fam(n) /\ n \in DOMAIN tokens
  BY TokenTyped, FamilyTyped
<1>4. ASSUME n # 0, NEW u \in Tabs \ {t}, rotation[u].pc # "idle", rotation[u].token = n
      PROVE  Fam(n) \in past'.doubled
  BY <1>3, <1>4 DEF StartRotation, PresentedElsewhere, Types
<1>5. n # 0 /\ logout.pc = "sent" /\ logout.token # 0 => Fam(n) \in past'.overlapped
  BY <1>3 DEF StartRotation, Types
<1>6. \A m : /\ Fam(m)' = Fam(m) /\ (Unused(m)' <=> Unused(m)) /\ (AllOff(m)' <=> AllOff(m)) /\ (Clean(m)' => Clean(m))
  BY <1>2 DEF Fam, Unused, AllOff, Clean
<1>7. FamiliesExist'
  BY <1>1, <1>2 DEF Rest, FamiliesExist, Fam
<1>8. OneEach'
  BY <1>1, <1>3, <1>4, <1>6 DEF Rest, TheftInv, OneEach, JarIsTheirs, Busy, Clean, Fam
<1>9. JarIsTheirs'
  BY <1>1, <1>6 DEF Rest, TheftInv, JarIsTheirs, Busy
<1>10. JarIsUnused'
  BY <1>1 DEF JarIsUnused, Busy
<1>11. SentIsUnused'
  <2>1. ASSUME n # 0, Clean(n)' PROVE Unused(n)
    <3>1. \A u \in Tabs : Busy(u) => rotation[u].token # n
      BY <1>4, <2>1 DEF Busy, Clean, Fam
    <3>2. QED
      BY <1>6, <2>1, <3>1 DEF Rest, TheftInv, JarIsUnused
  <2>2. QED
    BY <1>1, <1>6, <2>1 DEF Rest, TheftInv, SentIsUnused
<1>12. ReuseIsOver' /\ GrantIsUnused'
  BY <1>1, <1>6 DEF Rest, TheftInv, ReuseIsOver, GrantIsUnused
<1>13. NoFalseTheft' /\ LogoutEndsSession'
  BY <1>2 DEF Rest, TheftInv, LogoutInv, NoFalseTheft, LogoutEndsSession, Live
<1>14. IssueOverlaps' /\ LogoutOverlaps'
  BY <1>1, <1>2, <1>5, <1>6 DEF Rest, LogoutInv, IssueOverlaps, LogoutOverlaps, Busy
<1>15. QED
  BY <1>7, <1>8, <1>9, <1>10, <1>11, <1>12, <1>13, <1>14 DEF Rest, TheftInv, LogoutInv

\* findOne, whose answers are the only way to another state of a rotation that is sent; and
\* a refusal, which ends in none of the states that promise something.
LEMMA PcKeeps ==
  ASSUME Types, Rest, NEW t \in Tabs, NEW p \in {"refused", "found", "reuse"},
         rotation' = [rotation EXCEPT ![t].pc = p], rotation[t].pc \in {"sent", "found", "used"},
         p # "refused" => rotation[t].pc = "sent" /\ rotation[t].token # 0,
         p = "found" => Live(rotation[t].token), p = "reuse" => ~Live(rotation[t].token),
         UNCHANGED <<tokens, jar, logout, past>>
  PROVE  Rest'
<1>1. /\ rotation'[t].pc = p /\ rotation'[t].token = rotation[t].token
      /\ \A u \in Tabs \ {t} : rotation'[u] = rotation[u]
  BY PcMakes DEF RotationPc
<1>2. \A m : /\ Fam(m)' = Fam(m) /\ (Unused(m)' <=> Unused(m)) /\ (AllOff(m)' <=> AllOff(m)) /\ (Clean(m)' <=> Clean(m))
  BY DEF Fam, Unused, AllOff, Clean
<1>3. \A u \in Tabs : Busy(u)' <=> Busy(u)
  BY <1>1 DEF Busy
<1>4. \A u \in Tabs : rotation'[u].token = rotation[u].token
  BY <1>1
<1>5. FamiliesExist'
  BY <1>1 DEF Rest, FamiliesExist, Fam
<1>6. OneEach'
  BY <1>2, <1>3, <1>4 DEF Rest, TheftInv, OneEach
<1>7. JarIsTheirs'
  BY <1>2, <1>3, <1>4 DEF Rest, TheftInv, JarIsTheirs
<1>8. JarIsUnused'
  BY <1>2, <1>3, <1>4 DEF Rest, TheftInv, JarIsUnused
<1>9. SentIsUnused'
  BY <1>1, <1>2 DEF Rest, TheftInv, SentIsUnused
<1>10. ReuseIsOver'
  <2>1. ASSUME p = "reuse", Clean(rotation[t].token) PROVE AllOff(rotation[t].token)
    BY <2>1 DEF Rest, TheftInv, SentIsUnused, Unused, Live
  <2>2. QED
    BY <1>1, <1>2, <2>1 DEF Rest, TheftInv, ReuseIsOver
<1>11. GrantIsUnused'
  BY <1>1, <1>2 DEF Rest, TheftInv, GrantIsUnused
<1>12. NoFalseTheft' /\ LogoutEndsSession'
  BY DEF Rest, TheftInv, LogoutInv, NoFalseTheft, LogoutEndsSession, Live
<1>13. IssueOverlaps'
  <2>1. rotation[t].token # 0 => rotation[t].token \in DOMAIN tokens
    BY RotationTyped, TokenTyped
  <2>2. p = "found" /\ Fam(rotation[t].token) \in past.loggedOut => Fam(rotation[t].token) \in past.overlapped
    BY <2>1 DEF Rest, LogoutInv, LogoutEndsSession, Fam
  <2>3. QED
    BY <1>1, <1>2, <2>2 DEF Rest, LogoutInv, IssueOverlaps
<1>14. LogoutOverlaps'
  BY <1>2, <1>3, <1>4 DEF Rest, LogoutInv, LogoutOverlaps
<1>15. QED
  BY <1>5, <1>6, <1>7, <1>8, <1>9, <1>10, <1>11, <1>12, <1>13, <1>14 DEF Rest, TheftInv, LogoutInv

\* What a change of the tokens leaves of what is said of them.
LEMMA RevokedKeeps ==
  ASSUME Types, NEW f, NEW reason \in Reason \ {"none"}, tokens' = Revoked(f, reason)
  PROVE  \A m \in DOMAIN tokens :
           /\ Fam(m)' = Fam(m)
           /\ AllOff(m) \/ Fam(m) = f => AllOff(m)'
           /\ Unused(m) => Unused(m)'
           /\ Live(m)' => Live(m) /\ Fam(m) # f
           /\ tokens'[m].revoked = "REUSE_DETECTED" => \/ tokens[m].revoked = "REUSE_DETECTED"
                                                       \/ /\ reason = "REUSE_DETECTED" /\ Fam(m) = f
                                                          /\ tokens[m].revoked = "none"
<1> SUFFICES ASSUME NEW m \in DOMAIN tokens
             PROVE  /\ Fam(m)' = Fam(m)
                    /\ AllOff(m) \/ Fam(m) = f => AllOff(m)'
                    /\ Unused(m) => Unused(m)'
                    /\ Live(m)' => Live(m) /\ Fam(m) # f
                    /\ tokens'[m].revoked = "REUSE_DETECTED" => \/ tokens[m].revoked = "REUSE_DETECTED"
                                                                \/ /\ reason = "REUSE_DETECTED" /\ Fam(m) = f
                                                                   /\ tokens[m].revoked = "none"
  OBVIOUS
<1> USE RevokedMakes
<1>1. Fam(m)' = Fam(m)
  BY DEF Fam
<1>2. AllOff(m) \/ Fam(m) = f => AllOff(m)'
  BY DEF AllOff, Fam
<1>3. Unused(m) => Unused(m)'
  BY <1>2 DEF Unused, Fam
<1>4. Live(m)' => Live(m) /\ Fam(m) # f
  BY DEF Live, Fam
<1>5. QED
  BY <1>1, <1>2, <1>3, <1>4 DEF Fam

LEMMA UseKeeps ==
  ASSUME Types, NEW k \in DOMAIN tokens, tokens' = [tokens EXCEPT ![k].used = TRUE]
  PROVE  \A m \in DOMAIN tokens :
           /\ Fam(m)' = Fam(m) /\ (AllOff(m) => AllOff(m)') /\ (m # k /\ Unused(m) => Unused(m)')
           /\ (Live(m)' => Live(m)) /\ tokens'[m].revoked = tokens[m].revoked
  BY UseMakes DEF Fam, AllOff, Unused, Live

LEMMA AppendKeeps ==
  ASSUME Types, FamiliesExist, NEW f \in Nat, NEW n, n = Len(tokens) + 1,
         tokens' = Append(tokens, [family |-> f, used |-> FALSE, revoked |-> "none"])
  PROVE  /\ n \notin DOMAIN tokens /\ n # 0 /\ DOMAIN tokens' = DOMAIN tokens \cup {n}
         /\ Fam(n)' = f /\ Unused(n)' /\ tokens'[n].revoked = "none"
         /\ \A m \in DOMAIN tokens :
              /\ Fam(m)' = Fam(m) /\ tokens'[m] = tokens[m]
              /\ Fam(m) # f => (AllOff(m) => AllOff(m)') /\ (Unused(m) => Unused(m)')
              /\ Live(m)' => Live(m)
<1>1. [family |-> f, used |-> FALSE, revoked |-> "none"] \in Token
  BY DEF Token, Reason
<1>2. /\ DOMAIN tokens' = DOMAIN tokens \cup {n} /\ n \notin DOMAIN tokens
      /\ tokens'[n] = [family |-> f, used |-> FALSE, revoked |-> "none"]
      /\ \A m \in DOMAIN tokens : tokens'[m] = tokens[m]
  BY <1>1, AppendMakes
<1>3. n # 0
  BY TokenTyped
<1>4. Fam(n)' = f /\ Unused(n)'
  BY <1>2 DEF Fam, Unused
<1>5. ASSUME NEW m \in DOMAIN tokens
      PROVE  /\ Fam(m)' = Fam(m)
             /\ Fam(m) # f => (AllOff(m) => AllOff(m)') /\ (Unused(m) => Unused(m)')
             /\ Live(m)' => Live(m)
  BY <1>2 DEF Fam, AllOff, Unused, Live
<1>6. QED
  BY <1>2, <1>3, <1>4, <1>5

LEMMA ReuseKeeps ==
  ASSUME Types, Rest, NEW t \in Tabs, ReuseDetected(t)
  PROVE  Rest'
<1> DEFINE k == rotation[t].token
<1>1. /\ rotation'[t].pc = "refused" /\ rotation'[t].token = k
      /\ \A u \in Tabs \ {t} : rotation'[u] = rotation[u]
  BY PcMakes DEF ReuseDetected, RotationPc
<1>2. /\ k # 0 /\ k \in DOMAIN tokens /\ Family(k) = Fam(k)
      /\ \A u \in Tabs : rotation[u].token # 0 => rotation[u].token \in DOMAIN tokens
      /\ \A u \in Tabs : rotation[u].new # 0 => rotation[u].new \in DOMAIN tokens
      /\ jar.refresh # 0 => jar.refresh \in DOMAIN tokens
      /\ logout.token # 0 => logout.token \in DOMAIN tokens
  BY RotationTyped, TokenTyped, FamilyTyped DEF ReuseDetected, Rest, FamiliesExist
<1>3. tokens' = Revoked(Fam(k), "REUSE_DETECTED") /\ UNCHANGED <<jar, logout, past>>
  BY <1>2 DEF ReuseDetected
<1>4. \A m \in DOMAIN tokens :
        /\ Fam(m)' = Fam(m) /\ (AllOff(m) => AllOff(m)') /\ (Unused(m) => Unused(m)') /\ (Live(m)' => Live(m))
        /\ (Clean(m)' <=> Clean(m))
        /\ \/ tokens'[m].revoked = "REUSE_DETECTED" => tokens[m].revoked = "REUSE_DETECTED"
           \/ Fam(m) = Fam(k) /\ tokens[m].revoked = "none"
  <2>1. PICK f, reason : f = Fam(k) /\ reason = "REUSE_DETECTED"
    OBVIOUS
  <2>2. reason \in Reason \ {"none"} /\ tokens' = Revoked(f, reason)
    BY <1>3, <2>1 DEF Reason
  <2>3. \A m \in DOMAIN tokens :
          /\ Fam(m)' = Fam(m) /\ (AllOff(m) => AllOff(m)') /\ (Unused(m) => Unused(m)') /\ (Live(m)' => Live(m))
          /\ \/ tokens'[m].revoked = "REUSE_DETECTED" => tokens[m].revoked = "REUSE_DETECTED"
             \/ Fam(m) = f /\ tokens[m].revoked = "none"
    BY <2>2, RevokedKeeps
  <2>4. QED
    BY <1>3, <2>1, <2>3 DEF Clean
<1>5. DOMAIN tokens' = DOMAIN tokens
  BY <1>3, RevokedMakes DEF Reason
<1>6. \A u \in Tabs : (Busy(u)' <=> Busy(u)) /\ rotation'[u].token = rotation[u].token
  BY <1>1 DEF Busy, ReuseDetected
<1>7. FamiliesExist'
  BY <1>1, <1>3, <1>4, <1>5 DEF Rest, FamiliesExist
<1>8. OneEach' /\ JarIsTheirs'
  BY <1>2, <1>3, <1>4, <1>6 DEF Rest, TheftInv, OneEach, JarIsTheirs, Busy
<1>9. JarIsUnused'
  BY <1>2, <1>3, <1>4, <1>6 DEF Rest, TheftInv, JarIsUnused
<1>10. SentIsUnused' /\ ReuseIsOver'
  BY <1>1, <1>2, <1>4 DEF Rest, TheftInv, SentIsUnused, ReuseIsOver, FamiliesExist
<1>11. GrantIsUnused'
  BY <1>1, <1>2, <1>4 DEF Rest, TheftInv, GrantIsUnused, FamiliesExist
<1>12. NoFalseTheft'
  <2>1. ASSUME NEW m \in DOMAIN tokens, Fam(m) = Fam(k), tokens[m].revoked = "none" PROVE Fam(k) \in past.doubled
    BY <1>2, <2>1 DEF ReuseDetected, Rest, TheftInv, ReuseIsOver, AllOff, Clean
  <2>2. QED
    BY <1>3, <1>4, <1>5, <2>1 DEF Rest, TheftInv, NoFalseTheft, Fam
<1>13. IssueOverlaps' /\ LogoutOverlaps'
  BY <1>1, <1>2, <1>3, <1>4, <1>6 DEF Rest, LogoutInv, IssueOverlaps, LogoutOverlaps, FamiliesExist, Busy
<1>14. LogoutEndsSession'
  BY <1>3, <1>4, <1>5 DEF Rest, LogoutInv, LogoutEndsSession, Fam
<1>15. QED
  BY <1>7, <1>8, <1>9, <1>10, <1>11, <1>12, <1>13, <1>14 DEF Rest, TheftInv, LogoutInv

LEMMA UseTokenKeeps ==
  ASSUME Types, Rest, NEW t \in Tabs, UseToken(t)
  PROVE  Rest'
<1> DEFINE k == rotation[t].token
<1>1. /\ rotation'[t].pc = "used" /\ rotation'[t].token = k
      /\ \A u \in Tabs \ {t} : rotation'[u] = rotation[u]
  BY PcMakes DEF UseToken, RotationPc
<1>2. /\ k # 0 /\ k \in DOMAIN tokens /\ Busy(t)
      /\ \A u \in Tabs : rotation[u].token # 0 => rotation[u].token \in DOMAIN tokens
      /\ \A u \in Tabs : rotation[u].new # 0 => rotation[u].new \in DOMAIN tokens
      /\ jar.refresh # 0 => jar.refresh \in DOMAIN tokens
      /\ logout.token # 0 => logout.token \in DOMAIN tokens
  BY RotationTyped, TokenTyped DEF UseToken, Rest, FamiliesExist, Busy
<1>3. tokens' = [tokens EXCEPT ![k].used = TRUE] /\ UNCHANGED <<jar, logout, past>>
  BY DEF UseToken
<1>4. \A m \in DOMAIN tokens :
        /\ Fam(m)' = Fam(m) /\ (AllOff(m) => AllOff(m)') /\ (m # k /\ Unused(m) => Unused(m)') /\ (Live(m)' => Live(m))
        /\ (Clean(m)' <=> Clean(m)) /\ tokens'[m].revoked = tokens[m].revoked
  BY <1>2, <1>3, UseKeeps DEF Clean
<1>5. DOMAIN tokens' = DOMAIN tokens
  BY <1>2, <1>3, UseMakes
<1>6. \A u \in Tabs : (Busy(u)' <=> Busy(u)) /\ rotation'[u].token = rotation[u].token
  BY <1>1, <1>2 DEF Busy
<1>7. FamiliesExist'
  BY <1>1, <1>2, <1>3, <1>4, <1>5 DEF Rest, FamiliesExist
<1>8. OneEach' /\ JarIsTheirs'
  BY <1>2, <1>3, <1>4, <1>6 DEF Rest, TheftInv, OneEach, JarIsTheirs, Busy
<1>9. JarIsUnused'
  BY <1>2, <1>3, <1>4, <1>6 DEF Rest, TheftInv, JarIsUnused
<1>10. SentIsUnused'
  <2>1. ASSUME NEW u \in Tabs, NEW m, m = rotation[u].token, rotation'[u].pc = "sent", m # 0, Clean(m)
        PROVE  Unused(m)'
    <3>1. u # t /\ rotation[u].pc = "sent" /\ rotation[u].token # 0
      BY <1>1, <2>1
    <3>2. rotation[u].token # k
      BY <1>2, <2>1, <3>1 DEF Rest, TheftInv, OneEach, Busy
    <3>3. QED
      BY <1>2, <1>4, <2>1, <3>1, <3>2 DEF Rest, TheftInv, SentIsUnused
  <2>2. QED
    BY <1>2, <1>4, <1>6, <2>1 DEF SentIsUnused
<1>11. ReuseIsOver'
  BY <1>1, <1>2, <1>4 DEF Rest, TheftInv, ReuseIsOver, FamiliesExist
<1>12. GrantIsUnused'
  <2>1. ASSUME NEW u \in Tabs, rotation'[u].pc = "granted"
        PROVE  (/\ rotation[u].new # 0 /\ Fam(rotation[u].new) = Fam(rotation[u].token)
                /\ Clean(rotation[u].new) => Unused(rotation[u].new))'
    <3>1. u # t /\ rotation[u].pc = "granted" /\ rotation'[u] = rotation[u]
      BY <1>1, <2>1
    <3>2. PICK a, m : a = rotation[u].token /\ m = rotation[u].new
      OBVIOUS
    <3>3. m # 0 /\ a # 0 /\ Fam(m) = Fam(a) /\ (Clean(m) => Unused(m))
      BY <3>1, <3>2 DEF Rest, TheftInv, GrantIsUnused, FamiliesExist
    <3>4. Clean(m) => m # k
      BY <1>2, <3>1, <3>2, <3>3 DEF Rest, TheftInv, OneEach, Busy, Clean
    <3>5. Fam(m)' = Fam(a)' /\ (Clean(m)' => Unused(m)')
      BY <1>2, <1>4, <3>2, <3>3, <3>4
    <3>6. QED
      BY <3>1, <3>2, <3>3, <3>5
  <2>2. QED
    BY <2>1 DEF GrantIsUnused
<1>13. NoFalseTheft'
  BY <1>3, <1>4, <1>5 DEF Rest, TheftInv, NoFalseTheft, Fam
<1>14. IssueOverlaps' /\ LogoutOverlaps'
  BY <1>1, <1>2, <1>3, <1>4, <1>6 DEF Rest, LogoutInv, IssueOverlaps, LogoutOverlaps, FamiliesExist, Busy, UseToken
<1>15. LogoutEndsSession'
  BY <1>3, <1>4, <1>5 DEF Rest, LogoutInv, LogoutEndsSession, Fam
<1>16. QED
  BY <1>7, <1>8, <1>9, <1>10, <1>11, <1>12, <1>13, <1>14, <1>15 DEF Rest, TheftInv, LogoutInv

\* A token of its own for the family, and nobody else rotates one of it.
LEMMA IssueKeeps ==
  ASSUME Types, Rest, NEW t \in Tabs, IssueToken(t)
  PROVE  Rest'
<1>0. PICK k, n, f : k = rotation[t].token /\ n = Len(tokens) + 1 /\ f = Fam(k)
  OBVIOUS
<1>1. /\ rotation'[t].pc = "granted" /\ rotation'[t].token = k /\ rotation'[t].new = n
      /\ \A u \in Tabs \ {t} : rotation'[u] = rotation[u]
  BY <1>0 DEF IssueToken, Types
<1>2. /\ k # 0 /\ k \in DOMAIN tokens /\ Busy(t) /\ Family(k) = f /\ f \in Nat
      /\ \A u \in Tabs : rotation[u].token # 0 => rotation[u].token \in DOMAIN tokens
      /\ \A u \in Tabs : rotation[u].new # 0 => rotation[u].new \in DOMAIN tokens
      /\ jar.refresh # 0 => jar.refresh \in DOMAIN tokens
      /\ logout.token # 0 => logout.token \in DOMAIN tokens
  BY <1>0, RotationTyped, TokenTyped, FamilyTyped DEF IssueToken, Rest, FamiliesExist, Busy
<1>3. /\ tokens' = Append(tokens, [family |-> f, used |-> FALSE, revoked |-> "none"])
      /\ UNCHANGED <<jar, logout, past>>
  BY <1>0, <1>2 DEF IssueToken
<1>4. /\ n \notin DOMAIN tokens /\ n # 0 /\ DOMAIN tokens' = DOMAIN tokens \cup {n}
      /\ Fam(n)' = f /\ Unused(n)' /\ tokens'[n].revoked = "none"
      /\ \A m \in DOMAIN tokens :
           /\ Fam(m)' = Fam(m) /\ tokens'[m] = tokens[m]
           /\ Fam(m) # f => (AllOff(m) => AllOff(m)') /\ (Unused(m) => Unused(m)')
           /\ Live(m)' => Live(m)
  BY <1>0, <1>2, <1>3, AppendKeeps DEF Rest
<1>5. /\ \A m \in DOMAIN tokens : Clean(m)' <=> Clean(m)
      /\ Clean(n)' <=> Clean(k)
  BY <1>0, <1>3, <1>4 DEF Clean
<1>6. \A u \in Tabs : (Busy(u)' <=> Busy(u)) /\ rotation'[u].token = rotation[u].token
  BY <1>0, <1>1, <1>2 DEF Busy
<1>7. FamiliesExist'
  <2>1. f \in DOMAIN tokens
    BY <1>0, <1>2 DEF Rest, FamiliesExist
  <2>2. \A u \in Tabs : rotation'[u].pc \in {"reuse", "found", "used", "granted"} => rotation'[u].token # 0
    BY <1>1, <1>2 DEF Rest, FamiliesExist
  <2>3. past'.loggedOut \subseteq {0} \cup DOMAIN tokens'
    BY <1>3, <1>4 DEF Rest, FamiliesExist
  <2>4. \A m \in DOMAIN tokens' : Fam(m)' \in DOMAIN tokens'
    BY <1>4, <2>1 DEF Rest, FamiliesExist
  <2>5. QED
    BY <2>2, <2>3, <2>4 DEF FamiliesExist
<1>8. OneEach' /\ JarIsTheirs'
  BY <1>2, <1>3, <1>4, <1>5, <1>6 DEF Rest, TheftInv, OneEach, JarIsTheirs, Busy
\* Of this family, if it is clean, the others have nothing.
<1>9. ASSUME NEW u \in Tabs \ {t}, Busy(u), Clean(rotation[u].token) PROVE Fam(rotation[u].token) # f
  BY <1>0, <1>2, <1>9 DEF Rest, TheftInv, OneEach
<1>10. JarIsUnused'
  <2>1. ASSUME NEW m, m = jar.refresh, m # 0, Clean(m), \A u \in Tabs : Busy(u) => rotation[u].token # m
        PROVE  Unused(m)'
    <3>1. Unused(m)
      BY <2>1 DEF Rest, TheftInv, JarIsUnused
    <3>2. Fam(m) # f
      BY <1>0, <1>2, <2>1 DEF Rest, TheftInv, JarIsTheirs
    <3>3. QED
      BY <1>2, <1>4, <2>1, <3>1, <3>2
  <2>2. QED
    BY <1>2, <1>3, <1>5, <1>6, <2>1 DEF JarIsUnused
<1>11. SentIsUnused'
  <2>1. ASSUME NEW u \in Tabs, NEW m, m = rotation[u].token, rotation'[u].pc = "sent", m # 0, Clean(m)
        PROVE  Unused(m)'
    <3>1. u # t /\ rotation[u].pc = "sent" /\ Busy(u)
      BY <1>1, <2>1 DEF Busy
    <3>2. Fam(m) # f /\ Unused(m)
      BY <1>9, <2>1, <3>1 DEF Rest, TheftInv, SentIsUnused
    <3>3. QED
      BY <1>2, <1>4, <2>1, <3>2
  <2>2. QED
    BY <1>2, <1>5, <1>6, <2>1 DEF SentIsUnused
<1>12. ReuseIsOver'
  <2>1. ASSUME NEW u \in Tabs, NEW m, m = rotation[u].token, rotation'[u].pc = "reuse", Clean(m)
        PROVE  AllOff(m)'
    <3>1. u # t /\ rotation[u].pc = "reuse" /\ Busy(u) /\ m # 0
      BY <1>1, <2>1 DEF Rest, FamiliesExist, Busy
    <3>2. Fam(m) # f /\ AllOff(m)
      BY <1>9, <2>1, <3>1 DEF Rest, TheftInv, ReuseIsOver
    <3>3. QED
      BY <1>2, <1>4, <2>1, <3>1, <3>2
  <2>2. ASSUME NEW u \in Tabs, rotation'[u].pc = "reuse" PROVE rotation[u].token \in DOMAIN tokens
    BY <1>1, <1>2, <2>2 DEF Rest, FamiliesExist
  <2>3. QED
    BY <1>5, <1>6, <2>1, <2>2 DEF ReuseIsOver
<1>13. GrantIsUnused'
  <2>1. ASSUME NEW u \in Tabs, rotation'[u].pc = "granted"
        PROVE  (/\ rotation[u].new # 0 /\ Fam(rotation[u].new) = Fam(rotation[u].token)
                /\ Clean(rotation[u].new) => Unused(rotation[u].new))'
    <3>1. CASE u = t
      BY <1>0, <1>1, <1>2, <1>4, <3>1
    <3>2. CASE u # t
      <4>1. rotation[u].pc = "granted" /\ rotation'[u] = rotation[u] /\ Busy(u)
        BY <1>1, <2>1, <3>2 DEF Rest, FamiliesExist, Busy
      <4>2. PICK a, m : a = rotation[u].token /\ m = rotation[u].new
        OBVIOUS
      <4>3. m # 0 /\ a # 0 /\ Fam(m) = Fam(a) /\ (Clean(m) => Unused(m))
        BY <4>1, <4>2 DEF Rest, TheftInv, GrantIsUnused, FamiliesExist
      <4>4. Clean(m) => Fam(m) # f
        BY <1>9, <3>2, <4>1, <4>2, <4>3 DEF Clean
      <4>5. Fam(m)' = Fam(a)' /\ (Clean(m)' => Unused(m)')
        BY <1>2, <1>4, <1>5, <4>2, <4>3, <4>4
      <4>6. QED
        BY <4>1, <4>2, <4>3, <4>5
    <3>3. QED
      BY <3>1, <3>2
  <2>2. QED
    BY <2>1 DEF GrantIsUnused
<1>14. NoFalseTheft'
  BY <1>3, <1>4 DEF Rest, TheftInv, NoFalseTheft
<1>15. IssueOverlaps' /\ LogoutOverlaps'
  <2>1. \A m \in DOMAIN tokens : Fam(m)' = Fam(m)
    BY <1>4
  <2>2. IssueOverlaps'
    BY <1>1, <1>2, <1>3, <2>1 DEF Rest, LogoutInv, IssueOverlaps, FamiliesExist
  <2>3. LogoutOverlaps'
    BY <1>2, <1>3, <1>6, <2>1 DEF Rest, LogoutInv, LogoutOverlaps, Busy
  <2>4. QED
    BY <2>2, <2>3
<1>16. LogoutEndsSession'
  <2>1. f \in past.loggedOut => f \in past.overlapped
    BY <1>0 DEF Rest, LogoutInv, IssueOverlaps, IssueToken
  <2>2. QED
    BY <1>3, <1>4, <2>1 DEF Rest, LogoutInv, LogoutEndsSession, Fam
<1>17. QED
  BY <1>7, <1>8, <1>10, <1>11, <1>12, <1>13, <1>14, <1>15, <1>16 DEF Rest, TheftInv, LogoutInv

\* A rotation ends, with a new token in the jar, with none, or without its answer.
LEMMA ArrivesKeeps ==
  ASSUME Types, Rest, NEW t \in Tabs, RotationArrives(t)
  PROVE  Rest'
<1>0. PICK n : n = jar'.refresh
  OBVIOUS
<1>1. /\ rotation'[t].pc = "idle" /\ rotation'[t].token = 0
      /\ \A u \in Tabs \ {t} : rotation'[u] = rotation[u]
  BY DEF RotationArrives, Types, NoRotation
<1>2. UNCHANGED <<tokens, logout, past>>
  BY DEF RotationArrives
<1>3. \/ n = 0
      \/ rotation[t].pc = "granted" /\ n = rotation[t].new
  BY <1>0 DEF RotationArrives
<1>4. \A m : /\ Fam(m)' = Fam(m) /\ (Unused(m)' <=> Unused(m)) /\ (AllOff(m)' <=> AllOff(m)) /\ (Clean(m)' <=> Clean(m))
  BY <1>2 DEF Fam, Unused, AllOff, Clean
<1>5. \A u \in Tabs : Busy(u)' <=> u # t /\ Busy(u)
  BY <1>1 DEF Busy
<1>6. n # 0 => /\ Busy(t) /\ Fam(n) = Fam(rotation[t].token)
               /\ Clean(n) => Unused(n)
  BY <1>3 DEF Rest, FamiliesExist, TheftInv, GrantIsUnused, Busy
<1>7. FamiliesExist'
  BY <1>1, <1>2 DEF Rest, FamiliesExist, Fam
<1>8. OneEach'
  BY <1>1, <1>4, <1>5 DEF Rest, TheftInv, OneEach
<1>9. JarIsTheirs'
  <2>1. ASSUME NEW u \in Tabs, Busy(u)', n # 0, Fam(rotation[u].token) = Fam(n) PROVE ~Clean(n)
    BY <1>5, <1>6, <2>1 DEF Rest, TheftInv, OneEach, Clean
  <2>2. QED
    BY <1>0, <1>1, <1>4, <1>5, <2>1 DEF JarIsTheirs
<1>10. JarIsUnused'
  BY <1>0, <1>4, <1>6 DEF JarIsUnused
<1>11. SentIsUnused' /\ ReuseIsOver' /\ GrantIsUnused'
  BY <1>1, <1>4 DEF Rest, TheftInv, SentIsUnused, ReuseIsOver, GrantIsUnused
<1>12. NoFalseTheft' /\ LogoutEndsSession'
  BY <1>2 DEF Rest, TheftInv, LogoutInv, NoFalseTheft, LogoutEndsSession, Live
<1>13. IssueOverlaps' /\ LogoutOverlaps'
  BY <1>1, <1>2, <1>4, <1>5 DEF Rest, LogoutInv, IssueOverlaps, LogoutOverlaps
<1>14. QED
  BY <1>7, <1>8, <1>9, <1>10, <1>11, <1>12, <1>13 DEF Rest, TheftInv, LogoutInv

LEMMA LostKeeps ==
  ASSUME Types, Rest, NEW t \in Tabs, RotationIsLost(t)
  PROVE  Rest'
<1>1. /\ rotation'[t].pc = "idle" /\ rotation'[t].token = 0
      /\ \A u \in Tabs \ {t} : rotation'[u] = rotation[u]
  BY DEF RotationIsLost, Types, NoRotation
<1>2. /\ UNCHANGED <<tokens, jar, logout>>
      /\ past'.doubled = past.doubled \cup {Family(rotation[t].token)}
      /\ past'.overlapped = past.overlapped /\ past'.loggedOut = past.loggedOut
  BY DEF RotationIsLost, Types
<1>3. rotation[t].token # 0 => Family(rotation[t].token) = Fam(rotation[t].token)
  BY RotationTyped, FamilyTyped
<1>4. \A m : /\ Fam(m)' = Fam(m) /\ (Unused(m)' <=> Unused(m)) /\ (AllOff(m)' <=> AllOff(m)) /\ (Clean(m)' => Clean(m))
  BY <1>2 DEF Fam, Unused, AllOff, Clean
<1>5. \A u \in Tabs : Busy(u)' <=> u # t /\ Busy(u)
  BY <1>1 DEF Busy
<1>6. FamiliesExist'
  BY <1>1, <1>2 DEF Rest, FamiliesExist, Fam
<1>7. OneEach'
  BY <1>1, <1>4, <1>5 DEF Rest, TheftInv, OneEach
<1>8. JarIsTheirs'
  BY <1>1, <1>2, <1>4, <1>5 DEF Rest, TheftInv, JarIsTheirs
<1>9. JarIsUnused'
  <2>1. ASSUME jar.refresh # 0, Clean(jar.refresh)', \A u \in Tabs : Busy(u)' => rotation'[u].token # jar.refresh
        PROVE  \A u \in Tabs : Busy(u) => rotation[u].token # jar.refresh
    <3>1. rotation[t].token # jar.refresh
      BY <1>2, <1>3, <2>1 DEF Clean, Fam
    <3>2. QED
      BY <1>1, <1>5, <2>1, <3>1
  <2>2. QED
    BY <1>2, <1>4, <2>1 DEF Rest, TheftInv, JarIsUnused
<1>10. SentIsUnused' /\ ReuseIsOver' /\ GrantIsUnused'
  BY <1>1, <1>4 DEF Rest, TheftInv, SentIsUnused, ReuseIsOver, GrantIsUnused
<1>11. NoFalseTheft' /\ LogoutEndsSession'
  BY <1>2 DEF Rest, TheftInv, LogoutInv, NoFalseTheft, LogoutEndsSession, Live
<1>12. IssueOverlaps' /\ LogoutOverlaps'
  BY <1>1, <1>2, <1>4, <1>5 DEF Rest, LogoutInv, IssueOverlaps, LogoutOverlaps
<1>13. QED
  BY <1>6, <1>7, <1>8, <1>9, <1>10, <1>11, <1>12 DEF Rest, TheftInv, LogoutInv

\* A family of its own.
LEMMA LoginKeeps ==
  ASSUME Types, Rest, NEW t \in Tabs, Login(t)
  PROVE  Rest'
<1>0. PICK n : n = Len(tokens) + 1
  OBVIOUS
<1>1. /\ n \in Nat /\ n \notin DOMAIN tokens
      /\ tokens' = Append(tokens, [family |-> n, used |-> FALSE, revoked |-> "none"])
      /\ jar'.refresh = n /\ UNCHANGED <<rotation, logout, past>>
  BY <1>0, TokenTyped DEF Login
<1>2. /\ \A u \in Tabs : rotation[u].token # 0 => rotation[u].token \in DOMAIN tokens
      /\ \A u \in Tabs : rotation[u].new # 0 => rotation[u].new \in DOMAIN tokens
      /\ logout.token # 0 => logout.token \in DOMAIN tokens
  BY RotationTyped, TokenTyped
<1>3. \A m \in DOMAIN tokens : Fam(m) # n
  BY <1>1 DEF Rest, FamiliesExist
<1>4. /\ n # 0 /\ DOMAIN tokens' = DOMAIN tokens \cup {n} /\ Fam(n)' = n /\ Unused(n)' /\ tokens'[n].revoked = "none"
      /\ \A m \in DOMAIN tokens :
           /\ Fam(m)' = Fam(m) /\ tokens'[m] = tokens[m] /\ (AllOff(m) => AllOff(m)') /\ (Unused(m) => Unused(m)')
           /\ Live(m)' => Live(m)
  BY <1>0, <1>1, <1>3, AppendKeeps DEF Rest
<1>5. \A m \in DOMAIN tokens : Clean(m)' <=> Clean(m)
  BY <1>1, <1>4 DEF Clean
<1>6. \A u \in Tabs : Busy(u)' <=> Busy(u)
  BY <1>1 DEF Busy
<1>7. FamiliesExist'
  BY <1>1, <1>4 DEF Rest, FamiliesExist
<1>8. OneEach'
  BY <1>1, <1>2, <1>4, <1>5, <1>6 DEF Rest, TheftInv, OneEach, Busy
<1>9. JarIsTheirs'
  <2>1. ASSUME NEW u \in Tabs, Busy(u) PROVE Fam(rotation[u].token)' # n
    <3>1. PICK m : m = rotation[u].token
      OBVIOUS
    <3>2. Fam(m)' # n
      BY <1>2, <1>3, <1>4, <2>1, <3>1 DEF Busy
    <3>3. QED
      BY <1>1, <3>1, <3>2
  <2>2. QED
    BY <1>1, <1>4, <1>6, <2>1 DEF JarIsTheirs
<1>10. JarIsUnused'
  BY <1>1, <1>4 DEF JarIsUnused
<1>11. SentIsUnused' /\ ReuseIsOver'
  BY <1>1, <1>2, <1>4, <1>5 DEF Rest, TheftInv, FamiliesExist, SentIsUnused, ReuseIsOver
<1>12. GrantIsUnused'
  BY <1>1, <1>2, <1>4, <1>5 DEF Rest, TheftInv, FamiliesExist, GrantIsUnused
<1>13. NoFalseTheft'
  BY <1>1, <1>4 DEF Rest, TheftInv, NoFalseTheft
<1>14. IssueOverlaps'
  BY <1>1, <1>2, <1>4 DEF Rest, LogoutInv, FamiliesExist, IssueOverlaps
<1>15. LogoutOverlaps'
  BY <1>1, <1>2, <1>4, <1>6 DEF Rest, LogoutInv, LogoutOverlaps, Busy
<1>16. LogoutEndsSession'
  <2>1. n \notin past.loggedOut
    BY <1>1, <1>4 DEF Rest, FamiliesExist
  <2>2. QED
    BY <1>1, <1>3, <1>4, <2>1 DEF Rest, LogoutInv, LogoutEndsSession, Fam
<1>17. QED
  BY <1>7, <1>8, <1>9, <1>10, <1>11, <1>12, <1>13, <1>14, <1>15, <1>16 DEF Rest, TheftInv, LogoutInv

\* A logout is sent: what its family has under way overlaps it.
LEMMA StartLogoutKeeps ==
  ASSUME Types, Rest, StartLogout
  PROVE  Rest'
<1>1. UNCHANGED <<tokens, jar, rotation>> /\ logout'.token = jar.refresh
  BY DEF StartLogout
<1>2. /\ past'.doubled = past.doubled /\ past'.loggedOut = past.loggedOut
      /\ past.overlapped \subseteq past'.overlapped
      /\ \A t \in Tabs : rotation[t].token # 0 /\ Family(rotation[t].token) = Family(jar.refresh)
           => Family(jar.refresh) \in past'.overlapped
  BY DEF StartLogout, Types
<1>3. /\ \A t \in Tabs : rotation[t].token # 0 => Family(rotation[t].token) = Fam(rotation[t].token)
      /\ jar.refresh # 0 => Family(jar.refresh) = Fam(jar.refresh)
  BY RotationTyped, TokenTyped, FamilyTyped
<1>4. \A m : /\ Fam(m)' = Fam(m) /\ (Unused(m)' <=> Unused(m)) /\ (AllOff(m)' <=> AllOff(m)) /\ (Clean(m)' <=> Clean(m))
  BY <1>1, <1>2 DEF Fam, Unused, AllOff, Clean
<1>5. FamiliesExist' /\ TheftInv'
  BY <1>1, <1>2, <1>4 DEF Rest, FamiliesExist, TheftInv, OneEach, JarIsTheirs, JarIsUnused, SentIsUnused,
     ReuseIsOver, GrantIsUnused, NoFalseTheft, Busy
<1>6. IssueOverlaps' /\ LogoutEndsSession'
  BY <1>1, <1>2, <1>4 DEF Rest, LogoutInv, IssueOverlaps, LogoutEndsSession, Live
<1>7. LogoutOverlaps'
  BY <1>1, <1>2, <1>3, <1>4 DEF LogoutOverlaps, Busy
<1>8. QED
  BY <1>5, <1>6, <1>7 DEF Rest, LogoutInv

\* The family of the logout is revoked.
LEMMA LogoutKeeps ==
  ASSUME Types, Rest, Logout
  PROVE  Rest'
<1>0. PICK f : f = Family(logout.token)
  OBVIOUS
<1>1. UNCHANGED <<jar, rotation>> /\ logout.pc = "sent" /\ logout'.pc = "done" /\ logout'.token = logout.token
  BY DEF Logout, Types
<1>2. /\ past'.doubled = past.doubled /\ past'.overlapped = past.overlapped
      /\ past'.loggedOut = past.loggedOut \cup {f}
  BY <1>0 DEF Logout, Types
<1>3. /\ \A u \in Tabs : rotation[u].token # 0 => rotation[u].token \in DOMAIN tokens
      /\ \A u \in Tabs : rotation[u].new # 0 => rotation[u].new \in DOMAIN tokens
      /\ jar.refresh # 0 => jar.refresh \in DOMAIN tokens
      /\ logout.token # 0 => logout.token \in DOMAIN tokens /\ Fam(logout.token) = f
      /\ logout.token = 0 => f = 0
  BY <1>0, RotationTyped, TokenTyped, FamilyTyped DEF Family
<1>4. PICK reason \in Reason \ {"none"} : reason = "LOGOUT"
  BY DEF Reason
<1>5. tokens' = Revoked(f, reason)
  BY <1>0, <1>4 DEF Logout
<1>6. \A m \in DOMAIN tokens :
        /\ Fam(m)' = Fam(m) /\ (AllOff(m) \/ Fam(m) = f => AllOff(m)') /\ (Unused(m) => Unused(m)')
        /\ Live(m)' => Live(m) /\ Fam(m) # f
        /\ tokens'[m].revoked = "REUSE_DETECTED" =>
             \/ tokens[m].revoked = "REUSE_DETECTED"
             \/ reason = "REUSE_DETECTED" /\ Fam(m) = f /\ tokens[m].revoked = "none"
  BY <1>5, RevokedKeeps
<1>7. \A m \in DOMAIN tokens :
        /\ Fam(m)' = Fam(m) /\ (AllOff(m) => AllOff(m)') /\ (Unused(m) => Unused(m)')
        /\ Live(m)' => Live(m) /\ Fam(m) # f
        /\ tokens'[m].revoked = "REUSE_DETECTED" => tokens[m].revoked = "REUSE_DETECTED"
        /\ Clean(m)' <=> Clean(m)
  BY <1>2, <1>4, <1>6 DEF Clean
<1>8. DOMAIN tokens' = DOMAIN tokens
  BY <1>5, RevokedMakes
<1>9. \A u \in Tabs : Busy(u)' <=> Busy(u)
  BY <1>1 DEF Busy
<1>10. FamiliesExist'
  BY <1>1, <1>2, <1>3, <1>7, <1>8 DEF Rest, FamiliesExist
<1>11. OneEach' /\ JarIsTheirs'
  BY <1>1, <1>3, <1>7, <1>9 DEF Rest, TheftInv, OneEach, JarIsTheirs, Busy
<1>12. JarIsUnused'
  BY <1>1, <1>3, <1>7, <1>9 DEF Rest, TheftInv, JarIsUnused
<1>13. SentIsUnused' /\ ReuseIsOver'
  BY <1>1, <1>3, <1>7 DEF Rest, TheftInv, SentIsUnused, ReuseIsOver, FamiliesExist
<1>14. GrantIsUnused'
  BY <1>1, <1>3, <1>7 DEF Rest, TheftInv, GrantIsUnused, FamiliesExist
<1>15. NoFalseTheft'
  BY <1>2, <1>7, <1>8 DEF Rest, TheftInv, NoFalseTheft, Fam
<1>16. IssueOverlaps'
  <2>1. ASSUME NEW u \in Tabs, rotation[u].pc \in {"found", "used"}, Fam(rotation[u].token) = f
        PROVE  f \in past.overlapped
    <3>1. rotation[u].token \in DOMAIN tokens /\ Busy(u)
      BY <1>3, <2>1 DEF Rest, FamiliesExist, Busy
    <3>2. f \in DOMAIN tokens
      BY <2>1, <3>1 DEF Rest, FamiliesExist
    <3>3. logout.token # 0
      BY <1>3, <3>2, TokenTyped
    <3>4. QED
      BY <1>1, <1>3, <2>1, <3>1, <3>3 DEF Rest, LogoutInv, LogoutOverlaps
  <2>2. \A u \in Tabs : rotation[u].pc \in {"found", "used"} => Fam(rotation[u].token)' = Fam(rotation[u].token)
    BY <1>1, <1>3, <1>7 DEF Rest, FamiliesExist
  <2>3. QED
    BY <1>1, <1>2, <2>1, <2>2 DEF Rest, LogoutInv, IssueOverlaps
<1>17. LogoutOverlaps'
  BY <1>1 DEF LogoutOverlaps
<1>18. LogoutEndsSession'
  BY <1>2, <1>7, <1>8 DEF Rest, LogoutInv, LogoutEndsSession, Fam
<1>19. QED
  BY <1>10, <1>11, <1>12, <1>13, <1>14, <1>15, <1>16, <1>17, <1>18 DEF Rest, TheftInv, LogoutInv

\* The answer of the logout empties the jar.
LEMMA LogoutArrivesKeeps ==
  ASSUME Types, Rest, LogoutArrives
  PROVE  Rest'
<1>1. UNCHANGED <<tokens, rotation, past>> /\ jar'.refresh = 0 /\ logout'.pc = "idle"
  BY DEF LogoutArrives, NoLogout
<1>2. QED
  BY <1>1 DEF Rest, FamiliesExist, TheftInv, LogoutInv, OneEach, JarIsTheirs, JarIsUnused, SentIsUnused, ReuseIsOver,
     GrantIsUnused, NoFalseTheft, IssueOverlaps, LogoutOverlaps, LogoutEndsSession, Busy, Clean, Unused, AllOff,
     Fam, Live

\* findOne: nothing was sent, or what is live is found.
LEMMA FindKeeps ==
  ASSUME Types, Rest, NEW t \in Tabs, FindToken(t)
  PROVE  Rest'
<1>1. rotation[t].pc = "sent" /\ UNCHANGED <<tokens, jar, logout, past>>
  BY DEF FindToken
<1>2. PICK p : p = IF rotation[t].token = 0 THEN "refused" ELSE IF Live(rotation[t].token) THEN "found" ELSE "reuse"
  OBVIOUS
<1>3. p \in {"refused", "found", "reuse"} /\ rotation' = [rotation EXCEPT ![t].pc = p]
  BY <1>2 DEF FindToken
<1>4. /\ p # "refused" => rotation[t].pc = "sent" /\ rotation[t].token # 0
      /\ p = "found" => Live(rotation[t].token)
      /\ p = "reuse" => ~Live(rotation[t].token)
  BY <1>1, <1>2
<1>5. QED
  BY <1>1, <1>3, <1>4, PcKeeps

LEMMA RestStep == Types /\ Rest /\ [SessionsNext]_sessionVars => Rest'
<1> SUFFICES ASSUME Types, Rest, [SessionsNext]_sessionVars PROVE Rest'
  OBVIOUS
<1>1. CASE AccessExpires
  BY <1>1, QuietKeeps DEF AccessExpires, Types
<1>2. CASE StartLogout
  BY <1>2, StartLogoutKeeps
<1>3. CASE Logout
  BY <1>3, LogoutKeeps
<1>4. CASE LogoutArrives
  BY <1>4, LogoutArrivesKeeps
<1>5. ASSUME NEW t \in Tabs, Login(t) PROVE Rest'
  BY <1>5, LoginKeeps
<1>6. ASSUME NEW t \in Tabs, RotationStep(t) PROVE Rest'
  BY <1>6, FindKeeps, ReuseKeeps, UseTokenKeeps, IssueKeeps, ArrivesKeeps DEF RotationStep
<1>7. ASSUME NEW t \in Tabs, RotationIsLost(t) PROVE Rest'
  BY <1>7, LostKeeps
<1>8. ASSUME NEW t \in Tabs, RefuseRotation(t) PROVE Rest'
  <2>1. /\ rotation' = [rotation EXCEPT ![t].pc = "refused"] /\ rotation[t].pc \in {"found", "used"}
        /\ UNCHANGED <<tokens, jar, logout, past>>
    BY <1>8 DEF RefuseRotation
  <2>2. QED
    BY <2>1, PcKeeps
<1>9. ASSUME NEW t \in Tabs, NEW q \in Queries, SendCall(t, q) \/ Answered(t, q) \/ Retry(t, q) PROVE Rest'
  BY <1>9, QuietKeeps DEF SendCall, Answered, Retry
<1>10. ASSUME NEW t \in Tabs, NEW q \in Queries, Unauthorised(t, q) PROVE Rest'
  <2>1. UNCHANGED <<tokens, jar, logout>>
    BY <1>10 DEF Unauthorised
  <2>2. CASE rotation[t].pc = "idle" /\ StartRotation(t)
    BY <2>1, <2>2, StartKeeps
  <2>3. CASE UNCHANGED <<rotation, past>>
    BY <2>1, <2>3, QuietKeeps
  <2>4. QED
    BY <1>10, <2>2, <2>3 DEF Unauthorised
<1>11. CASE UNCHANGED sessionVars
  BY <1>11, QuietKeeps DEF sessionVars
<1>12. QED
  BY <1>1, <1>2, <1>3, <1>4, <1>5, <1>6, <1>7, <1>8, <1>9, <1>10, <1>11 DEF SessionsNext, CallStep

-----------------------------------------------------------------------------
(* Sessions: theorems *)

\* All that holds of the sessions together: the types, which need that what a rotation
\* found is a token, and the rest.
THEOREM SessionsInvariant == SessionsSpec => [](Types /\ Rest)
<1>1. SessionsInit => Types /\ Rest
  BY TypesInit, RestInit
<1>2. Types /\ Rest /\ [SessionsNext]_sessionVars => (Types /\ Rest)'
  BY TypesStep, RestStep DEF Rest
<1>3. QED
  BY <1>1, <1>2, PTL DEF SessionsSpec

\* The types of refresh tokens, cookies, rotations and calls, whatever the number of tabs.
THEOREM SessionsTypeCorrect == SessionsSpec => []SessionsTypeOK
<1>1. Types => SessionsTypeOK
  BY TokenTyped DEF Types, SessionsTypeOK, Jar
<1>2. QED
  BY <1>1, SessionsInvariant, PTL

\* client.ts, one refresh at a time: no family is revoked as stolen unless two tabs
\* presented one token or an answer was lost.
THEOREM SessionsNoFalseTheft == SessionsSpec => []NoFalseTheft
<1>1. Rest => NoFalseTheft
  BY DEF Rest, TheftInv
<1>2. QED
  BY <1>1, SessionsInvariant, PTL

\* auth/service.ts logout: no token of the family is accepted after it, except of a family
\* that was rotated while the logout was under way.
THEOREM SessionsLogoutEnds == SessionsSpec => []LogoutEndsSession
<1>1. Rest => LogoutEndsSession
  BY DEF Rest, LogoutInv
<1>2. QED
  BY <1>1, SessionsInvariant, PTL

-----------------------------------------------------------------------------
(* Workspace: the inductive invariant *)

Keys   == Kinds \X Cases
Values == [value : Nat, stale : BOOLEAN]

ViewTypes ==
  /\ server \in [Cases -> [Kinds -> Nat]]
  /\ jobs \subseteq [kind : Writes \cup {"detect"}, case : Cases, cleared : BOOLEAN]
  /\ halted \subseteq Keys
  /\ route \in Cases \cup {NoCase}
  /\ DOMAIN answers \subseteq Keys /\ \A q \in DOMAIN answers : answers[q] \in Values
  /\ DOMAIN fetching \subseteq Keys /\ \A q \in DOMAIN fetching : fetching[q] \in Nat
  /\ DOMAIN own \subseteq Keys /\ \A q \in DOMAIN own : own[q] \in Nat
  /\ writing \in [kind : Writes \cup {"none"}, case : Cases \cup {NoCase}]
  /\ writing # NoWrite => writing.kind \in Writes /\ writing.case \in Cases

\* The store is a record, and its layers are of the case that owns it.
OneOwner(store) ==
  /\ store = [owner |-> store.owner, of |-> store.of]
  /\ \A l \in DOMAIN store.of : /\ store.of[l] = [case |-> store.of[l].case, visible |-> store.of[l].visible]
                                /\ store.of[l].case = store.owner

\* What is known of the case that is open has its layers.
Registers(store, c, k) ==
  c # NoCase /\ LayersFrom(k) # {} => store.owner = c /\ LayersFrom(k) \subseteq DOMAIN store.of
LayerInv == OneOwner(layerStore) /\ \A k \in Kinds : Shows(k, route) => Registers(layerStore, route, k)

\* No answer is ahead of the server.
Held(q) == server[q[2]][q[1]]
AnswerInv == \A q \in DOMAIN answers : answers[q].value <= Held(q)

\* What is not there was never there, or a run that is repeated has deleted it.
LackInv == \A k \in Kinds, c \in Cases : server[c][k] > 0 => Available(k, c)

\* And nothing is said of changes to come.
AheadInv == \A k \in Kinds, c \in Cases : \A n \in Nat : n > server[c][k] => <<k, c, n>> \notin vanished

\* What is being fetched is not up to date; a fetch, and an answer that is up to date, are
\* not behind the analyst's own write.
FetchInv == \A q \in DOMAIN fetching : ~UpToDate(q)
OwnInv ==
  \A q \in DOMAIN own :
    /\ own[q] <= Held(q)
    /\ q \in DOMAIN fetching => fetching[q] >= own[q]
    /\ UpToDate(q) => answers[q].value >= own[q]

WorkInv == ViewTypes /\ LayerInv /\ AnswerInv /\ LackInv /\ AheadInv /\ FetchInv /\ OwnInv

-----------------------------------------------------------------------------
(* Workspace: functions that grow *)

LEMMA Merged ==
  ASSUME NEW f, NEW g
  PROVE  /\ DOMAIN Over(f, g) = DOMAIN f \cup DOMAIN g
         /\ \A x \in DOMAIN f : Over(f, g)[x] = f[x]
         /\ \A x \in DOMAIN g : x \notin DOMAIN f => Over(f, g)[x] = g[x]
  BY DEF Over

\* Asking sends what the server holds at that moment; other fetches go on.
LEMMA Asking ==
  ASSUME NEW qs
  PROVE  /\ DOMAIN Ask(qs) = qs \cup DOMAIN fetching
         /\ \A q \in qs : Ask(qs)[q] = Held(q)
         /\ \A q \in DOMAIN fetching : q \notin qs => Ask(qs)[q] = fetching[q]
<1>1. PICK f : f = [q \in qs |-> server[q[2]][q[1]]]
  OBVIOUS
<1>2. DOMAIN f = qs /\ \A q \in qs : f[q] = Held(q)
  BY <1>1 DEF Held
<1>3. Ask(qs) = Over(f, fetching)
  BY <1>1 DEF Ask
<1>4. /\ DOMAIN Over(f, fetching) = DOMAIN f \cup DOMAIN fetching
      /\ \A x \in DOMAIN f : Over(f, fetching)[x] = f[x]
      /\ \A x \in DOMAIN fetching : x \notin DOMAIN f => Over(f, fetching)[x] = fetching[x]
  BY Merged
<1>5. QED
  BY <1>2, <1>3, <1>4

LEMMA Dropped ==
  ASSUME NEW f, NEW q
  PROVE  /\ DOMAIN Without(f, q) = DOMAIN f \ {q}
         /\ \A p \in DOMAIN f : p # q => Without(f, q)[p] = f[p]
  BY DEF Without

\* Adding layers leaves the layers of one case, and those that were added.
LEMMA LayersAdded ==
  ASSUME NEW store, OneOwner(store), NEW c, NEW ls
  PROVE  /\ OneOwner(AddLayers(store, c, ls))
         /\ ls # {} => AddLayers(store, c, ls).owner = c
                       /\ ls \subseteq DOMAIN AddLayers(store, c, ls).of
         /\ ls = {} => AddLayers(store, c, ls) = store
         /\ store.owner = c => AddLayers(store, c, ls).owner = c
                                 /\ DOMAIN store.of \subseteq DOMAIN AddLayers(store, c, ls).of
<1>1. CASE ls = {}
  BY <1>1 DEF AddLayers
<1>2. CASE ls # {}
  <2>1. PICK f : f = [l \in ls |-> [case |-> c, visible |-> TRUE]]
    OBVIOUS
  <2>2. PICK g : g = IF store.owner = c THEN store.of ELSE << >>
    OBVIOUS
  <2>3. DOMAIN f = ls /\ \A l \in ls : f[l] = [case |-> c, visible |-> TRUE]
    BY <2>1
  <2>4. \A l \in DOMAIN g : g[l].case = c /\ g[l] = [case |-> g[l].case, visible |-> g[l].visible]
    BY <2>2 DEF OneOwner
  <2>5. PICK h : h = Over(f, g)
    OBVIOUS
  <2>6. DOMAIN h = ls \cup DOMAIN g /\ (\A l \in ls : h[l] = f[l])
        /\ \A l \in DOMAIN g : l \notin ls => h[l] = g[l]
    BY <2>3, <2>5, Merged
  <2>7. AddLayers(store, c, ls) = [owner |-> c, of |-> h]
    BY <1>2, <2>1, <2>2, <2>5 DEF AddLayers
  <2>8. PICK s : s = [owner |-> c, of |-> h]
    OBVIOUS
  <2>9. s.owner = c /\ s.of = h
    BY <2>8
  <2>10. \A l \in DOMAIN h : h[l].case = c /\ h[l] = [case |-> h[l].case, visible |-> h[l].visible]
    BY <2>3, <2>4, <2>6
  <2>11. OneOwner(s)
    BY <2>8, <2>9, <2>10 DEF OneOwner
  <2>12. store.owner = c => DOMAIN store.of \subseteq DOMAIN h
    BY <2>2, <2>6
  <2>13. QED
    BY <1>2, <2>6, <2>7, <2>8, <2>9, <2>11, <2>12
<1>3. QED
  BY <1>1, <1>2

-----------------------------------------------------------------------------
(* Workspace: the steps *)

LEMMA HeldTyped ==
  ASSUME ViewTypes, NEW q \in Keys
  PROVE  Held(q) \in Nat
  BY DEF ViewTypes, Keys, Held

LEMMA ObservedKeys ==
  ASSUME NEW c \in Cases \cup {NoCase}
  PROVE  /\ Observed(c) \subseteq Keys
         /\ \A q \in Keys : q[2] = c => q \in Observed(c)
         /\ c # NoCase => \A k \in Kinds : KeyOf(k, c) \in Observed(c)
  BY WorkspaceAssumption DEF Observed, KeyOf, Keys

LEMMA FirstInv == WorkspaceInit => WorkInv
<1> SUFFICES ASSUME WorkspaceInit PROVE WorkInv
  OBVIOUS
<1>1. server \in [Cases -> [Kinds -> Nat]]
  BY DEF WorkspaceInit
<1>2. answers = << >> /\ fetching = << >> /\ own = << >> /\ jobs = {} /\ halted = {} /\ route = NoCase
      /\ writing = NoWrite
  BY DEF WorkspaceInit
<1>3. DOMAIN answers = {} /\ DOMAIN fetching = {} /\ DOMAIN own = {}
  BY <1>2
<1>4. NoWrite \in [kind : Writes \cup {"none"}, case : Cases \cup {NoCase}]
  BY DEF NoWrite
<1>5. ViewTypes
  BY <1>1, <1>2, <1>3, <1>4 DEF ViewTypes
<1>6. OneOwner(layerStore)
  <2>1. layerStore = [owner |-> NoCase, of |-> << >>]
    BY DEF WorkspaceInit
  <2>2. layerStore.owner = NoCase /\ layerStore.of = << >> /\ DOMAIN layerStore.of = {}
    BY <2>1
  <2>3. QED
    BY <2>1, <2>2 DEF OneOwner
<1>7. LayerInv
  BY <1>2, <1>6 DEF LayerInv, Registers
<1>a. vanished = {}
  BY DEF WorkspaceInit
<1>b. LackInv /\ AheadInv
  BY <1>a DEF LackInv, AheadInv, Available, Holds, There
<1>8. AnswerInv /\ FetchInv /\ OwnInv
  BY <1>3 DEF AnswerInv, FetchInv, OwnInv
<1>9. QED
  BY <1>5, <1>7, <1>8, <1>b DEF WorkInv

\* What is stored changes of some kinds of one case, and is counted.
LEMMA ServerMoves ==
  ASSUME ViewTypes, NEW c \in Cases, NEW ks \in SUBSET Kinds
  PROVE  /\ Advanced(ks, c) \in [Cases -> [Kinds -> Nat]]
         /\ \A d \in Cases, k \in Kinds :
              Advanced(ks, c)[d][k] = IF d = c /\ k \in ks THEN server[d][k] + 1 ELSE server[d][k]
         /\ \A q \in Keys : Advanced(ks, c)[q[2]][q[1]] >= Held(q)
<1>1. PICK f : f = [k \in Kinds |-> IF k \in ks THEN server[c][k] + 1 ELSE server[c][k]]
  OBVIOUS
<1>2. server[c] \in [Kinds -> Nat]
  BY DEF ViewTypes
<1>3. f \in [Kinds -> Nat] /\ \A k \in Kinds : f[k] = IF k \in ks THEN server[c][k] + 1 ELSE server[c][k]
  BY <1>1, <1>2
<1>4. Advanced(ks, c) = [server EXCEPT ![c] = f]
  BY <1>1 DEF Advanced, ViewTypes
<1>5. Advanced(ks, c) \in [Cases -> [Kinds -> Nat]]
  BY <1>3, <1>4 DEF ViewTypes
<1>6. ASSUME NEW d \in Cases, NEW k \in Kinds
      PROVE  /\ Advanced(ks, c)[d][k] = IF d = c /\ k \in ks THEN server[d][k] + 1 ELSE server[d][k]
             /\ Advanced(ks, c)[d][k] >= server[d][k]
  <2>1. server[d][k] \in Nat
    BY DEF ViewTypes
  <2>2. CASE d = c
    BY <1>3, <1>4, <2>1, <2>2 DEF ViewTypes
  <2>3. CASE d # c
    BY <1>4, <2>1, <2>3 DEF ViewTypes
  <2>4. QED
    BY <2>2, <2>3
<1>7. QED
  BY <1>5, <1>6 DEF Held, Keys

LEMMA StoresKinds == \A w \in Writes \cup {"detect"} : Stores(w) \subseteq Kinds /\ Replaces(w) \subseteq Kinds
  BY DEF Writes, Stores, Replaces, Kinds

\* A step of the server: what the workspace shows of it stays, or is less.
LEMMA ShownStays ==
  ASSUME WorkInv, server' \in [Cases -> [Kinds -> Nat]],
         \A q \in Keys : server'[q[2]][q[1]] >= Held(q), vanished \subseteq vanished',
         UNCHANGED <<route, answers, fetching, layerStore, own>>
  PROVE  LayerInv' /\ AnswerInv' /\ FetchInv' /\ OwnInv'
<1>1. ASSUME NEW q \in Keys
      PROVE  Held(q) \in Nat /\ Held(q)' \in Nat /\ Held(q)' >= Held(q)
  BY HeldTyped DEF WorkInv, Held, Keys
<1>2. LayerInv'
  <2>1. ASSUME NEW k \in Kinds, Shows(k, route)' PROVE Shows(k, route)
    BY <2>1 DEF Shows, There, Known, KeyOf
  <2>2. QED
    BY <2>1 DEF WorkInv, LayerInv, OneOwner, Registers
<1>3. AnswerInv'
  <2>1. ASSUME NEW q \in DOMAIN answers PROVE answers[q].value <= Held(q)'
    <3>1. q \in Keys /\ answers[q].value \in Nat /\ answers[q].value <= Held(q)
      BY DEF WorkInv, ViewTypes, AnswerInv, Values
    <3>2. QED
      BY <1>1, <3>1
  <2>2. QED
    BY <2>1 DEF AnswerInv
<1>4. FetchInv'
  BY DEF WorkInv, FetchInv, UpToDate, Known
<1>5. OwnInv'
  <2>1. ASSUME NEW q \in DOMAIN own
        PROVE  /\ own[q] <= Held(q)'
               /\ q \in DOMAIN fetching => fetching[q] >= own[q]
               /\ UpToDate(q) => answers[q].value >= own[q]
    <3>1. q \in Keys /\ own[q] \in Nat /\ own[q] <= Held(q)
      BY DEF WorkInv, ViewTypes, OwnInv
    <3>2. own[q] <= Held(q)'
      BY <1>1, <3>1
    <3>3. QED
      BY <3>2 DEF WorkInv, OwnInv
  <2>2. QED
    BY <2>1 DEF OwnInv, UpToDate, Known
<1>6. QED
  BY <1>2, <1>3, <1>4, <1>5

\* Where something is stored it is there; where nothing changes the explanation stays.
LEMMA StoredMore ==
  ASSUME WorkInv, NEW c \in Cases, NEW ks \in SUBSET Kinds, server' = Advanced(ks, c), UNCHANGED vanished,
         \A d \in Cases, k \in Kinds : ~(d = c /\ k \in ks) /\ (Replacing(k, d) \/ KeyOf(k, d) \in halted)
                                         => (Replacing(k, d)' \/ KeyOf(k, d) \in halted')
  PROVE  LackInv' /\ AheadInv'
<1>1. ASSUME NEW k \in Kinds, NEW d \in Cases
      PROVE  /\ server[d][k] \in Nat
             /\ server'[d][k] = IF d = c /\ k \in ks THEN server[d][k] + 1 ELSE server[d][k]
  BY ServerMoves DEF WorkInv, ViewTypes
<1>2. ASSUME NEW k \in Kinds, NEW d \in Cases, server'[d][k] > 0 PROVE Available(k, d)'
  <2>1. CASE d = c /\ k \in ks
    <3>1. <<k, d, server[d][k] + 1>> \notin vanished
      BY <1>1 DEF WorkInv, AheadInv
    <3>2. Holds(k, d)'
      BY <1>1, <1>2, <2>1, <3>1 DEF Holds, There
    <3>3. QED
      BY <3>2 DEF Available
  <2>2. CASE ~(d = c /\ k \in ks)
    <3>1. server'[d][k] = server[d][k] /\ Available(k, d)
      BY <1>1, <1>2, <2>2 DEF WorkInv, LackInv
    <3>2. Holds(k, d) => Holds(k, d)'
      BY <3>1 DEF Holds, There
    <3>3. (Replacing(k, d) \/ KeyOf(k, d) \in halted) => (Replacing(k, d)' \/ KeyOf(k, d)' \in halted')
      BY <2>2 DEF KeyOf
    <3>4. QED
      BY <3>1, <3>2, <3>3 DEF Available
  <2>3. QED
    BY <2>1, <2>2
<1>3. ASSUME NEW k \in Kinds, NEW d \in Cases, NEW n \in Nat, n > server'[d][k] PROVE <<k, d, n>> \notin vanished'
  BY <1>1, <1>3 DEF WorkInv, AheadInv
<1>4. QED
  BY <1>2, <1>3 DEF LackInv, AheadInv

LEMMA WriteStep ==
  ASSUME WorkInv, NEW w \in Writes, Write(w)
  PROVE  WorkInv'
<1>1. route \in Cases /\ route # NoCase
  BY DEF Write, WorkInv, ViewTypes
<1>2. writing' = [kind |-> w, case |-> route]
      /\ UNCHANGED <<vanished, halted, route, answers, fetching, layerStore, own>>
  BY DEF Write
<1>3. PICK ks \in SUBSET Kinds : server' = Advanced(ks, route)
  <2>1. CASE Direct(w)
    BY <2>1, StoresKinds DEF Write
  <2>2. CASE ~Direct(w)
    <3>1. PICK m \in [Cases -> [Kinds -> Nat]] : m = server
      BY DEF WorkInv, ViewTypes
    <3>2. PICK f : f = [k \in Kinds |-> IF k \in {} THEN m[route][k] + 1 ELSE m[route][k]]
      OBVIOUS
    <3>3. f = m[route]
      BY <1>1, <3>2
    <3>4. Advanced({}, route) = [m EXCEPT ![route] = f]
      BY <1>1, <3>1, <3>2 DEF Advanced
    <3>5. Advanced({}, route) = server
      BY <1>1, <3>1, <3>3, <3>4
    <3>6. QED
      BY <2>2, <3>5 DEF Write
  <2>3. QED
    BY <2>1, <2>2
<1>4. server' \in [Cases -> [Kinds -> Nat]] /\ \A q \in Keys : server'[q[2]][q[1]] >= Held(q)
  BY <1>1, <1>3, ServerMoves DEF WorkInv
<1>5. jobs \subseteq jobs' /\ jobs' \subseteq [kind : Writes \cup {"detect"}, case : Cases, cleared : BOOLEAN]
  <2>1. JobOf(w, route) \in [kind : Writes \cup {"detect"}, case : Cases, cleared : BOOLEAN]
    BY <1>1 DEF JobOf
  <2>2. jobs' = jobs \/ jobs' = jobs \cup {JobOf(w, route)}
    BY DEF Write
  <2>3. QED
    BY <2>1, <2>2 DEF WorkInv, ViewTypes
<1>6. ViewTypes'
  BY <1>1, <1>2, <1>4, <1>5 DEF WorkInv, ViewTypes
<1>7. LackInv' /\ AheadInv'
  <2>1. \A k \in Kinds, d \in Cases : Replacing(k, d) => Replacing(k, d)'
    BY <1>5 DEF Replacing
  <2>2. QED
    BY <1>1, <1>2, <1>3, <2>1, StoredMore
<1>8. QED
  BY <1>2, <1>4, <1>6, <1>7, ShownStays DEF WorkInv

LEMMA DetectAgainStep ==
  ASSUME WorkInv, NEW c \in Cases, DetectAgain(c)
  PROVE  WorkInv'
<1>1. UNCHANGED <<server, vanished, halted, route, answers, fetching, writing, layerStore, own>>
  BY DEF DetectAgain
<1>2. jobs \subseteq jobs' /\ jobs' \subseteq [kind : Writes \cup {"detect"}, case : Cases, cleared : BOOLEAN]
  <2>1. JobOf("detect", c) \in [kind : Writes \cup {"detect"}, case : Cases, cleared : BOOLEAN]
    BY DEF JobOf
  <2>2. jobs' = jobs \cup {JobOf("detect", c)}
    BY DEF DetectAgain
  <2>3. QED
    BY <2>1, <2>2 DEF WorkInv, ViewTypes
<1>3. ViewTypes'
  BY <1>1, <1>2 DEF WorkInv, ViewTypes
<1>4. \A k \in Kinds, d \in Cases : Available(k, d) => Available(k, d)'
  BY <1>1, <1>2 DEF Available, Holds, There, Replacing, KeyOf
<1>5. LackInv' /\ AheadInv'
  BY <1>1, <1>4 DEF WorkInv, LackInv, AheadInv
<1>6. \A q \in Keys : server'[q[2]][q[1]] >= Held(q)
  BY <1>1, HeldTyped DEF WorkInv, Held
<1>7. QED
  BY <1>1, <1>3, <1>5, <1>6, ShownStays DEF WorkInv, ViewTypes

\* What is deleted is being replaced from then on.
LEMMA ClearStep ==
  ASSUME WorkInv, NEW j \in jobs, JobClears(j)
  PROVE  WorkInv'
<1>1. PICK w \in Writes \cup {"detect"}, c \in Cases : j = [kind |-> w, case |-> c, cleared |-> FALSE]
  BY DEF WorkInv, ViewTypes, JobClears
<1>2. PICK ks : ks = {k \in Replaces(w) : Holds(k, c)}
  OBVIOUS
<1>3. ks \in SUBSET Kinds /\ ks \subseteq Replaces(w)
  BY <1>2, StoresKinds
<1>4. PICK lost : lost = {<<k, c, server[c][k] + 1>> : k \in ks}
  OBVIOUS
<1>5. /\ UNCHANGED <<halted, route, answers, fetching, writing, layerStore, own>>
      /\ server' = Advanced(ks, c)
      /\ vanished' = vanished \cup lost \/ vanished' = vanished
  BY <1>1, <1>2, <1>4 DEF JobClears
<1>6. PICK i : i = [kind |-> w, case |-> c, cleared |-> TRUE]
  OBVIOUS
<1>7. jobs' = (jobs \ {j}) \cup {i}
  BY <1>1, <1>6 DEF JobClears
<1>8. /\ server' \in [Cases -> [Kinds -> Nat]] /\ \A q \in Keys : server'[q[2]][q[1]] >= Held(q)
      /\ \A d \in Cases, k \in Kinds :
           server'[d][k] = IF d = c /\ k \in ks THEN server[d][k] + 1 ELSE server[d][k]
  BY <1>3, <1>5, ServerMoves DEF WorkInv
<1>9. ViewTypes'
  <2>1. i \in [kind : Writes \cup {"detect"}, case : Cases, cleared : BOOLEAN]
    BY <1>6
  <2>2. QED
    BY <1>5, <1>7, <1>8, <2>1 DEF WorkInv, ViewTypes
<1>10. \A k \in Kinds, d \in Cases : Replacing(k, d) => Replacing(k, d)'
  <2>1. j.cleared = FALSE
    BY <1>1
  <2>2. QED
    BY <1>7, <2>1 DEF Replacing
<1>11. \A k \in ks : Replacing(k, c)'
  <2>1. i \in jobs' /\ i.case = c /\ i.cleared /\ i.kind = w
    BY <1>6, <1>7
  <2>2. QED
    BY <1>3, <2>1 DEF Replacing
<1>12. ASSUME NEW k \in Kinds, NEW d \in Cases, server'[d][k] > 0 PROVE Available(k, d)'
  <2>1. CASE d = c /\ k \in ks
    BY <1>11, <2>1 DEF Available
  <2>2. CASE ~(d = c /\ k \in ks)
    <3>1. server'[d][k] = server[d][k] /\ Available(k, d)
      BY <1>8, <1>12, <2>2 DEF WorkInv, LackInv
    <3>2. \A n : <<k, d, n>> \notin lost
      BY <1>4, <2>2
    <3>3. Holds(k, d) => Holds(k, d)'
      BY <1>5, <3>1, <3>2 DEF Holds, There
    <3>4. KeyOf(k, d) \in halted => KeyOf(k, d)' \in halted'
      BY <1>5 DEF KeyOf
    <3>5. QED
      BY <1>10, <3>1, <3>3, <3>4 DEF Available
  <2>3. QED
    BY <2>1, <2>2
<1>13. ASSUME NEW k \in Kinds, NEW d \in Cases, NEW n \in Nat, n > server'[d][k] PROVE <<k, d, n>> \notin vanished'
  <2>1. server[d][k] \in Nat
    BY DEF WorkInv, ViewTypes
  <2>2. <<k, d, n>> \notin vanished
    BY <1>8, <1>13, <2>1 DEF WorkInv, AheadInv
  <2>3. <<k, d, n>> \notin lost
    <3>1. SUFFICES ASSUME <<k, d, n>> \in lost PROVE FALSE
      OBVIOUS
    <3>2. d = c /\ k \in ks /\ n = server[c][k] + 1
      BY <1>4, <3>1
    <3>3. QED
      BY <1>8, <1>13, <2>1, <3>2
  <2>4. QED
    BY <1>5, <2>2, <2>3
<1>14. LackInv' /\ AheadInv'
  BY <1>12, <1>13 DEF LackInv, AheadInv
<1>15. QED
  BY <1>5, <1>8, <1>9, <1>14, ShownStays DEF WorkInv

LEMMA JobStep ==
  ASSUME WorkInv, NEW j \in jobs, JobCompletes(j)
  PROVE  WorkInv'
<1>1. j.kind \in Writes \cup {"detect"} /\ j.case \in Cases
  BY DEF WorkInv, ViewTypes
<1>2. PICK ks \in Endings(j.kind) :
        /\ server' = Advanced(ks, j.case)
        /\ halted' = (halted \ {KeyOf(k, j.case) : k \in ks}) \cup {KeyOf(k, j.case) : k \in Replaces(j.kind) \ ks}
  BY DEF JobCompletes
<1>3. UNCHANGED <<vanished, route, answers, fetching, writing, layerStore, own>> /\ jobs' = jobs \ {j}
  BY DEF JobCompletes
<1>4. ks \in SUBSET Kinds /\ Replaces(j.kind) \subseteq Kinds
  BY <1>1, StoresKinds DEF Endings
<1>5. server' \in [Cases -> [Kinds -> Nat]] /\ \A q \in Keys : server'[q[2]][q[1]] >= Held(q)
  BY <1>1, <1>2, <1>4, ServerMoves DEF WorkInv
<1>6. halted' \subseteq Keys
  BY <1>1, <1>2, <1>4 DEF WorkInv, ViewTypes, Keys, KeyOf
<1>7. ViewTypes'
  BY <1>3, <1>5, <1>6 DEF WorkInv, ViewTypes
<1>8. ASSUME NEW d \in Cases, NEW k \in Kinds, ~(d = j.case /\ k \in ks), Replacing(k, d) \/ KeyOf(k, d) \in halted
      PROVE  Replacing(k, d)' \/ KeyOf(k, d) \in halted'
  <2>1. CASE KeyOf(k, d) \in halted
    <3>1. KeyOf(k, d) \notin {KeyOf(l, j.case) : l \in ks}
      BY <1>8 DEF KeyOf
    <3>2. QED
      BY <1>2, <2>1, <3>1
  <2>2. CASE Replacing(k, d)
    <3>1. PICK i \in jobs : i.case = d /\ i.cleared /\ k \in Replaces(i.kind)
      BY <2>2 DEF Replacing
    <3>2. CASE i = j
      <4>1. k \in Replaces(j.kind) \ ks /\ d = j.case
        BY <1>8, <3>1, <3>2
      <4>2. QED
        BY <1>2, <4>1
    <3>3. CASE i # j
      BY <1>3, <3>1, <3>3 DEF Replacing
    <3>4. QED
      BY <3>2, <3>3
  <2>3. QED
    BY <1>8, <2>1, <2>2
<1>9. LackInv' /\ AheadInv'
  BY <1>1, <1>2, <1>3, <1>4, <1>8, StoredMore
<1>10. QED
  BY <1>3, <1>5, <1>7, <1>9, ShownStays DEF WorkInv

LEMMA FailStep ==
  ASSUME WorkInv, NEW j \in jobs, JobFails(j)
  PROVE  WorkInv'
<1>1. j.kind \in Writes \cup {"detect"} /\ j.case \in Cases
  BY DEF WorkInv, ViewTypes
<1>2. /\ UNCHANGED <<server, vanished, route, answers, fetching, writing, layerStore, own>> /\ jobs' = jobs \ {j}
      /\ halted' = IF j.cleared THEN halted \cup {KeyOf(k, j.case) : k \in Replaces(j.kind)} ELSE halted
  BY DEF JobFails
<1>3. halted' \subseteq Keys /\ halted \subseteq halted'
  BY <1>1, <1>2, StoresKinds DEF WorkInv, ViewTypes, Keys, KeyOf
<1>4. ViewTypes'
  BY <1>2, <1>3 DEF WorkInv, ViewTypes
<1>5. ASSUME NEW k \in Kinds, NEW d \in Cases, Replacing(k, d)
      PROVE  Replacing(k, d)' \/ KeyOf(k, d) \in halted'
  <2>1. PICK i \in jobs : i.case = d /\ i.cleared /\ k \in Replaces(i.kind)
    BY <1>5 DEF Replacing
  <2>2. CASE i = j
    BY <1>2, <2>1, <2>2
  <2>3. CASE i # j
    BY <1>2, <2>1, <2>3 DEF Replacing
  <2>4. QED
    BY <2>2, <2>3
<1>6. \A k \in Kinds, d \in Cases : Available(k, d) => Available(k, d)'
  <2>1. \A k \in Kinds, d \in Cases : (Holds(k, d) => Holds(k, d)') /\ KeyOf(k, d)' = KeyOf(k, d)
    BY <1>2 DEF Holds, There, KeyOf
  <2>2. QED
    BY <1>3, <1>5, <2>1 DEF Available
<1>7. LackInv' /\ AheadInv'
  BY <1>2, <1>6 DEF WorkInv, LackInv, AheadInv
<1>8. \A q \in Keys : server'[q[2]][q[1]] >= Held(q)
  BY <1>2, HeldTyped DEF WorkInv, Held
<1>9. QED
  BY <1>2, <1>4, <1>7, <1>8, ShownStays DEF WorkInv, ViewTypes

\* A step of the browser alone.
LEMMA ServerStays ==
  ASSUME WorkInv, UNCHANGED <<server, vanished, jobs, halted>>
  PROVE  LackInv' /\ AheadInv'
<1>1. \A k, d : Available(k, d)' <=> Available(k, d)
  BY DEF Available, Holds, There, Replacing, KeyOf
<1>2. QED
  BY <1>1 DEF WorkInv, LackInv, AheadInv

LEMMA ToggleStep ==
  ASSUME WorkInv, NEW l \in DOMAIN layerStore.of, Toggle(l)
  PROVE  WorkInv'
<1>1. UNCHANGED <<server, vanished, jobs, halted, route, answers, fetching, writing, own>>
  BY DEF Toggle
<1>2. PICK s : s = layerStore
  OBVIOUS
<1>3. OneOwner(s) /\ l \in DOMAIN s.of
  BY <1>2 DEF WorkInv, LayerInv
<1>4. PICK m : m = [s.of[l] EXCEPT !.visible = ~s.of[l].visible]
  OBVIOUS
<1>5. PICK f : f = [s.of EXCEPT ![l] = m]
  OBVIOUS
<1>6. layerStore' = [s EXCEPT !.of = f]
  BY <1>2, <1>4, <1>5 DEF Toggle
<1>7. m.case = s.owner /\ m = [case |-> m.case, visible |-> m.visible]
  BY <1>3, <1>4 DEF OneOwner
<1>8. DOMAIN f = DOMAIN s.of /\ f[l] = m /\ \A n \in DOMAIN s.of : n # l => f[n] = s.of[n]
  BY <1>3, <1>5
<1>9. layerStore' = [owner |-> s.owner, of |-> f] /\ layerStore'.owner = s.owner /\ layerStore'.of = f
  BY <1>3, <1>6 DEF OneOwner
<1>10. OneOwner(layerStore)'
  <2>1. \A n \in DOMAIN f : f[n] = [case |-> f[n].case, visible |-> f[n].visible] /\ f[n].case = s.owner
    BY <1>3, <1>7, <1>8 DEF OneOwner
  <2>2. QED
    BY <1>9, <2>1 DEF OneOwner
<1>11. LayerInv'
  BY <1>1, <1>2, <1>8, <1>9, <1>10 DEF WorkInv, LayerInv, Registers, Shows, There, Known
<1>12. ViewTypes' /\ AnswerInv' /\ FetchInv' /\ OwnInv'
  BY <1>1 DEF WorkInv, ViewTypes, AnswerInv, FetchInv, OwnInv, Held, UpToDate, Known
<1>13. QED
  BY <1>1, <1>11, <1>12, ServerStays DEF WorkInv


\* Opening a case asks for what is not up to date, and draws what is known of it.
LEMMA OpenStep ==
  ASSUME WorkInv, NEW c \in Cases \cup {NoCase}, OpenCase(c)
  PROVE  WorkInv'
<1>1. route' = c /\ UNCHANGED <<server, vanished, jobs, halted, answers, writing, own>>
  BY DEF OpenCase
<1>2. PICK qs : qs = {q \in Observed(c) : ~UpToDate(q) /\ q \notin DOMAIN fetching}
  OBVIOUS
<1>3. qs \subseteq Keys /\ (\A q \in qs : ~UpToDate(q) /\ q \notin DOMAIN fetching)
  BY <1>2, ObservedKeys
<1>4. fetching' = Ask(qs)
  BY <1>2 DEF OpenCase
<1>5. /\ DOMAIN fetching' = qs \cup DOMAIN fetching
      /\ \A q \in qs : fetching'[q] = Held(q)
      /\ \A q \in DOMAIN fetching : q \notin qs => fetching'[q] = fetching[q]
  BY <1>4, Asking
<1>6. DOMAIN fetching' \subseteq Keys /\ \A q \in DOMAIN fetching' : fetching'[q] \in Nat
  BY <1>3, <1>5, HeldTyped DEF WorkInv, ViewTypes
<1>7. ViewTypes'
  BY <1>1, <1>6 DEF WorkInv, ViewTypes
<1>8. LayerInv'
  <2>1. PICK s : s = layerStore
    OBVIOUS
  <2>2. PICK ls : ls = Registered(c, Kinds)
    OBVIOUS
  <2>3. OneOwner(s)
    BY <2>1 DEF WorkInv, LayerInv
  <2>4. layerStore' = IF c = NoCase THEN s ELSE AddLayers(s, c, ls)
    BY <2>1, <2>2 DEF OpenCase
  <2>5. OneOwner(AddLayers(s, c, ls))
    BY <2>3, LayersAdded
  <2>6. PICK t : t = layerStore'
    OBVIOUS
  <2>7. OneOwner(t)
    BY <2>3, <2>4, <2>5, <2>6
  <2>8. ASSUME NEW k \in Kinds, Shows(k, c) PROVE Registers(t, c, k)
    <3>1. LayersFrom(k) \subseteq ls
      BY <2>2, <2>8 DEF Registered
    <3>2. ASSUME c # NoCase, LayersFrom(k) # {} PROVE t.owner = c /\ LayersFrom(k) \subseteq DOMAIN t.of
      <4>1. ls # {} /\ t = AddLayers(s, c, ls)
        BY <2>4, <2>6, <3>1, <3>2
      <4>2. AddLayers(s, c, ls).owner = c /\ ls \subseteq DOMAIN AddLayers(s, c, ls).of
        BY <2>3, <4>1, LayersAdded
      <4>3. QED
        BY <3>1, <4>1, <4>2
    <3>3. QED
      BY <3>2 DEF Registers
  <2>9. \A k \in Kinds : Shows(k, route)' <=> Shows(k, c)
    BY <1>1 DEF Shows, There, Known
  <2>10. QED
    BY <1>1, <2>6, <2>7, <2>8, <2>9 DEF LayerInv, OneOwner, Registers
<1>9. AnswerInv'
  BY <1>1 DEF WorkInv, AnswerInv, Held
<1>10. FetchInv'
  BY <1>1, <1>3, <1>5 DEF WorkInv, FetchInv, UpToDate, Known
<1>11. OwnInv'
  <2>1. ASSUME NEW q \in DOMAIN own, q \in DOMAIN fetching' PROVE fetching'[q] >= own[q]
    <3>1. q \in Keys /\ own[q] \in Nat /\ own[q] <= Held(q) /\ Held(q) \in Nat
      BY HeldTyped DEF WorkInv, ViewTypes, OwnInv
    <3>2. CASE q \in qs
      BY <1>5, <3>1, <3>2
    <3>3. CASE q \notin qs
      BY <1>5, <2>1, <3>3 DEF WorkInv, OwnInv
    <3>4. QED
      BY <3>2, <3>3
  <2>2. QED
    BY <1>1, <2>1 DEF WorkInv, OwnInv, Held, UpToDate, Known
<1>12. QED
  BY <1>1, <1>7, <1>8, <1>9, <1>10, <1>11, ServerStays DEF WorkInv

\* An answer is not behind what its fetch was sent for, and brings the layers it needs.
LEMMA AnswerStep ==
  ASSUME WorkInv, NEW q \in DOMAIN fetching, AnswerArrives(q)
  PROVE  WorkInv'
<1>1. q \in Keys /\ fetching[q] \in Nat /\ Held(q) \in Nat
  BY HeldTyped DEF WorkInv, ViewTypes
<1>2. PICK value \in fetching[q] .. Held(q) :
        /\ answers' = Over([p \in {q} |-> [value |-> value, stale |-> FALSE]], answers)
        /\ fetching' = Without(fetching, q)
        /\ layerStore' = IF q \in Observed(route) /\ (~Known(q) \/ answers[q].value # value) /\ There(q[1], q[2], value)
                           THEN AddLayers(layerStore, route, LayersFrom(q[1])) ELSE layerStore
        /\ UNCHANGED <<server, vanished, jobs, halted, route, writing, own, toDo>>
  BY DEF AnswerArrives, Held
<1>3. value \in Nat /\ value >= fetching[q] /\ value <= Held(q)
  BY <1>1, <1>2
<1>4. PICK v : v = [value |-> value, stale |-> FALSE]
  OBVIOUS
<1>5. v \in Values /\ v.value = value /\ v.stale = FALSE
  BY <1>3, <1>4 DEF Values
<1>6. /\ DOMAIN answers' = {q} \cup DOMAIN answers
      /\ answers'[q] = v
      /\ \A p \in DOMAIN answers : p # q => answers'[p] = answers[p]
  <2>1. PICK f : f = Over([p \in {q} |-> v], answers)
    OBVIOUS
  <2>2. answers' = f
    BY <1>2, <1>4, <2>1
  <2>3. /\ DOMAIN f = {q} \cup DOMAIN answers
        /\ f[q] = v
        /\ \A p \in DOMAIN answers : p # q => f[p] = answers[p]
    <3>1. PICK h : h = [p \in {q} |-> v]
      OBVIOUS
    <3>2. DOMAIN h = {q} /\ h[q] = v /\ f = Over(h, answers)
      BY <2>1, <3>1
    <3>3. /\ DOMAIN Over(h, answers) = DOMAIN h \cup DOMAIN answers
          /\ \A x \in DOMAIN h : Over(h, answers)[x] = h[x]
          /\ \A x \in DOMAIN answers : x \notin DOMAIN h => Over(h, answers)[x] = answers[x]
      BY Merged
    <3>4. QED
      BY <3>2, <3>3
  <2>4. QED
    BY <2>2, <2>3
<1>7. /\ DOMAIN fetching' = DOMAIN fetching \ {q}
      /\ \A p \in DOMAIN fetching : p # q => fetching'[p] = fetching[p]
  BY <1>2, Dropped
<1>8. ViewTypes'
  <2>1. DOMAIN answers' \subseteq Keys /\ \A p \in DOMAIN answers' : answers'[p] \in Values
    BY <1>1, <1>5, <1>6 DEF WorkInv, ViewTypes
  <2>2. DOMAIN fetching' \subseteq Keys /\ \A p \in DOMAIN fetching' : fetching'[p] \in Nat
    BY <1>7 DEF WorkInv, ViewTypes
  <2>3. QED
    BY <1>2, <2>1, <2>2 DEF WorkInv, ViewTypes
<1>9. LayerInv'
  <2>1. PICK s : s = layerStore
    OBVIOUS
  <2>2. PICK t : t = layerStore'
    OBVIOUS
  <2>3. PICK ls : ls = LayersFrom(q[1])
    OBVIOUS
  <2>4. OneOwner(s) /\ \A k \in Kinds : Shows(k, route) => Registers(s, route, k)
    BY <2>1 DEF WorkInv, LayerInv
  <2>5. t = s \/ t = AddLayers(s, route, ls)
    BY <1>2, <2>1, <2>2, <2>3
  <2>6. OneOwner(t)
    BY <2>4, <2>5, LayersAdded
  <2>7. ASSUME NEW k \in Kinds, Shows(k, route)', route # NoCase, LayersFrom(k) # {}
        PROVE  t.owner = route /\ LayersFrom(k) \subseteq DOMAIN t.of
    <3>1. PICK p : p = KeyOf(k, route)
      OBVIOUS
    <3>2. p \in Observed(route) /\ p[1] = k
      BY <2>7, <3>1, ObservedKeys DEF WorkInv, ViewTypes, KeyOf
    <3>3. CASE Shows(k, route)
      <4>1. s.owner = route /\ LayersFrom(k) \subseteq DOMAIN s.of
        BY <2>4, <2>7, <3>3 DEF Registers
      <4>2. AddLayers(s, route, ls).owner = route
            /\ DOMAIN s.of \subseteq DOMAIN AddLayers(s, route, ls).of
        BY <2>4, <4>1, LayersAdded
      <4>3. QED
        BY <2>5, <4>1, <4>2
    <3>4. CASE ~(Shows(k, route))
      <4>1. Shows(k, route)' <=> p \in DOMAIN answers' /\ There(k, route, answers'[p].value)
        BY <1>2, <3>1 DEF Shows, There, Known, KeyOf
      <4>2. Shows(k, route) <=> p \in DOMAIN answers /\ There(k, route, answers[p].value)
        BY <3>1 DEF Shows, Known
      <4>3. p = q
        BY <1>6, <2>7, <3>4, <4>1, <4>2
      <4>4. There(q[1], q[2], value)
        BY <1>5, <1>6, <2>7, <3>1, <4>1, <4>3 DEF KeyOf
      <4>5. ~Known(q) \/ answers[q].value # value
        BY <3>1, <3>4, <4>2, <4>3, <4>4 DEF Known, KeyOf
      <4>6. t = AddLayers(s, route, ls) /\ ls = LayersFrom(k)
        BY <1>2, <2>1, <2>2, <2>3, <3>2, <4>3, <4>4, <4>5
      <4>7. AddLayers(s, route, ls).owner = route /\ ls \subseteq DOMAIN AddLayers(s, route, ls).of
        BY <2>4, <2>7, <4>6, LayersAdded
      <4>8. QED
        BY <4>6, <4>7
    <3>5. QED
      BY <3>3, <3>4
  <2>8. QED
    BY <1>2, <2>2, <2>6, <2>7 DEF LayerInv, OneOwner, Registers
<1>10. AnswerInv'
  BY <1>2, <1>3, <1>5, <1>6 DEF WorkInv, AnswerInv, Held
<1>11. FetchInv'
  BY <1>6, <1>7 DEF WorkInv, FetchInv, UpToDate, Known
<1>12. OwnInv'
  <2>1. ASSUME NEW p \in DOMAIN own
        PROVE  /\ own[p] <= Held(p)
               /\ p \in DOMAIN fetching' => fetching'[p] >= own[p]
               /\ p \in DOMAIN answers' /\ ~answers'[p].stale => answers'[p].value >= own[p]
    <3>1. own[p] <= Held(p) /\ own[p] \in Nat
      BY DEF WorkInv, ViewTypes, OwnInv
    <3>2. p \in DOMAIN fetching' => fetching'[p] >= own[p]
      BY <1>7 DEF WorkInv, OwnInv
    <3>3. CASE p = q
      <4>1. fetching[q] >= own[q]
        BY <3>3 DEF WorkInv, OwnInv
      <4>2. value >= own[q]
        BY <1>1, <1>3, <3>1, <3>3, <4>1
      <4>3. QED
        BY <1>5, <1>6, <3>1, <3>2, <3>3, <4>2
    <3>4. CASE p # q
      BY <1>6, <3>1, <3>2, <3>4 DEF WorkInv, OwnInv, UpToDate, Known
    <3>5. QED
      BY <3>3, <3>4
  <2>2. QED
    BY <1>2, <2>1 DEF OwnInv, UpToDate, Known, Held
<1>13. QED
  BY <1>2, <1>8, <1>9, <1>10, <1>11, <1>12, ServerStays DEF WorkInv

LEMMA LostStep ==
  ASSUME WorkInv, NEW q \in DOMAIN fetching, AnswerLost(q)
  PROVE  WorkInv'
<1>1. UNCHANGED <<server, vanished, jobs, halted, route, answers, writing, layerStore, own>>
      /\ fetching' = Without(fetching, q)
  BY DEF AnswerLost
<1>2. /\ DOMAIN fetching' = DOMAIN fetching \ {q}
      /\ \A p \in DOMAIN fetching : p # q => fetching'[p] = fetching[p]
  BY <1>1, Dropped
<1>3. ViewTypes'
  BY <1>1, <1>2 DEF WorkInv, ViewTypes
<1>4. LayerInv'
  BY <1>1 DEF WorkInv, LayerInv, OneOwner, Registers, Shows, There, Known
<1>5. AnswerInv' /\ FetchInv' /\ OwnInv'
  BY <1>1, <1>2 DEF WorkInv, AnswerInv, FetchInv, OwnInv, Held, UpToDate, Known
<1>6. QED
  BY <1>1, <1>3, <1>4, <1>5, ServerStays DEF WorkInv

\* An answer that is marked stale keeps its value.
LEMMA Marked ==
  ASSUME WorkInv, UNCHANGED <<server, vanished, route, layerStore>>,
         DOMAIN answers' = DOMAIN answers,
         \A q \in DOMAIN answers : /\ answers'[q] \in Values
                                   /\ answers'[q].value = answers[q].value
                                   /\ answers[q].stale => answers'[q].stale
  PROVE  LayerInv' /\ AnswerInv' /\ (\A q : UpToDate(q)' => UpToDate(q))
<1>1. \A k \in Kinds : Shows(k, route)' <=> Shows(k, route)
  BY DEF Shows, There, Known, KeyOf
<1>2. LayerInv'
  BY <1>1 DEF WorkInv, LayerInv, OneOwner, Registers
<1>3. AnswerInv'
  BY DEF WorkInv, AnswerInv, Held
<1>4. QED
  BY <1>2, <1>3 DEF UpToDate, Known

LEMMA AgesStep ==
  ASSUME WorkInv, NEW q \in DOMAIN answers, Ages(q)
  PROVE  WorkInv'
<1>1. PICK v : v = [answers[q] EXCEPT !.stale = TRUE]
  OBVIOUS
<1>2. answers' = [answers EXCEPT ![q] = v] /\ UNCHANGED <<server, vanished, jobs, halted, route, fetching, writing, layerStore, own>>
  BY <1>1 DEF Ages
<1>3. answers[q] \in Values
  BY DEF WorkInv, ViewTypes
<1>4. v \in Values /\ v.value = answers[q].value /\ v.stale = TRUE
  BY <1>1, <1>3 DEF Values
<1>5. DOMAIN answers' = DOMAIN answers /\ answers'[q] = v
      /\ \A p \in DOMAIN answers : p # q => answers'[p] = answers[p]
  BY <1>2
<1>6. \A p \in DOMAIN answers : /\ answers'[p] \in Values
                                /\ answers'[p].value = answers[p].value
                                /\ answers[p].stale => answers'[p].stale
  BY <1>3, <1>4, <1>5 DEF WorkInv, ViewTypes
<1>7. LayerInv' /\ AnswerInv' /\ \A p : UpToDate(p)' => UpToDate(p)
  BY <1>2, <1>5, <1>6, Marked
<1>8. ViewTypes'
  BY <1>2, <1>5, <1>6 DEF WorkInv, ViewTypes
<1>9. FetchInv'
  BY <1>2, <1>7 DEF WorkInv, FetchInv
<1>10. OwnInv'
  BY <1>2, <1>6, <1>7 DEF WorkInv, OwnInv, UpToDate, Known, Held
<1>11. QED
  BY <1>2, <1>7, <1>8, <1>9, <1>10, ServerStays DEF WorkInv

\* The analyst's own direct write invalidates all it stores, and what of that is shown is
\* asked again at once: an older fetch cannot clear the mark.
LEMMA WrittenStep ==
  ASSUME WorkInv, Written
  PROVE  WorkInv'
<1>1. PICK w \in Writes, c \in Cases : writing.kind = w /\ writing.case = c
  BY DEF WorkInv, ViewTypes, Written
<1>2. PICK qs : qs = {KeyOf(k, c) : k \in Invalidated(w)}
  OBVIOUS
<1>3. PICK ks : ks = {KeyOf(k, c) : k \in Stores(w)}
  OBVIOUS
<1>4. UNCHANGED <<server, vanished, jobs, halted, route, layerStore, toDo>> /\ writing' = NoWrite
  BY DEF Written
<1>5. qs \subseteq Keys /\ ks \subseteq Keys
  BY <1>2, <1>3 DEF Invalidated, Stores, KeyOf, Keys, Kinds, Writes
<1>6. answers' = [q \in DOMAIN answers |-> IF q \in qs THEN [answers[q] EXCEPT !.stale = TRUE]
                                                        ELSE answers[q]]
  BY <1>1, <1>2 DEF Written
<1>7. DOMAIN answers' = DOMAIN answers
      /\ \A q \in DOMAIN answers : /\ answers'[q] \in Values
                                   /\ answers'[q].value = answers[q].value
                                   /\ answers[q].stale => answers'[q].stale
                                   /\ q \in qs => answers'[q].stale
  <2>1. ASSUME NEW q \in DOMAIN answers
        PROVE  /\ answers'[q] \in Values
               /\ answers'[q].value = answers[q].value
               /\ answers[q].stale => answers'[q].stale
               /\ q \in qs => answers'[q].stale
    <3>1. PICK a \in Values : a = answers[q]
      BY DEF WorkInv, ViewTypes
    <3>2. answers'[q] = IF q \in qs THEN [a EXCEPT !.stale = TRUE] ELSE a
      BY <1>6, <3>1
    <3>3. QED
      BY <3>1, <3>2 DEF Values
  <2>2. QED
    BY <1>6, <2>1
<1>8. LayerInv' /\ AnswerInv' /\ \A q : UpToDate(q)' => UpToDate(q)
  BY <1>4, <1>7, Marked
<1>9. \A q \in qs : ~UpToDate(q)'
  BY <1>7 DEF UpToDate, Known
<1>10. PICK as : as = qs \cap Observed(route)
  OBVIOUS
<1>11. fetching' = Ask(as)
  BY <1>1, <1>2, <1>10 DEF Written
<1>12. /\ DOMAIN fetching' = as \cup DOMAIN fetching
       /\ \A q \in as : fetching'[q] = Held(q)
       /\ \A q \in DOMAIN fetching : q \notin as => fetching'[q] = fetching[q]
  BY <1>11, Asking
<1>13. PICK f : f = [q \in ks |-> Held(q)]
  OBVIOUS
<1>14. own' = IF Direct(w) /\ c = route THEN Over(f, own) ELSE own
  <2>1. f = [q \in ks |-> server[q[2]][q[1]]]
    BY <1>13 DEF Held
  <2>2. QED
    BY <1>1, <1>3, <2>1 DEF Written
<1>15. DOMAIN f = ks /\ \A q \in ks : f[q] = Held(q)
  BY <1>13
<1>16. DOMAIN Over(f, own) = ks \cup DOMAIN own
       /\ (\A q \in ks : Over(f, own)[q] = Held(q))
       /\ \A q \in DOMAIN own : q \notin ks => Over(f, own)[q] = own[q]
  <2>1. /\ DOMAIN Over(f, own) = DOMAIN f \cup DOMAIN own
        /\ \A x \in DOMAIN f : Over(f, own)[x] = f[x]
        /\ \A x \in DOMAIN own : x \notin DOMAIN f => Over(f, own)[x] = own[x]
    BY Merged
  <2>2. QED
    BY <1>15, <2>1
<1>17. DOMAIN own' \subseteq Keys /\ \A q \in DOMAIN own' : own'[q] \in Nat
  BY <1>5, <1>14, <1>16, HeldTyped DEF WorkInv, ViewTypes
<1>18. DOMAIN fetching' \subseteq Keys /\ \A q \in DOMAIN fetching' : fetching'[q] \in Nat
  BY <1>5, <1>10, <1>12, HeldTyped DEF WorkInv, ViewTypes
<1>19. NoWrite \in [kind : Writes \cup {"none"}, case : Cases \cup {NoCase}]
  BY DEF NoWrite
<1>20. ViewTypes'
  BY <1>4, <1>7, <1>17, <1>18, <1>19 DEF WorkInv, ViewTypes
<1>21. FetchInv'
  BY <1>8, <1>9, <1>10, <1>12 DEF WorkInv, FetchInv
<1>22. OwnInv'
  <2>1. ASSUME NEW q \in DOMAIN own', q \in DOMAIN own, own'[q] = own[q]
        PROVE  /\ own'[q] <= Held(q)
               /\ q \in DOMAIN fetching' => fetching'[q] >= own'[q]
               /\ UpToDate(q)' => answers'[q].value >= own'[q]
    <3>1. own[q] <= Held(q) /\ own[q] \in Nat /\ Held(q) \in Nat
      BY <2>1, HeldTyped DEF WorkInv, ViewTypes, OwnInv
    <3>2. q \in DOMAIN fetching' => fetching'[q] >= own[q]
      BY <1>12, <2>1, <3>1 DEF WorkInv, OwnInv
    <3>3. UpToDate(q)' => answers'[q].value >= own[q]
      BY <1>7, <1>8, <2>1 DEF WorkInv, OwnInv, UpToDate, Known
    <3>4. QED
      BY <2>1, <3>1, <3>2, <3>3
  <2>2. ASSUME NEW q \in DOMAIN own', Direct(w), c = route, q \in ks
        PROVE  /\ own'[q] <= Held(q)
               /\ q \in DOMAIN fetching' => fetching'[q] >= own'[q]
               /\ UpToDate(q)' => answers'[q].value >= own'[q]
    <3>1. own'[q] = Held(q) /\ Held(q) \in Nat
      BY <1>5, <1>14, <1>16, <2>2, HeldTyped DEF WorkInv
    <3>2. q \in qs
      <4>1. Stores(w) \subseteq Invalidated(w)
        BY <2>2 DEF Direct, Stores, Invalidated
      <4>2. QED
        BY <1>2, <1>3, <2>2, <4>1
    <3>3. q \in as
      <4>1. route \in Cases \cup {NoCase} /\ c = route /\ c # NoCase
        BY <2>2, WorkspaceAssumption
      <4>2. q \in Keys /\ q[2] = route
        BY <1>2, <1>5, <2>2, <3>2 DEF KeyOf
      <4>3. QED
        BY <1>10, <3>2, <4>1, <4>2, ObservedKeys
    <3>4. fetching'[q] = Held(q)
      BY <1>12, <3>3
    <3>5. QED
      BY <1>9, <3>1, <3>2, <3>4
  <2>3. ASSUME NEW q \in DOMAIN own'
        PROVE  (q \in DOMAIN own /\ own'[q] = own[q]) \/ (Direct(w) /\ c = route /\ q \in ks)
    BY <1>14, <1>16
  <2>4. \A q \in DOMAIN own' : /\ own'[q] <= Held(q)
                               /\ q \in DOMAIN fetching' => fetching'[q] >= own'[q]
                               /\ UpToDate(q)' => answers'[q].value >= own'[q]
    BY <2>1, <2>2, <2>3
  <2>5. QED
    BY <1>4, <2>4 DEF OwnInv, Held
<1>23. QED
  BY <1>4, <1>8, <1>20, <1>21, <1>22, ServerStays DEF WorkInv

LEMMA NoStep ==
  ASSUME WorkInv, UNCHANGED workspaceVars
  PROVE  WorkInv'
<1>1. UNCHANGED <<server, vanished, jobs, halted, route, answers, fetching, writing, layerStore, own>>
  BY DEF workspaceVars
<1>2. ViewTypes'
  BY <1>1 DEF WorkInv, ViewTypes
<1>3. LayerInv'
  BY <1>1 DEF WorkInv, LayerInv, OneOwner, Registers, Shows, There, Known
<1>4. AnswerInv' /\ FetchInv' /\ OwnInv'
  BY <1>1 DEF WorkInv, AnswerInv, FetchInv, OwnInv, Held, UpToDate, Known
<1>5. QED
  BY <1>1, <1>2, <1>3, <1>4, ServerStays DEF WorkInv

LEMMA WorkStep ==
  ASSUME WorkInv, [WorkspaceNext]_workspaceVars
  PROVE  WorkInv'
<1>1. ASSUME NEW c \in Cases \cup {NoCase}, OpenCase(c) PROVE WorkInv'
  BY <1>1, OpenStep
<1>2. ASSUME NEW q \in DOMAIN fetching, AnswerArrives(q) PROVE WorkInv'
  BY <1>2, AnswerStep
<1>3. ASSUME NEW q \in DOMAIN fetching, AnswerLost(q) PROVE WorkInv'
  BY <1>3, LostStep
<1>4. ASSUME NEW q \in DOMAIN answers, Ages(q) PROVE WorkInv'
  BY <1>4, AgesStep
<1>5. ASSUME NEW l \in DOMAIN layerStore.of, Toggle(l) PROVE WorkInv'
  BY <1>5, ToggleStep
<1>6. ASSUME NEW w \in Writes, Write(w) PROVE WorkInv'
  BY <1>6, WriteStep
<1>7. CASE Written
  BY <1>7, WrittenStep
<1>8. ASSUME NEW j \in jobs, JobCompletes(j) PROVE WorkInv'
  BY <1>8, JobStep
<1>9. ASSUME NEW j \in jobs, JobClears(j) PROVE WorkInv'
  BY <1>9, ClearStep
<1>10. ASSUME NEW j \in jobs, JobFails(j) PROVE WorkInv'
  BY <1>10, FailStep
<1>11. ASSUME NEW c \in Cases, DetectAgain(c) PROVE WorkInv'
  BY <1>11, DetectAgainStep
<1>12. CASE UNCHANGED workspaceVars
  BY <1>12, NoStep
<1>13. QED
  BY <1>1, <1>2, <1>3, <1>4, <1>5, <1>6, <1>7, <1>8, <1>9, <1>10, <1>11, <1>12 DEF WorkspaceNext

-----------------------------------------------------------------------------
(* Workspace: what the analyst sees *)

LEMMA OneCase == WorkInv => LayersAreOfOneCase
<1> SUFFICES ASSUME WorkInv PROVE LayersAreOfOneCase
  OBVIOUS
<1>1. \A l \in DOMAIN layerStore.of : layerStore.of[l].case = layerStore.owner
  BY DEF WorkInv, LayerInv, OneOwner
<1>2. ASSUME NEW k \in Kinds, route # NoCase, Shows(k, route), LayersFrom(k) # {}
      PROVE  layerStore.owner = route /\ LayersFrom(k) \subseteq DOMAIN layerStore.of
  BY <1>2 DEF WorkInv, LayerInv, Registers
<1>3. QED
  BY <1>1, <1>2 DEF LayersAreOfOneCase

\* The first of four.
LEMMA First ==
  ASSUME NEW open, open \subseteq 1 .. 4, open # {}
  PROVE  /\ (CHOOSE n \in open : \A m \in open : n <= m) \in open
         /\ \A m \in open : (CHOOSE n \in open : \A m1 \in open : n <= m1) <= m
<1>1. \E n \in open : \A m \in open : n <= m
  <2>1. CASE 1 \in open
    BY <2>1
  <2>2. CASE 1 \notin open /\ 2 \in open
    <3>1. \A m \in open : 2 <= m
      BY <2>2
    <3>2. QED
      BY <2>2, <3>1
  <2>3. CASE 1 \notin open /\ 2 \notin open /\ 3 \in open
    <3>1. \A m \in open : 3 <= m
      BY <2>3
    <3>2. QED
      BY <2>3, <3>1
  <2>4. CASE 1 \notin open /\ 2 \notin open /\ 3 \notin open
    <3>1. \A m \in open : m = 4
      BY <2>4
    <3>2. PICK n \in open : TRUE
      OBVIOUS
    <3>3. n = 4 /\ \A m \in open : n <= m
      BY <3>1
    <3>4. QED
      BY <3>3
  <2>5. QED
    BY <2>1, <2>2, <2>3, <2>4
<1>2. QED
  BY <1>1

\* What a case is seen to have the server has, or a run that is repeated took it away.
LEMMA ShownWasStored ==
  ASSUME WorkInv, NEW c \in Cases, NEW k \in Kinds, Shows(k, c)
  PROVE  Available(k, c)
<1>1. PICK q : q = KeyOf(k, c)
  OBVIOUS
<1>2. q \in DOMAIN answers /\ answers[q].value > 0 /\ q[1] = k /\ q[2] = c
  BY <1>1 DEF Shows, There, Known, KeyOf
<1>3. answers[q].value \in Nat /\ answers[q].value <= Held(q)
  BY <1>2 DEF WorkInv, ViewTypes, Values, AnswerInv
<1>4. Held(q) = server[c][k] /\ server[c][k] \in Nat
  BY <1>2 DEF Held, WorkInv, ViewTypes
<1>5. server[c][k] > 0
  BY <1>2, <1>3, <1>4
<1>6. QED
  BY <1>5 DEF WorkInv, LackInv

LEMMA Possible == WorkInv => NextStepIsPossible
<1> SUFFICES ASSUME WorkInv, NEW c \in Cases
             PROVE  /\ NextStep(c) = "origin"     => Available("detections", c)
                    /\ NextStep(c) = "candidates" => Available("origin", c)
  BY DEF NextStepIsPossible
<1>1. /\ DOMAIN Order = 1 .. 4
      /\ Order[1] = "scenes" /\ Order[2] = "detections" /\ Order[3] = "origin" /\ Order[4] = "candidates"
  BY DEF Order
<1>2. PICK open : open = {n \in DOMAIN Order : ~Shows(Order[n], c)}
  OBVIOUS
<1>3. NextStep(c) = IF open = {} THEN "done" ELSE Order[CHOOSE n \in open : \A m \in open : n <= m]
  BY <1>2 DEF NextStep
<1>4. CASE open = {}
  BY <1>3, <1>4
<1>5. CASE open # {}
  <2>1. open \subseteq 1 .. 4
    BY <1>1, <1>2
  <2>2. PICK n : n = CHOOSE i \in open : \A m \in open : i <= m
    OBVIOUS
  <2>3. n \in open /\ \A m \in open : n <= m
    BY <1>5, <2>1, <2>2, First
  <2>4. NextStep(c) = Order[n] /\ n \in 1 .. 4
    BY <1>3, <1>5, <2>1, <2>2, <2>3
  <2>5. \A m \in 1 .. 4 : m < n => Shows(Order[m], c)
    BY <1>1, <1>2, <2>3, <2>4
  <2>6. CASE n = 3
    <3>1. Shows("detections", c)
      BY <1>1, <2>5, <2>6
    <3>2. NextStep(c) = "origin"
      BY <1>1, <2>4, <2>6
    <3>3. QED
      BY <3>1, <3>2, ShownWasStored DEF Kinds
  <2>7. CASE n = 4
    <3>1. Shows("origin", c)
      BY <1>1, <2>5, <2>7
    <3>2. NextStep(c) = "candidates"
      BY <1>1, <2>4, <2>7
    <3>3. QED
      BY <3>1, <3>2, ShownWasStored DEF Kinds
  <2>8. CASE n \in {1, 2}
    BY <1>1, <2>4, <2>8
  <2>9. QED
    BY <2>4, <2>6, <2>7, <2>8
<1>6. QED
  BY <1>4, <1>5

-----------------------------------------------------------------------------
LEMMA WorkHolds == WorkspaceSpec => []WorkInv
<1>1. WorkInv /\ [WorkspaceNext]_workspaceVars => WorkInv'
  BY WorkStep
<1>2. QED
  BY <1>1, FirstInv, PTL DEF WorkspaceSpec

\* hooks.ts: the state of the workspace keeps its types.
THEOREM WorkspaceTypeCorrect == WorkspaceSpec => []WorkspaceTypeOK
<1>1. WorkInv => WorkspaceTypeOK
  BY DEF WorkInv, ViewTypes, WorkspaceTypeOK, Keys, Values
<1>2. QED
  BY <1>1, WorkHolds, PTL

\* WorkspacePage.tsx, hooks.ts, stores.ts: the layers are of one case and there for what
\* is known of it, the step said to be next is possible on the server, but where a run that was
\* repeated deleted what it needs and has not stored its own, and what counts as up to date is not older than the analyst's own direct write.
THEOREM WorkspaceCorrect == WorkspaceSpec => []WorkspaceIsCurrent
<1>1. WorkInv => OwnWritesAreShown
  BY DEF WorkInv, OwnInv, OwnWritesAreShown
<1>2. WorkInv => WorkspaceIsCurrent
  BY <1>1, OneCase, Possible DEF WorkspaceIsCurrent
<1>3. QED
  BY <1>2, WorkHolds, PTL

-----------------------------------------------------------------------------
(* Investigations: the inductive invariant *)

Times   == Nat \cup {Least, Least + MaxSpan}
Members == Seq([user : Accounts, role : Roles])
Doc     == [made : BOOLEAN, by : Accounts \cup {Sweeper}, members : Members, deleted : BOOLEAN,
            from : Times, to : Times, grown : Nat]
Note    == [on : Folders, author : Accounts, told : BOOLEAN, withdrawn : SUBSET Accounts]
Ops     == {"create", "from", "to", "delete", "member", "comment", "retract", "role"}
Args    == {<< >>} \cup Nat \cup (Nat \X Nat) \cup (Accounts \X Roles)
Request == [st : {"free", "admitted", "loaded", "saved"}, op : Ops \cup {"none"},
            by : Accounts, on : Folders, arg : Args, doc : Doc]

CaseTypes ==
  /\ accounts \in [Accounts -> [role : Roles, claim : Roles]]
  /\ folders \in [Folders -> Doc]
  /\ requests \in [Requests -> Request]
  /\ notes \in Seq(Note)
  /\ rooms \subseteq Accounts \X Folders \X BOOLEAN

\* A later reading of a document: what was deleted is deleted, and the list of members has
\* only grown, each of them where he was.
Later(old, new) ==
  old.made => /\ new.made /\ new.by = old.by
              /\ old.deleted => new.deleted
              /\ \A n \in DOMAIN old.members :
                   n \in DOMAIN new.members /\ new.members[n].user = old.members[n].user

\* What a request asks is of the kind its operation takes; its case is there; what it read
\* is an earlier reading of it; and what it saved has not been undone.
Asked(q) ==
  /\ q.op \in {"from", "to"} => q.arg \in Nat
  /\ q.op = "create" => q.arg \in Nat \X Nat
  /\ q.op \in {"member", "role"} => q.arg \in Accounts \X Roles
  /\ q.op = "retract" => q.arg \in DOMAIN notes
Stands(q) ==
  /\ q.op = "delete" => folders[q.on].deleted
  /\ q.op = "retract" => ~notes[q.arg].told
Sound(q) ==
  q.st # "free" => /\ q.op \in Ops
                   /\ Asked(q)
                   /\ Scoped(q.op) => folders[q.on].made
                   /\ q.st = "loaded" /\ Scoped(q.op)
                        => q.doc.made /\ Later(q.doc, folders[q.on])
                   /\ q.st = "saved" => Stands(q)
RequestInv == \A r \in Requests : Sound(requests[r])

\* An entry is of a case that is there, and says what is so.
EntryInv ==
  \A e \in trail \cup unrecorded :
    /\ e.on \in Folders
    /\ e.op = "delete" => folders[e.on].made /\ folders[e.on].deleted
    /\ e.op = "retract" => e.arg \in DOMAIN notes /\ ~notes[e.arg].told

NoteInv ==
  \A n \in DOMAIN notes : IF notes[n].told THEN notes[n].withdrawn = {}
                                           ELSE notes[n].withdrawn = {notes[n].author}

\* Who is in a room, but not as an administrator, has a part in the case.
HasPart(u, doc) ==
  doc.made /\ (doc.deleted \/ doc.by = u \/ EntriesOf(doc, u) # {})
RoomInv == \A x \in rooms : x[3] \/ HasPart(x[1], folders[x[2]])

\* Every entry of a list of members has its explanation, and every role.
Shown(f, doc) ==
  \A n \in DOMAIN doc.members :
    \/ doc.members[n] = [user |-> doc.by, role |-> "lead"]
    \/ Explained("member", f, {<<doc.members[n].user, doc.members[n].role>>})
MemberInv == \A f \in Folders : folders[f].made => Shown(f, folders[f])
RoleInv ==
  \A u \in Accounts : \/ accounts[u].role = (IF u = Chief THEN "admin" ELSE "analyst")
                      \/ \E f \in Folders : Explained("role", f, {<<u, accounts[u].role>>})

CaseInv == CaseTypes /\ RequestInv /\ EntryInv /\ NoteInv /\ RoomInv /\ MemberInv /\ RoleInv

-----------------------------------------------------------------------------
(* Investigations: what a step keeps *)

\* Documents and notes only go forward; what was done is on its way to the trail.
HistoryGrown ==
  /\ \A f \in Folders : Later(folders[f], folders'[f])
  /\ \A n \in DOMAIN notes : n \in DOMAIN notes' /\ (~notes[n].told => ~notes'[n].told)
WorkKept ==
  /\ trail \cup unrecorded \subseteq trail' \cup unrecorded'
  /\ \A r \in Requests : requests[r].st = "saved" =>
       \/ requests'[r] = requests[r]
       \/ Entry(requests[r]) \in trail' \cup unrecorded'

LEMMA LaterReading ==
  ASSUME NEW a \in Doc, NEW b \in Doc, NEW c \in Doc, Later(a, b), Later(b, c)
  PROVE  Later(a, c)
  BY DEF Later

LEMMA SameReading == \A a : Later(a, a)
  BY DEF Later

LEMMA ExplainedStays ==
  ASSUME WorkKept, NEW op, NEW f, NEW args, Explained(op, f, args)
  PROVE  Explained(op, f, args)'
<1>1. CASE \E e \in trail \cup unrecorded : e.op = op /\ e.on = f /\ e.arg \in args
  BY <1>1 DEF WorkKept, Explained
<1>2. CASE \E r \in Requests : requests[r].st = "saved" /\ requests[r].op = op
                                 /\ requests[r].on = f /\ requests[r].arg \in args
  <2>1. PICK r \in Requests : requests[r].st = "saved" /\ requests[r].op = op
                                /\ requests[r].on = f /\ requests[r].arg \in args
    BY <1>2
  <2>2. CASE requests'[r] = requests[r]
    BY <2>1, <2>2 DEF Explained
  <2>3. CASE Entry(requests[r]) \in trail' \cup unrecorded'
    <3>1. /\ Entry(requests[r]).op = op /\ Entry(requests[r]).on = f
          /\ Entry(requests[r]).arg \in args
      BY <2>1 DEF Entry
    <3>2. QED
      BY <2>3, <3>1 DEF Explained
  <2>4. QED
    BY <2>1, <2>2, <2>3 DEF WorkKept
<1>3. QED
  BY <1>1, <1>2 DEF Explained

LEMMA RoomShownStays ==
  ASSUME WorkKept, NEW f, NEW doc, Shown(f, doc)
  PROVE  Shown(f, doc)'
<1>1. ASSUME NEW n \in DOMAIN doc.members,
             Explained("member", f, {<<doc.members[n].user, doc.members[n].role>>})
      PROVE  Explained("member", f, {<<doc.members[n].user, doc.members[n].role>>})'
  BY <1>1, ExplainedStays
<1>2. QED
  BY <1>1 DEF Shown

LEMMA SoundStays ==
  ASSUME CaseTypes, folders' \in [Folders -> Doc], HistoryGrown, NEW q \in Request, Sound(q)
  PROVE  Sound(q)'
<1>1. q.on \in Folders /\ q.doc \in Doc /\ folders[q.on] \in Doc /\ folders'[q.on] \in Doc
  BY DEF Request, CaseTypes
<1>2. Later(folders[q.on], folders'[q.on])
  BY <1>1 DEF HistoryGrown
<1>3. SUFFICES ASSUME q.st # "free" PROVE Sound(q)'
  BY DEF Sound
<1>4. q.op \in Ops /\ Asked(q)
  BY <1>3 DEF Sound
<1>5. Asked(q)'
  BY <1>4 DEF Asked, HistoryGrown
<1>6. Scoped(q.op) => folders'[q.on].made
  BY <1>2, <1>3 DEF Sound, Later
<1>7. q.st = "loaded" /\ Scoped(q.op) => q.doc.made /\ Later(q.doc, folders'[q.on])
  BY <1>1, <1>2, <1>3, LaterReading DEF Sound
<1>8. q.st = "saved" => Stands(q)'
  <2>1. SUFFICES ASSUME q.st = "saved" PROVE Stands(q)'
    OBVIOUS
  <2>2. Stands(q)
    BY <1>3, <2>1 DEF Sound
  <2>3. q.op = "delete" => folders[q.on].made
    BY <1>3 DEF Sound, Scoped
  <2>4. q.op = "delete" => folders'[q.on].deleted
    BY <1>2, <2>2, <2>3 DEF Stands, Later
  <2>5. q.op = "retract" => ~notes'[q.arg].told
    BY <1>4, <2>2 DEF Stands, Asked, HistoryGrown
  <2>6. QED
    BY <2>4, <2>5 DEF Stands
<1>9. QED
  BY <1>4, <1>5, <1>6, <1>7, <1>8 DEF Sound

LEMMA RequestsMove ==
  ASSUME CaseTypes, RequestInv, folders' \in [Folders -> Doc], HistoryGrown,
         NEW r \in Requests, NEW q \in Request, BecomeRequest(r, q), Sound(q)'
  PROVE  requests' \in [Requests -> Request] /\ RequestInv'
<1>1. requests' = [requests EXCEPT ![r] = q]
  BY DEF BecomeRequest
<1>2. requests' \in [Requests -> Request]
  BY <1>1 DEF CaseTypes
<1>3. ASSUME NEW s \in Requests PROVE Sound(requests[s])'
  <2>1. CASE s = r
    <3>1. requests'[s] = q
      BY <1>1, <2>1 DEF CaseTypes
    <3>2. QED
      BY <3>1 DEF Sound, Asked, Stands
  <2>2. CASE s # r
    <3>1. PICK p \in Request : p = requests[s]
      BY DEF CaseTypes
    <3>2. requests'[s] = p
      BY <1>1, <2>2, <3>1 DEF CaseTypes
    <3>3. Sound(p)'
      BY <3>1, SoundStays DEF RequestInv
    <3>4. QED
      BY <3>2, <3>3 DEF Sound, Asked, Stands
  <2>3. QED
    BY <2>1, <2>2
<1>4. QED
  BY <1>2, <1>3 DEF RequestInv

LEMMA EntriesStay ==
  ASSUME CaseTypes, EntryInv, HistoryGrown, trail' \cup unrecorded' = trail \cup unrecorded
  PROVE  EntryInv'
<1>1. ASSUME NEW e \in trail \cup unrecorded
      PROVE  /\ e.on \in Folders
             /\ e.op = "delete" => folders'[e.on].made /\ folders'[e.on].deleted
             /\ e.op = "retract" => e.arg \in DOMAIN notes' /\ ~notes'[e.arg].told
  <2>1. e.on \in Folders
    BY DEF EntryInv
  <2>2. Later(folders[e.on], folders'[e.on])
    BY <2>1 DEF HistoryGrown
  <2>3. e.op = "delete" => folders'[e.on].made /\ folders'[e.on].deleted
    BY <2>2 DEF EntryInv, Later
  <2>4. e.op = "retract" => e.arg \in DOMAIN notes' /\ ~notes'[e.arg].told
    BY DEF EntryInv, HistoryGrown
  <2>5. QED
    BY <2>1, <2>3, <2>4
<1>2. QED
  BY <1>1 DEF EntryInv

LEMMA PartStays ==
  ASSUME NEW a, NEW b, Later(a, b), NEW u, HasPart(u, a)
  PROVE  HasPart(u, b)
<1>1. CASE EntriesOf(a, u) # {}
  <2>1. PICK n \in DOMAIN a.members : a.members[n].user = u
    BY <1>1 DEF EntriesOf
  <2>2. n \in EntriesOf(b, u)
    BY <2>1 DEF EntriesOf, Later, HasPart
  <2>3. QED
    BY <2>2 DEF HasPart, Later
<1>2. QED
  BY <1>1 DEF HasPart, Later

LEMMA RoomsStay ==
  ASSUME CaseTypes, RoomInv, HistoryGrown, rooms' = rooms
  PROVE  RoomInv'
<1>1. ASSUME NEW x \in rooms, HasPart(x[1], folders[x[2]])
      PROVE  HasPart(x[1], folders'[x[2]])
  <2>1. x[2] \in Folders
    BY DEF CaseTypes
  <2>2. Later(folders[x[2]], folders'[x[2]])
    BY <2>1 DEF HistoryGrown
  <2>3. QED
    BY <1>1, <2>2, PartStays
<1>2. QED
  BY <1>1 DEF RoomInv, HasPart, EntriesOf

LEMMA RolesStay ==
  ASSUME CaseTypes, RoleInv, WorkKept, \A u \in Accounts : accounts'[u].role = accounts[u].role
  PROVE  RoleInv'
<1>1. ASSUME NEW u \in Accounts, NEW f \in Folders, Explained("role", f, {<<u, accounts[u].role>>})
      PROVE  Explained("role", f, {<<u, accounts[u].role>>})'
  <2>1. PICK a : a = accounts[u].role
    OBVIOUS
  <2>2. Explained("role", f, {<<u, a>>})'
    BY <1>1, <2>1, ExplainedStays
  <2>3. accounts'[u].role = a
    BY <2>1
  <2>4. QED
    BY <2>2, <2>3 DEF Explained
<1>2. QED
  BY <1>1 DEF RoleInv, Explained

\* The same for a step that changes neither documents nor notes nor the trail.
LEMMA Still ==
  ASSUME folders' = folders, notes' = notes
  PROVE  HistoryGrown
  BY SameReading DEF HistoryGrown

LEMMA Working ==
  ASSUME CaseTypes, NEW r \in Requests, NEW q, BecomeRequest(r, q), requests[r].st # "saved",
         trail' \cup unrecorded' = trail \cup unrecorded
  PROVE  WorkKept
  BY DEF WorkKept, BecomeRequest, CaseTypes

LEMMA NotesAsTheyWere ==
  ASSUME NoteInv, notes' = notes
  PROVE  NoteInv'
  BY DEF NoteInv

LEMMA MembersStay ==
  ASSUME MemberInv, WorkKept, folders' = folders
  PROVE  MemberInv'
<1>1. ASSUME NEW f \in Folders, folders[f].made PROVE Shown(f, folders[f])'
  <2>1. PICK d : d = folders[f]
    OBVIOUS
  <2>2. Shown(f, d)'
    BY <1>1, <2>1, RoomShownStays DEF MemberInv
  <2>3. QED
    BY <2>1, <2>2 DEF Shown, Explained
<1>2. QED
  BY <1>1 DEF MemberInv

-----------------------------------------------------------------------------
(* Investigations: the steps *)

\* A request goes on or ends, and nothing else changes.
LEMMA QuietStep ==
  ASSUME CaseInv, NEW r \in Requests, NEW q \in Request, BecomeRequest(r, q), Sound(q)',
         requests[r].st # "saved",
         UNCHANGED <<accounts, folders, notes, trail, rooms, unrecorded>>
  PROVE  CaseInv'
<1>1. CaseTypes /\ RequestInv /\ EntryInv /\ NoteInv /\ RoomInv /\ MemberInv /\ RoleInv
  BY DEF CaseInv
<1>2. HistoryGrown /\ WorkKept
  BY <1>1, Still, Working
<1>3. folders' \in [Folders -> Doc]
  BY <1>1 DEF CaseTypes
<1>4. requests' \in [Requests -> Request] /\ RequestInv'
  BY <1>1, <1>2, <1>3, RequestsMove
<1>5. CaseTypes'
  BY <1>1, <1>4 DEF CaseTypes
<1>6. EntryInv'
  BY <1>1, <1>2, EntriesStay
<1>7. RoomInv'
  BY <1>1, <1>2, RoomsStay
<1>8. MemberInv' /\ NoteInv'
  BY <1>1, <1>2, MembersStay, NotesAsTheyWere
<1>9. RoleInv'
  BY <1>1, <1>2, RolesStay
<1>10. QED
  BY <1>4, <1>5, <1>6, <1>7, <1>8, <1>9 DEF CaseInv

\* A request saves a document.
LEMMA FolderStep ==
  ASSUME CaseInv, NEW r \in Requests, NEW q \in Request, BecomeRequest(r, q),
         requests[r].st # "saved", NEW f \in Folders, NEW doc \in Doc, PutFolder(f, doc),
         Later(folders[f], doc), Sound(q)', Shown(f, doc)',
         UNCHANGED <<accounts, notes, trail, rooms, unrecorded>>
  PROVE  CaseInv'
<1>1. CaseTypes /\ RequestInv /\ EntryInv /\ NoteInv /\ RoomInv /\ MemberInv /\ RoleInv
  BY DEF CaseInv
<1>2. folders' = [folders EXCEPT ![f] = doc]
  BY DEF PutFolder
<1>3. folders' \in [Folders -> Doc] /\ folders'[f] = doc
      /\ \A g \in Folders : g # f => folders'[g] = folders[g]
  BY <1>1, <1>2 DEF CaseTypes
<1>4. HistoryGrown
  BY <1>3, SameReading DEF HistoryGrown
<1>5. WorkKept
  BY <1>1, Working
<1>6. requests' \in [Requests -> Request] /\ RequestInv'
  BY <1>1, <1>3, <1>4, RequestsMove
<1>7. CaseTypes'
  BY <1>1, <1>3, <1>6 DEF CaseTypes
<1>8. EntryInv'
  BY <1>1, <1>4, EntriesStay
<1>9. RoomInv'
  BY <1>1, <1>4, RoomsStay
<1>10. ASSUME NEW g \in Folders, folders'[g].made PROVE Shown(g, folders[g])'
  <2>1. CASE g = f
    BY <1>3, <2>1 DEF Shown, Explained
  <2>2. CASE g # f
    <3>1. PICK d : d = folders[g]
      OBVIOUS
    <3>2. Shown(g, d)'
      BY <1>1, <1>3, <1>5, <1>10, <2>2, <3>1, RoomShownStays DEF MemberInv
    <3>3. QED
      BY <1>3, <2>2, <3>1, <3>2 DEF Shown, Explained
  <2>3. QED
    BY <2>1, <2>2
<1>11. MemberInv'
  BY <1>10 DEF MemberInv
<1>12. RoleInv' /\ NoteInv'
  BY <1>1, <1>5, RolesStay, NotesAsTheyWere
<1>13. QED
  BY <1>6, <1>7, <1>8, <1>9, <1>11, <1>12 DEF CaseInv

LEMMA CaseValues ==
  /\ Unmade \in Doc /\ NoRequest \in Request /\ NoRequest.st = "free"
  /\ NoRequest.on \in Folders
  /\ \A u \in Accounts : \A a, b \in Times :
       /\ Made(u, a, b) \in Doc /\ Made(u, a, b).by = u
       /\ Made(u, a, b).members = <<[user |-> u, role |-> "lead"]>>
<1>1. Chief \in Accounts /\ Folders # {}
  BY InvestigationsAssumption
<1>2. << >> \in Members
  BY DEF Members
<1>3. Unmade \in Doc
  BY <1>1, <1>2 DEF Unmade, Doc, Times
<1>4. (CHOOSE f \in Folders : TRUE) \in Folders
  BY <1>1
<1>5. NoRequest \in Request /\ NoRequest.st = "free" /\ NoRequest.on \in Folders
  BY <1>1, <1>3, <1>4 DEF NoRequest, Request, Args
<1>6. ASSUME NEW u \in Accounts, NEW a \in Times, NEW b \in Times
      PROVE  /\ Made(u, a, b) \in Doc /\ Made(u, a, b).by = u
             /\ Made(u, a, b).members = <<[user |-> u, role |-> "lead"]>>
  <2>1. <<[user |-> u, role |-> "lead"]>> \in Members
    BY DEF Members, Roles
  <2>2. Made(u, a, b) = [Unmade EXCEPT !.made = TRUE, !.by = u, !.from = a, !.to = b,
                                      !.members = <<[user |-> u, role |-> "lead"]>>]
    BY DEF Made
  <2>3. QED
    BY <1>3, <2>1, <2>2 DEF Doc
<1>7. QED
  BY <1>3, <1>5, <1>6

LEMMA Ends ==
  ASSUME CaseInv, NEW r \in Requests, EndRequest(r), requests[r].st # "saved",
         UNCHANGED <<accounts, folders, notes, trail, rooms, unrecorded>>
  PROVE  CaseInv'
<1>1. Sound(NoRequest)'
  BY CaseValues DEF Sound
<1>2. QED
  BY <1>1, CaseValues, QuietStep DEF EndRequest

LEMMA Under ==
  ASSUME CaseInv, NEW r \in Requests
  PROVE  requests[r] \in Request /\ requests[r].on \in Folders /\ requests[r].by \in Accounts
         /\ folders[requests[r].on] \in Doc /\ Sound(requests[r])
  BY DEF CaseInv, CaseTypes, RequestInv, Request

LEMMA Saving ==
  ASSUME NEW p \in Request
  PROVE  LET q == [p EXCEPT !.st = "saved"]
         IN  q \in Request /\ q.st = "saved" /\ q.op = p.op /\ q.on = p.on /\ q.arg = p.arg
             /\ q.by = p.by
  BY DEF Request

LEMMA ArgumentsTyped ==
  ASSUME CaseTypes, NEW op \in Ops, NEW a \in Arguments(op)
  PROVE  /\ a \in Args
         /\ op \in {"from", "to"} => a \in Nat
         /\ op = "create" => a \in Nat \X Nat
         /\ op \in {"member", "role"} => a \in Accounts \X Roles
         /\ op = "retract" => a \in DOMAIN notes
<1>1. CASE op = "create"
  <2>1. Arguments(op) \subseteq Instants \X Instants
    BY <1>1 DEF Arguments
  <2>2. a \in Nat \X Nat
    BY <2>1, InvestigationsAssumption
  <2>3. QED
    BY <1>1, <2>2 DEF Args
<1>2. CASE op \in {"from", "to"}
  <2>1. Arguments(op) = Instants
    BY <1>2 DEF Arguments
  <2>2. a \in Nat
    BY <2>1, InvestigationsAssumption
  <2>3. QED
    BY <1>2, <2>2 DEF Args
<1>3. CASE op \in {"member", "role"}
  <2>1. Arguments(op) = Named \X {"viewer", "lead"} \/ Arguments(op) = Named \X Granted
    BY <1>3 DEF Arguments
  <2>2. a \in Accounts \X Roles
    <3>1. Named \subseteq Accounts /\ Granted \subseteq Roles /\ {"viewer", "lead"} \subseteq Roles
      BY InvestigationsAssumption DEF Roles
    <3>2. CASE Arguments(op) = Named \X {"viewer", "lead"}
      BY <3>1, <3>2
    <3>3. CASE Arguments(op) = Named \X Granted
      BY <3>1, <3>3
    <3>4. QED
      BY <2>1, <3>2, <3>3
  <2>3. QED
    BY <1>3, <2>2 DEF Args
<1>4. CASE op = "retract"
  <2>1. Arguments(op) = DOMAIN notes
    BY <1>4 DEF Arguments
  <2>2. a \in DOMAIN notes /\ a \in Nat
    BY <2>1 DEF CaseTypes
  <2>3. QED
    BY <1>4, <2>2 DEF Args
<1>5. CASE op \in {"delete", "comment"}
  <2>1. Arguments(op) = {0}
    BY <1>5 DEF Arguments
  <2>2. QED
    BY <1>5, <2>1 DEF Args
<1>6. QED
  BY <1>1, <1>2, <1>3, <1>4, <1>5 DEF Ops

LEMMA AdmitStep ==
  ASSUME CaseInv, NEW r \in Requests, NEW u \in Accounts, NEW op \in Ops, NEW f \in Folders,
         Admit(r, u, op, f)
  PROVE  CaseInv'
<1>1. PICK a \in Arguments(op) :
        BecomeRequest(r, [st |-> IF Scoped(op) THEN "admitted" ELSE "loaded", op |-> op,
                          by |-> u, on |-> f, arg |-> a, doc |-> Unmade])
  BY DEF Admit
<1>2. PICK st \in {"admitted", "loaded"} : st = IF Scoped(op) THEN "admitted" ELSE "loaded"
  OBVIOUS
<1>3. PICK q : q = [st |-> st, op |-> op, by |-> u, on |-> f, arg |-> a, doc |-> Unmade]
  OBVIOUS
<1>4. CaseTypes
  BY DEF CaseInv
<1>5. a \in Args /\ Unmade \in Doc
  BY <1>4, ArgumentsTyped, CaseValues
<1>6. q \in Request /\ q.st = st /\ q.op = op /\ q.on = f /\ q.arg = a
  BY <1>3, <1>5 DEF Request
<1>7. requests[r].st = "free" /\ folders' = folders /\ notes' = notes
  BY CaseValues DEF Admit
<1>8. Asked(q)'
  BY <1>4, <1>6, <1>7, ArgumentsTyped DEF Asked
<1>9. Scoped(q.op) => folders'[q.on].made /\ q.st = "admitted"
  BY <1>2, <1>6, <1>7 DEF Admit
<1>10. Sound(q)'
  BY <1>6, <1>8, <1>9 DEF Sound
<1>11. BecomeRequest(r, q)
  BY <1>1, <1>2, <1>3
<1>12. UNCHANGED <<accounts, folders, notes, trail, rooms, unrecorded>>
  BY DEF Admit
<1>13. QED
  BY <1>6, <1>7, <1>10, <1>11, <1>12, QuietStep

LEMMA LoadStep ==
  ASSUME CaseInv, NEW r \in Requests, Load(r)
  PROVE  CaseInv'
<1>1. PICK p \in Request : p = requests[r]
  BY Under
<1>2. PICK d \in Doc : d = folders[p.on]
  BY <1>1, Under
<1>3. PICK q : q = [p EXCEPT !.st = "loaded", !.doc = d]
  OBVIOUS
<1>4. q \in Request /\ q.st = "loaded" /\ q.op = p.op /\ q.on = p.on /\ q.arg = p.arg /\ q.doc = d
  BY <1>3 DEF Request
<1>5. UNCHANGED <<accounts, folders, notes, trail, rooms, unrecorded>> /\ p.st = "admitted"
  BY <1>1 DEF Load
<1>6. EndRequest(r) \/ BecomeRequest(r, q)
  BY <1>1, <1>2, <1>3 DEF Load
<1>7. Sound(p)
  BY <1>1, Under
<1>8. Asked(q)'
  BY <1>4, <1>5, <1>7 DEF Sound, Asked
<1>9. Scoped(q.op) => folders'[q.on].made /\ d.made
  BY <1>2, <1>4, <1>5, <1>7 DEF Sound
<1>10. Later(q.doc, folders'[q.on])
  BY <1>2, <1>4, <1>5, SameReading
<1>11. Sound(q)'
  BY <1>4, <1>5, <1>7, <1>8, <1>9, <1>10 DEF Sound
<1>12. QED
  BY <1>1, <1>4, <1>5, <1>6, <1>11, Ends, QuietStep

LEMMA CreateStep ==
  ASSUME CaseInv, NEW r \in Requests, Create(r)
  PROVE  CaseInv'
<1>1. PICK p \in Request : p = requests[r]
  BY Under
<1>2. p.st = "loaded" /\ p.op = "create" /\ Sound(p) /\ p.on \in Folders /\ p.by \in Accounts
  BY <1>1, Under DEF Create
<1>3. UNCHANGED <<accounts, notes, trail, rooms, unrecorded>>
  BY DEF Create
<1>4. CASE folders[p.on].made
  <2>1. EndRequest(r) /\ UNCHANGED folders
    BY <1>1, <1>4 DEF Create
  <2>2. QED
    BY <1>1, <1>2, <1>3, <2>1, Ends
<1>5. CASE ~folders[p.on].made
  <2>1. PICK q : q = [p EXCEPT !.st = "saved"]
    OBVIOUS
  <2>2. q \in Request /\ q.st = "saved" /\ q.op = "create" /\ q.on = p.on /\ q.arg = p.arg
    BY <1>2, <2>1, Saving
  <2>3. p.arg[1] \in Times /\ p.arg[2] \in Times /\ p.arg \in Nat \X Nat
    BY <1>2 DEF Sound, Asked, Times
  <2>4. PICK doc : doc = Made(p.by, p.arg[1], p.arg[2])
    OBVIOUS
  <2>5. doc \in Doc /\ doc.by = p.by /\ doc.members = <<[user |-> p.by, role |-> "lead"]>>
    BY <1>2, <2>3, <2>4, CaseValues
  <2>6. PutFolder(p.on, doc) /\ BecomeRequest(r, q)
    BY <1>1, <1>5, <2>1, <2>4 DEF Create, SaveRequest
  <2>7. Later(folders[p.on], doc)
    BY <1>5 DEF Later
  <2>8. Sound(q)'
    BY <1>3, <2>2, <2>3 DEF Sound, Asked, Stands, Scoped, Ops
  <2>9. Shown(p.on, doc)'
    <3>1. \A n \in DOMAIN doc.members : doc.members[n] = [user |-> doc.by, role |-> "lead"]
      BY <2>5
    <3>2. QED
      BY <3>1 DEF Shown
  <2>10. QED
    BY <1>1, <1>2, <1>3, <2>2, <2>5, <2>6, <2>7, <2>8, <2>9, FolderStep
<1>6. QED
  BY <1>4, <1>5

LEMMA UpdateStep ==
  ASSUME CaseInv, NEW r \in Requests, Update(r)
  PROVE  CaseInv'
<1>1. PICK p \in Request : p = requests[r]
  BY Under
<1>2. p.st = "loaded" /\ p.op \in {"from", "to", "delete"} /\ Sound(p) /\ p.on \in Folders
  BY <1>1, Under DEF Update
<1>3. PICK d \in Doc : d = folders[p.on]
  BY <1>1, Under
<1>4. UNCHANGED <<accounts, notes, trail, rooms, unrecorded>>
  BY DEF Update
<1>5. PICK q : q = [p EXCEPT !.st = "saved"]
  OBVIOUS
<1>6. q \in Request /\ q.st = "saved" /\ q.op = p.op /\ q.on = p.on /\ q.arg = p.arg
  BY <1>5, Saving
<1>7. PICK doc : doc = SavedPaths(p.on, p)
  OBVIOUS
<1>8. BecomeRequest(r, q) /\ PutFolder(p.on, doc)
  BY <1>1, <1>5, <1>7 DEF Update, SaveRequest
<1>9. doc \in Doc /\ doc.made = d.made /\ doc.by = d.by /\ doc.members = d.members
      /\ (d.deleted => doc.deleted) /\ (p.op = "delete" => doc.deleted)
  <2>1. CASE p.op = "from"
    <3>1. doc = [d EXCEPT !.from = p.arg] /\ p.arg \in Times
      BY <1>2, <1>3, <1>7, <2>1 DEF SavedPaths, Sound, Asked, Times
    <3>2. QED
      BY <2>1, <3>1 DEF Doc
  <2>2. CASE p.op = "to"
    <3>1. doc = [d EXCEPT !.to = p.arg] /\ p.arg \in Times
      BY <1>2, <1>3, <1>7, <2>2 DEF SavedPaths, Sound, Asked, Times
    <3>2. QED
      BY <2>2, <3>1 DEF Doc
  <2>3. CASE p.op = "delete"
    <3>1. doc = [d EXCEPT !.deleted = TRUE]
      BY <1>3, <1>7, <2>3 DEF SavedPaths
    <3>2. QED
      BY <3>1 DEF Doc
  <2>4. QED
    BY <1>2, <2>1, <2>2, <2>3
<1>10. Later(d, doc)
  BY <1>9 DEF Later
<1>11. d.made /\ Asked(p)
  BY <1>2, <1>3 DEF Sound, Scoped
<1>12. Sound(q)'
  <2>1. folders'[p.on] = doc
    BY <1>2, <1>8 DEF PutFolder, CaseInv, CaseTypes
  <2>2. Asked(q)'
    BY <1>4, <1>6, <1>11 DEF Asked
  <2>3. Stands(q)'
    BY <1>2, <1>6, <1>9, <2>1 DEF Stands
  <2>4. QED
    BY <1>2, <1>6, <1>9, <1>11, <2>1, <2>2, <2>3 DEF Sound, Ops
<1>13. Shown(p.on, doc)'
  <2>1. WorkKept
    BY <1>1, <1>2, <1>4, <1>8, Working DEF CaseInv
  <2>2. Shown(p.on, d)'
    BY <1>2, <1>3, <1>11, <2>1, RoomShownStays DEF CaseInv, MemberInv
  <2>3. QED
    BY <1>9, <2>2 DEF Shown
<1>14. QED
  BY <1>1, <1>2, <1>3, <1>4, <1>6, <1>8, <1>9, <1>10, <1>12, <1>13, FolderStep

\* A set of numbers that is not empty has a first one.
LEMMA Smallest ==
  ASSUME NEW S \in SUBSET Nat, S # {}
  PROVE  \E n \in S : \A m \in S : n <= m
<1>1. PICK n \in S : \A m \in S : ~ (<<m, n>> \in OpToRel(<, Nat))
  BY WFMin, NatLessThanWellFounded
<1>2. \A m \in S : ~ (m < n)
  BY <1>1 DEF OpToRel
<1>3. QED
  BY <1>2

LEMMA ElementOf ==
  ASSUME NEW S, NEW s \in Seq(S), NEW k \in DOMAIN s
  PROVE  s[k] \in S
  OBVIOUS

\* The first entry of a person who has one.
LEMMA FirstEntry ==
  ASSUME NEW doc \in Doc, NEW u, EntriesOf(doc, u) # {}
  PROVE  FirstOf(doc, u) \in DOMAIN doc.members /\ doc.members[FirstOf(doc, u)].user = u
<1>1. EntriesOf(doc, u) \in SUBSET Nat
  BY DEF EntriesOf, Doc, Members
<1>2. PICK n \in EntriesOf(doc, u) : \A m \in EntriesOf(doc, u) : n <= m
  BY <1>1, Smallest
<1>3. FirstOf(doc, u) \in EntriesOf(doc, u)
  BY <1>2 DEF FirstOf
<1>4. QED
  BY <1>3 DEF EntriesOf

LEMMA PushedDoc ==
  ASSUME NEW d \in Doc, NEW a \in Accounts \X Roles
  PROVE  /\ Pushed(d, a) \in Doc /\ Later(d, Pushed(d, a)) /\ Pushed(d, a).by = d.by
         /\ \A n \in DOMAIN Pushed(d, a).members :
              \/ n \in DOMAIN d.members /\ Pushed(d, a).members[n] = d.members[n]
              \/ Pushed(d, a).members[n] = [user |-> a[1], role |-> a[2]]
<1>1. PICK m : m = [user |-> a[1], role |-> a[2]]
  OBVIOUS
<1>2. m \in [user : Accounts, role : Roles] /\ d.members \in Seq([user : Accounts, role : Roles])
  BY <1>1 DEF Doc, Members
<1>3. PICK s : s = Append(d.members, m)
  OBVIOUS
<1>4. /\ s \in Seq([user : Accounts, role : Roles])
      /\ \A n \in DOMAIN d.members : n \in DOMAIN s /\ s[n] = d.members[n]
      /\ \A n \in DOMAIN s : n \in DOMAIN d.members \/ s[n] = m
  BY <1>2, <1>3
<1>5. Pushed(d, a) = [d EXCEPT !.grown = d.grown + 1, !.members = s]
  BY <1>1, <1>3 DEF Pushed, Doc
<1>6. PICK e : e = [d EXCEPT !.grown = d.grown + 1, !.members = s]
  OBVIOUS
<1>7. e \in Doc /\ e.members = s /\ e.by = d.by /\ e.made = d.made /\ e.deleted = d.deleted
  <2>1. d.grown + 1 \in Nat /\ s \in Members
    BY <1>4 DEF Doc, Members
  <2>2. QED
    BY <1>6, <2>1 DEF Doc
<1>8. QED
  BY <1>1, <1>4, <1>5, <1>6, <1>7 DEF Later

LEMMA ChangedDoc ==
  ASSUME NEW d \in Doc, NEW q \in Request, q.arg \in Accounts \X Roles, q.doc.made,
         EntriesOf(q.doc, q.arg[1]) # {}, Later(q.doc, d)
  PROVE  /\ Changed(d, q) \in Doc /\ Later(d, Changed(d, q)) /\ Changed(d, q).by = d.by
         /\ \A n \in DOMAIN Changed(d, q).members :
              \/ n \in DOMAIN d.members /\ Changed(d, q).members[n] = d.members[n]
              \/ Changed(d, q).members[n] = [user |-> q.arg[1], role |-> q.arg[2]]
<1>1. q.doc \in Doc
  BY DEF Request
<1>2. PICK k : k = FirstOf(q.doc, q.arg[1])
  OBVIOUS
<1>3. k \in DOMAIN q.doc.members /\ q.doc.members[k].user = q.arg[1]
  BY <1>1, <1>2, FirstEntry
<1>4. k \in DOMAIN d.members /\ d.members[k].user = q.arg[1]
  BY <1>3 DEF Later
<1>5. d.members \in Seq([user : Accounts, role : Roles])
  BY DEF Doc, Members
<1>6. PICK m : m = [d.members[k] EXCEPT !.role = q.arg[2]]
  OBVIOUS
<1>7. d.members[k] \in [user : Accounts, role : Roles]
  <2>1. k \in DOMAIN d.members
    BY <1>4
  <2>2. QED
    BY <1>5, <2>1, ElementOf
<1>8. m = [user |-> q.arg[1], role |-> q.arg[2]] /\ m \in [user : Accounts, role : Roles]
  BY <1>4, <1>6, <1>7
<1>9. PICK s : s = [d.members EXCEPT ![k] = m]
  OBVIOUS
<1>10. /\ s \in Seq([user : Accounts, role : Roles]) /\ DOMAIN s = DOMAIN d.members
       /\ s[k] = m /\ \A n \in DOMAIN d.members : n # k => s[n] = d.members[n]
  BY <1>4, <1>5, <1>8, <1>9
<1>11. Changed(d, q) = [d EXCEPT !.members = s]
  BY <1>2, <1>6, <1>9 DEF Changed
<1>12. PICK e : e = [d EXCEPT !.members = s]
  OBVIOUS
<1>13. e \in Doc /\ e.members = s /\ e.by = d.by /\ e.made = d.made /\ e.deleted = d.deleted
  BY <1>10, <1>12 DEF Doc, Members
<1>14. \A n \in DOMAIN d.members : s[n].user = d.members[n].user
  BY <1>4, <1>8, <1>10
<1>15. Later(d, e)
  BY <1>10, <1>13, <1>14 DEF Later
<1>16. QED
  BY <1>8, <1>10, <1>11, <1>12, <1>13, <1>15

\* addMember writes an entry that its own request explains until the trail does.
LEMMA MemberSaved ==
  ASSUME CaseInv, NEW r \in Requests, NEW p \in Request, p = requests[r],
         NEW d \in Doc, d = folders[p.on], p.st = "loaded", p.op = "member", d.made,
         p.arg \in Accounts \X Roles, BecomeRequest(r, [p EXCEPT !.st = "saved"]),
         NEW doc \in Doc, PutFolder(p.on, doc), Later(d, doc), doc.by = d.by,
         \A n \in DOMAIN doc.members :
           \/ n \in DOMAIN d.members /\ doc.members[n] = d.members[n]
           \/ doc.members[n] = [user |-> p.arg[1], role |-> p.arg[2]],
         UNCHANGED <<accounts, notes, trail, rooms, unrecorded>>
  PROVE  CaseInv'
<1>1. PICK q : q = [p EXCEPT !.st = "saved"]
  OBVIOUS
<1>2. q \in Request /\ q.st = "saved" /\ q.op = "member" /\ q.on = p.on /\ q.arg = p.arg
      /\ q.on \in Folders /\ BecomeRequest(r, q)
  BY <1>1, Saving, Under
<1>3. folders'[q.on] = doc /\ doc.made
  BY <1>2 DEF PutFolder, CaseInv, CaseTypes, Later
<1>4. Sound(q)'
  BY <1>2, <1>3 DEF Sound, Asked, Stands, Ops
<1>5. requests'[r] = q
  BY <1>2 DEF BecomeRequest, CaseInv, CaseTypes
<1>6. Explained("member", q.on, {q.arg})'
  BY <1>2, <1>5 DEF Explained
<1>7. WorkKept
  BY <1>2, Working DEF CaseInv
<1>8. Shown(q.on, d)'
  BY <1>2, <1>7, RoomShownStays DEF CaseInv, MemberInv
<1>9. ASSUME NEW n \in DOMAIN doc.members
       PROVE  \/ doc.members[n] = [user |-> doc.by, role |-> "lead"]
              \/ Explained("member", q.on, {<<doc.members[n].user, doc.members[n].role>>})'
  <2>1. CASE n \in DOMAIN d.members /\ doc.members[n] = d.members[n]
    BY <1>8, <2>1 DEF Shown
  <2>2. CASE doc.members[n] = [user |-> p.arg[1], role |-> p.arg[2]]
    <3>1. <<doc.members[n].user, doc.members[n].role>> = q.arg
      BY <1>2, <2>2
    <3>2. QED
      BY <1>6, <3>1
  <2>3. QED
    BY <2>1, <2>2
<1>10. Shown(q.on, doc)'
  BY <1>9 DEF Shown
<1>11. QED
  BY <1>2, <1>4, <1>10, FolderStep

LEMMA AddMemberStep ==
  ASSUME CaseInv, NEW r \in Requests, AddMember(r)
  PROVE  CaseInv'
<1>1. PICK p \in Request : p = requests[r]
  BY Under
<1>2. p.st = "loaded" /\ p.op = "member" /\ Sound(p) /\ p.on \in Folders
  BY <1>1, Under DEF AddMember
<1>3. PICK d \in Doc : d = folders[p.on]
  BY <1>1, Under
<1>4. d.made /\ p.arg \in Accounts \X Roles /\ p.doc.made /\ Later(p.doc, d)
  BY <1>2, <1>3 DEF Sound, Asked, Scoped
<1>5. UNCHANGED <<accounts, notes, trail, rooms, unrecorded>>
  BY DEF AddMember
<1>6. PICK q : q = [p EXCEPT !.st = "saved"]
  OBVIOUS
<1>7. q \in Request /\ q.st = "saved" /\ q.op = p.op /\ q.on = p.on /\ q.arg = p.arg
  BY <1>6, Saving
<1>8. EndRequest(r) \/ BecomeRequest(r, q)
  BY <1>1, <1>6 DEF AddMember, SaveRequest
<1>9. CASE EntriesOf(p.doc, p.arg[1]) = {} /\ PutFolder(p.on, Pushed(d, p.arg))
  <2>1. BecomeRequest(r, q)
    BY <1>1, <1>6, <1>9 DEF AddMember, SaveRequest, Outdated
  <2>2. PICK doc : doc = Pushed(d, p.arg)
    OBVIOUS
  <2>3. /\ doc \in Doc /\ Later(d, doc) /\ doc.by = d.by
        /\ \A n \in DOMAIN doc.members :
             \/ n \in DOMAIN d.members /\ doc.members[n] = d.members[n]
             \/ doc.members[n] = [user |-> p.arg[1], role |-> p.arg[2]]
    BY <2>2, <1>4, PushedDoc
  <2>4. PutFolder(p.on, doc)
    BY <1>9, <2>2
  <2>5. QED
    BY <1>1, <1>2, <1>3, <1>4, <1>5, <1>6, <2>1, <2>3, <2>4, MemberSaved
<1>10. CASE /\ EntriesOf(p.doc, p.arg[1]) # {} /\ ~Settled(p) /\ ~Outdated(p)
            /\ PutFolder(p.on, Changed(d, p))
  <2>1. BecomeRequest(r, q)
    BY <1>1, <1>6, <1>10 DEF AddMember, SaveRequest
  <2>2. PICK doc : doc = Changed(d, p)
    OBVIOUS
  <2>3. /\ doc \in Doc /\ Later(d, doc) /\ doc.by = d.by
        /\ \A n \in DOMAIN doc.members :
             \/ n \in DOMAIN d.members /\ doc.members[n] = d.members[n]
             \/ doc.members[n] = [user |-> p.arg[1], role |-> p.arg[2]]
    BY <2>2, <1>4, <1>10, ChangedDoc
  <2>4. PutFolder(p.on, doc)
    BY <1>10, <2>2
  <2>5. QED
    BY <1>1, <1>2, <1>3, <1>4, <1>5, <1>6, <2>1, <2>3, <2>4, MemberSaved
<1>11. CASE UNCHANGED folders
  <2>1. Sound(q)'
    BY <1>2, <1>3, <1>4, <1>5, <1>7, <1>11 DEF Sound, Asked, Stands, Ops
  <2>2. QED
    BY <1>1, <1>2, <1>5, <1>7, <1>8, <1>11, <2>1, Ends, QuietStep
<1>12. QED
  BY <1>1, <1>3, <1>9, <1>10, <1>11 DEF AddMember

\* The notes change, and with them nothing but the request.
LEMMA NoteStep ==
  ASSUME CaseInv, NEW r \in Requests, NEW q \in Request, BecomeRequest(r, q), Sound(q)',
         requests[r].st # "saved", notes' \in Seq(Note), HistoryGrown, NoteInv',
         UNCHANGED <<accounts, folders, trail, rooms, unrecorded>>
  PROVE  CaseInv'
<1>1. CaseTypes /\ RequestInv /\ EntryInv /\ NoteInv /\ RoomInv /\ MemberInv /\ RoleInv
  BY DEF CaseInv
<1>2. WorkKept
  BY <1>1, Working
<1>3. folders' \in [Folders -> Doc]
  BY <1>1 DEF CaseTypes
<1>4. requests' \in [Requests -> Request] /\ RequestInv'
  BY <1>1, <1>3, RequestsMove
<1>5. CaseTypes'
  BY <1>1, <1>4 DEF CaseTypes
<1>6. EntryInv' /\ RoomInv'
  BY <1>1, EntriesStay, RoomsStay
<1>7. MemberInv' /\ RoleInv'
  BY <1>1, <1>2, MembersStay, RolesStay
<1>8. QED
  BY <1>4, <1>5, <1>6, <1>7 DEF CaseInv

LEMMA AddCommentStep ==
  ASSUME CaseInv, NEW r \in Requests, AddComment(r)
  PROVE  CaseInv'
<1>1. PICK p \in Request : p = requests[r]
  BY Under
<1>2. p.st = "loaded" /\ p.op = "comment" /\ Sound(p) /\ p.on \in Folders /\ p.by \in Accounts
  BY <1>1, Under DEF AddComment
<1>3. notes \in Seq(Note) /\ Len(notes) + 1 \in Nat /\ Len(notes) + 1 \in Args
  BY DEF CaseInv, CaseTypes, Args
<1>4. PICK m : m = [on |-> p.on, author |-> p.by, told |-> TRUE, withdrawn |-> {}]
  OBVIOUS
<1>5. m \in Note /\ m.told = TRUE /\ m.withdrawn = {}
  BY <1>2, <1>4 DEF Note
<1>6. notes' = Append(notes, m)
  BY <1>1, <1>4 DEF AddComment
<1>7. /\ notes' \in Seq(Note)
      /\ \A n \in DOMAIN notes : n \in DOMAIN notes' /\ notes'[n] = notes[n]
      /\ \A n \in DOMAIN notes' : n \in DOMAIN notes \/ notes'[n] = m
  BY <1>3, <1>5, <1>6
<1>8. PICK q : q = [p EXCEPT !.st = "saved", !.arg = Len(notes) + 1]
  OBVIOUS
<1>9. q \in Request /\ q.st = "saved" /\ q.op = "comment" /\ q.on = p.on
  BY <1>2, <1>3, <1>8 DEF Request
<1>10. BecomeRequest(r, q) /\ UNCHANGED <<accounts, folders, trail, rooms, unrecorded>>
  BY <1>1, <1>8 DEF AddComment
<1>11. Sound(q)'
  BY <1>2, <1>9, <1>10 DEF Sound, Asked, Stands, Scoped
<1>12. HistoryGrown
  BY <1>7, <1>10, SameReading DEF HistoryGrown
<1>13. NoteInv'
  <2>1. ASSUME NEW n \in DOMAIN notes'
        PROVE  IF notes'[n].told THEN notes'[n].withdrawn = {}
                                 ELSE notes'[n].withdrawn = {notes'[n].author}
    <3>1. CASE n \in DOMAIN notes
      BY <1>7, <3>1 DEF CaseInv, NoteInv
    <3>2. CASE notes'[n] = m
      BY <1>5, <3>2
    <3>3. QED
      BY <1>7, <3>1, <3>2
  <2>2. QED
    BY <2>1 DEF NoteInv
<1>14. QED
  BY <1>1, <1>2, <1>7, <1>9, <1>10, <1>11, <1>12, <1>13, NoteStep

LEMMA RetractCommentStep ==
  ASSUME CaseInv, NEW r \in Requests, RetractComment(r)
  PROVE  CaseInv'
<1>1. PICK p \in Request : p = requests[r]
  BY Under
<1>2. p.st = "loaded" /\ p.op = "retract" /\ Sound(p) /\ p.by \in Accounts
  BY <1>1, Under DEF RetractComment
<1>3. p.arg \in DOMAIN notes
  BY <1>2 DEF Sound, Asked
<1>4. UNCHANGED <<accounts, folders, trail, rooms, unrecorded>>
  BY DEF RetractComment
<1>5. CASE EndRequest(r) /\ UNCHANGED notes
  BY <1>1, <1>2, <1>4, <1>5, Ends
<1>6. CASE /\ MayRetract(p) /\ SaveRequest(r)
           /\ notes' = [notes EXCEPT ![p.arg] = [@ EXCEPT !.told = FALSE, !.withdrawn = {p.by}]]
  <2>1. PICK q : q = [p EXCEPT !.st = "saved"]
    OBVIOUS
  <2>2. q \in Request /\ q.st = "saved" /\ q.op = p.op /\ q.on = p.on /\ q.arg = p.arg
    BY <2>1, Saving
  <2>3. BecomeRequest(r, q)
    BY <1>1, <1>6, <2>1 DEF SaveRequest
  <2>4. notes \in Seq(Note)
    BY DEF CaseInv, CaseTypes
  <2>5. PICK k : k = p.arg
    OBVIOUS
  <2>6. notes[k] \in Note /\ k \in DOMAIN notes
    BY <1>3, <2>4, <2>5, ElementOf
  <2>7. PICK m : m = [notes[k] EXCEPT !.told = FALSE, !.withdrawn = {p.by}]
    OBVIOUS
  <2>8. m \in Note /\ m.told = FALSE /\ m.withdrawn = {p.by} /\ m.author = notes[k].author
    BY <1>2, <2>6, <2>7 DEF Note
  <2>9. notes' = [notes EXCEPT ![k] = m]
    BY <1>6, <2>5, <2>7
  <2>10. /\ notes' \in Seq(Note) /\ DOMAIN notes' = DOMAIN notes /\ notes'[k] = m
         /\ \A n \in DOMAIN notes : n # k => notes'[n] = notes[n]
    BY <2>4, <2>6, <2>8, <2>9
  <2>11. HistoryGrown
    BY <1>4, <2>8, <2>10, SameReading DEF HistoryGrown
  <2>12. Sound(q)'
    BY <1>2, <1>4, <2>2, <2>5, <2>6, <2>8, <2>10 DEF Sound, Asked, Stands
  <2>13. m.withdrawn = {m.author}
    BY <1>6, <2>5, <2>8 DEF MayRetract
  <2>14. NoteInv'
    <3>1. ASSUME NEW n \in DOMAIN notes'
          PROVE  IF notes'[n].told THEN notes'[n].withdrawn = {}
                                   ELSE notes'[n].withdrawn = {notes'[n].author}
      <4>1. CASE n # k
        BY <2>10, <4>1 DEF CaseInv, NoteInv
      <4>2. CASE n = k
        BY <2>8, <2>10, <2>13, <4>2
      <4>3. QED
        BY <4>1, <4>2
    <3>2. QED
      BY <3>1 DEF NoteInv
  <2>15. QED
    BY <1>1, <1>2, <1>4, <2>2, <2>3, <2>10, <2>11, <2>12, <2>14, NoteStep
<1>7. QED
  BY <1>1, <1>5, <1>6 DEF RetractComment

\* A step of people or sockets: documents, notes and what is known of them are as before.
LEMMA PeopleStep ==
  ASSUME CaseInv, accounts' \in [Accounts -> [role : Roles, claim : Roles]],
         rooms' \subseteq Accounts \X Folders \X BOOLEAN, RoomInv', RoleInv',
         UNCHANGED <<folders, requests, notes, trail, unrecorded>>
  PROVE  CaseInv'
<1>1. CaseTypes /\ RequestInv /\ EntryInv /\ NoteInv /\ MemberInv
  BY DEF CaseInv
<1>2. CaseTypes'
  BY <1>1 DEF CaseTypes
<1>3. HistoryGrown /\ WorkKept
  BY Still DEF WorkKept
<1>4. RequestInv' /\ NoteInv'
  BY <1>1 DEF RequestInv, NoteInv, Sound, Asked, Stands
<1>5. EntryInv' /\ MemberInv'
  BY <1>1, <1>3, EntriesStay, MembersStay
<1>6. QED
  BY <1>2, <1>4, <1>5 DEF CaseInv

LEMMA SignInStep ==
  ASSUME CaseInv, NEW u \in Accounts, SignIn(u)
  PROVE  CaseInv'
<1>1. CaseTypes /\ RoomInv /\ RoleInv
  BY DEF CaseInv
<1>2. UNCHANGED <<folders, requests, notes, trail, rooms, unrecorded>>
  BY DEF SignIn
<1>3. accounts[u] \in [role : Roles, claim : Roles]
  BY <1>1 DEF CaseTypes
<1>4. PICK a : a = [accounts[u] EXCEPT !.claim = accounts[u].role]
  OBVIOUS
<1>5. a \in [role : Roles, claim : Roles] /\ a.role = accounts[u].role
  BY <1>3, <1>4
<1>6. accounts' = [accounts EXCEPT ![u] = a]
  BY <1>4 DEF SignIn
<1>7. accounts' \in [Accounts -> [role : Roles, claim : Roles]]
      /\ \A v \in Accounts : accounts'[v].role = accounts[v].role
  BY <1>1, <1>5, <1>6 DEF CaseTypes
<1>8. HistoryGrown /\ WorkKept
  BY <1>2, Still DEF WorkKept
<1>9. RoomInv' /\ RoleInv'
  BY <1>1, <1>2, <1>7, <1>8, RoomsStay, RolesStay
<1>10. QED
  BY <1>1, <1>2, <1>7, <1>9, PeopleStep DEF CaseTypes

LEMMA JoinRoomStep ==
  ASSUME CaseInv, NEW u \in Accounts, NEW f \in Folders, JoinRoom(u, f)
  PROVE  CaseInv'
<1>1. CaseTypes /\ RoomInv /\ RoleInv
  BY DEF CaseInv
<1>2. UNCHANGED <<accounts, folders, requests, notes, trail, unrecorded>>
  BY DEF JoinRoom
<1>3. PICK admin \in BOOLEAN : admin <=> accounts[u].claim = "admin"
  OBVIOUS
<1>4. rooms' = rooms \cup {<<u, f, accounts[u].claim = "admin">>}
  BY DEF JoinRoom
<1>5. rooms' = rooms \cup {<<u, f, admin>>}
  <2>1. admin = (accounts[u].claim = "admin")
    BY <1>3
  <2>2. QED
    BY <1>4, <2>1
<1>6. admin \/ HasPart(u, folders[f])
  BY <1>3 DEF JoinRoom, CanAccess, HasPart
<1>7. rooms' \subseteq Accounts \X Folders \X BOOLEAN
  BY <1>1, <1>5 DEF CaseTypes
<1>8. ASSUME NEW x \in rooms' PROVE x[3] \/ HasPart(x[1], folders[x[2]])
  <2>1. CASE x \in rooms
    BY <1>1, <2>1 DEF RoomInv
  <2>2. CASE x = <<u, f, admin>>
    BY <1>6, <2>2
  <2>3. QED
    BY <1>5, <2>1, <2>2
<1>9. RoomInv'
  BY <1>2, <1>8 DEF RoomInv, HasPart, EntriesOf
<1>10. WorkKept
  BY <1>2 DEF WorkKept
<1>11. RoleInv'
  BY <1>1, <1>2, <1>10, RolesStay
<1>12. QED
  BY <1>1, <1>2, <1>7, <1>9, <1>11, PeopleStep DEF CaseTypes

LEMMA DisconnectStep ==
  ASSUME CaseInv, NEW u \in Accounts, Disconnect(u)
  PROVE  CaseInv'
<1>1. CaseTypes /\ RoomInv /\ RoleInv
  BY DEF CaseInv
<1>2. UNCHANGED <<accounts, folders, requests, notes, trail, unrecorded>>
  BY DEF Disconnect
<1>3. rooms' \subseteq rooms
  BY DEF Disconnect
<1>4. RoomInv'
  BY <1>1, <1>2, <1>3 DEF RoomInv, HasPart, EntriesOf
<1>5. WorkKept
  BY <1>2 DEF WorkKept
<1>6. RoleInv'
  BY <1>1, <1>2, <1>5, RolesStay
<1>7. QED
  BY <1>1, <1>2, <1>3, <1>4, <1>6, PeopleStep DEF CaseTypes

\* A role is set: its explanation is the request that set it, or the entry nobody wrote.
LEMMA RoleSet ==
  ASSUME CaseTypes, RoleInv, WorkKept, NEW u \in Accounts, NEW role \in Roles,
         accounts' = [accounts EXCEPT ![u].role = role],
         NEW f \in Folders, Explained("role", f, {<<u, role>>})'
  PROVE  accounts' \in [Accounts -> [role : Roles, claim : Roles]] /\ RoleInv'
<1>1. accounts[u] \in [role : Roles, claim : Roles]
  BY DEF CaseTypes
<1>2. PICK a : a = [accounts[u] EXCEPT !.role = role]
  OBVIOUS
<1>3. a \in [role : Roles, claim : Roles] /\ a.role = role
  BY <1>1, <1>2
<1>4. accounts' = [accounts EXCEPT ![u] = a]
  BY <1>2
<1>5. /\ accounts' \in [Accounts -> [role : Roles, claim : Roles]] /\ accounts'[u].role = role
      /\ \A v \in Accounts : v # u => accounts'[v].role = accounts[v].role
  BY <1>3, <1>4 DEF CaseTypes
<1>6. ASSUME NEW v \in Accounts
      PROVE  \/ accounts'[v].role = (IF v = Chief THEN "admin" ELSE "analyst")
             \/ \E g \in Folders : Explained("role", g, {<<v, accounts[v].role>>})'
  <2>1. CASE v = u
    BY <1>5, <2>1 DEF Explained
  <2>2. CASE v # u
    <3>1. PICK b : b = accounts[v].role
      OBVIOUS
    <3>2. CASE b = (IF v = Chief THEN "admin" ELSE "analyst")
      BY <1>5, <2>2, <3>1, <3>2
    <3>3. CASE \E g \in Folders : Explained("role", g, {<<v, b>>})
      <4>1. PICK g \in Folders : Explained("role", g, {<<v, b>>})
        BY <3>3
      <4>2. Explained("role", g, {<<v, b>>})'
        BY <4>1, ExplainedStays
      <4>3. accounts'[v].role = b
        BY <1>5, <2>2, <3>1
      <4>4. QED
        BY <4>2, <4>3 DEF Explained
    <3>4. QED
      BY <3>1, <3>2, <3>3 DEF RoleInv
  <2>3. QED
    BY <2>1, <2>2
<1>7. QED
  BY <1>5, <1>6 DEF RoleInv

LEMMA SetRoleStep ==
  ASSUME CaseInv, NEW r \in Requests, SetRole(r)
  PROVE  CaseInv'
<1>1. PICK p \in Request : p = requests[r]
  BY Under
<1>2. p.st = "loaded" /\ p.op = "role" /\ Sound(p) /\ p.on \in Folders
  BY <1>1, Under DEF SetRole
<1>3. UNCHANGED <<folders, notes, trail, rooms, unrecorded>>
  BY DEF SetRole
<1>4. PICK q : q = [p EXCEPT !.st = "saved"]
  OBVIOUS
<1>5. q \in Request /\ q.st = "saved" /\ q.op = "role" /\ q.on = p.on /\ q.arg = p.arg
  BY <1>2, <1>4, Saving
<1>6. p.arg \in Accounts \X Roles
  BY <1>2 DEF Sound, Asked
<1>7. PICK u \in Accounts, role \in Roles : p.arg = <<u, role>>
  BY <1>6
<1>8. BecomeRequest(r, q)
  BY <1>1, <1>4 DEF SetRole, SaveRequest
<1>9. accounts' = [accounts EXCEPT ![u].role = role]
  BY <1>1, <1>7 DEF SetRole
<1>10. CaseTypes /\ RequestInv /\ EntryInv /\ NoteInv /\ RoomInv /\ MemberInv /\ RoleInv
  BY DEF CaseInv
<1>11. WorkKept /\ HistoryGrown
  BY <1>1, <1>2, <1>3, <1>8, <1>10, Working, Still
<1>12. requests'[r] = q
  BY <1>8, <1>10 DEF BecomeRequest, CaseTypes
<1>13. Explained("role", p.on, {<<u, role>>})'
  BY <1>5, <1>7, <1>12 DEF Explained
<1>14. accounts' \in [Accounts -> [role : Roles, claim : Roles]] /\ RoleInv'
  BY <1>2, <1>9, <1>10, <1>11, <1>13, RoleSet
<1>15. Sound(q)'
  BY <1>5, <1>6 DEF Sound, Asked, Stands, Scoped, Ops
<1>16. folders' \in [Folders -> Doc]
  BY <1>3, <1>10 DEF CaseTypes
<1>17. requests' \in [Requests -> Request] /\ RequestInv'
  BY <1>5, <1>8, <1>10, <1>11, <1>15, <1>16, RequestsMove
<1>18. CaseTypes'
  BY <1>3, <1>10, <1>14, <1>17 DEF CaseTypes
<1>19. EntryInv' /\ RoomInv' /\ MemberInv' /\ NoteInv'
  BY <1>3, <1>10, <1>11, EntriesStay, RoomsStay, MembersStay, NotesAsTheyWere
<1>20. QED
  BY <1>14, <1>17, <1>18, <1>19 DEF CaseInv

\* One more entry, in the trail or among those that are not.
LEMMA EntriesMore ==
  ASSUME CaseTypes, EntryInv, folders' = folders, notes' = notes,
         NEW e, trail' \cup unrecorded' = trail \cup unrecorded \cup {e}, e.on \in Folders,
         e.op = "delete" => folders[e.on].made /\ folders[e.on].deleted,
         e.op = "retract" => e.arg \in DOMAIN notes /\ ~notes[e.arg].told
  PROVE  EntryInv'
<1>1. ASSUME NEW d \in trail' \cup unrecorded'
      PROVE  /\ d.on \in Folders
             /\ d.op = "delete" => folders'[d.on].made /\ folders'[d.on].deleted
             /\ d.op = "retract" => d.arg \in DOMAIN notes' /\ ~notes'[d.arg].told
  <2>1. CASE d = e
    BY <2>1
  <2>2. CASE d \in trail \cup unrecorded
    BY <2>2 DEF EntryInv
  <2>3. QED
    BY <2>1, <2>2
<1>2. QED
  BY <1>1 DEF EntryInv

LEMMA RecordStep ==
  ASSUME CaseInv, NEW r \in Requests, requests[r].st = "saved", EndRequest(r),
         trail' \cup unrecorded' = trail \cup unrecorded \cup {Entry(requests[r])},
         UNCHANGED <<accounts, folders, notes, rooms>>
  PROVE  CaseInv'
<1>1. CaseTypes /\ RequestInv /\ EntryInv /\ NoteInv /\ RoomInv /\ MemberInv /\ RoleInv
  BY DEF CaseInv
<1>2. PICK p \in Request : p = requests[r]
  BY Under
<1>3. Sound(p) /\ p.st = "saved" /\ p.on \in Folders
  BY <1>2, Under
<1>4. PICK e : e = Entry(p)
  OBVIOUS
<1>5. e.op = p.op /\ e.on = p.on /\ e.arg = p.arg
  BY <1>4 DEF Entry
<1>6. EntryInv'
  <2>1. p.op = "delete" => folders[p.on].made /\ folders[p.on].deleted
    BY <1>3 DEF Sound, Stands, Scoped
  <2>2. p.op = "retract" => p.arg \in DOMAIN notes /\ ~notes[p.arg].told
    BY <1>3 DEF Sound, Stands, Asked
  <2>3. QED
    BY <1>1, <1>2, <1>3, <1>4, <1>5, <2>1, <2>2, EntriesMore
<1>7. HistoryGrown
  BY Still
<1>8. WorkKept
  <2>1. ASSUME NEW s \in Requests
        PROVE  requests'[s] = requests[s] \/ Entry(requests[s]) \in trail' \cup unrecorded'
    BY <1>1 DEF EndRequest, BecomeRequest, CaseTypes
  <2>2. QED
    BY <2>1 DEF WorkKept
<1>9. Sound(NoRequest)'
  BY CaseValues DEF Sound
<1>10. folders' \in [Folders -> Doc]
  BY <1>1 DEF CaseTypes
<1>11. requests' \in [Requests -> Request] /\ RequestInv'
  BY <1>1, <1>7, <1>9, <1>10, CaseValues, RequestsMove DEF EndRequest
<1>12. CaseTypes'
  BY <1>1, <1>11 DEF CaseTypes
<1>13. RoomInv' /\ MemberInv' /\ NoteInv' /\ RoleInv'
  BY <1>1, <1>7, <1>8, RoomsStay, MembersStay, NotesAsTheyWere, RolesStay
<1>14. QED
  BY <1>6, <1>11, <1>12, <1>13 DEF CaseInv

LEMMA GrantStep ==
  ASSUME CaseInv, NEW u \in Named, NEW role \in Granted, Grant(u, role)
  PROVE  CaseInv'
<1>1. CaseTypes /\ RequestInv /\ EntryInv /\ NoteInv /\ RoomInv /\ MemberInv /\ RoleInv
  BY DEF CaseInv
<1>2. u \in Accounts /\ role \in Roles
  BY InvestigationsAssumption
<1>3. UNCHANGED <<folders, requests, notes, trail, rooms>>
  BY DEF Grant
<1>4. PICK e : e = [op |-> "role", by |-> Chief, on |-> NoRequest.on, arg |-> <<u, role>>]
  OBVIOUS
<1>5. e.op = "role" /\ e.on = NoRequest.on /\ e.on \in Folders /\ e.arg = <<u, role>>
  BY <1>4, CaseValues
<1>6. accounts' = [accounts EXCEPT ![u].role = role] /\ unrecorded' = unrecorded \cup {e}
  BY <1>4 DEF Grant
<1>7. Explained("role", e.on, {<<u, role>>})'
  BY <1>5, <1>6 DEF Explained
<1>8. WorkKept /\ HistoryGrown
  BY <1>3, <1>6, Still DEF WorkKept
<1>9. accounts' \in [Accounts -> [role : Roles, claim : Roles]] /\ RoleInv'
  BY <1>1, <1>2, <1>5, <1>6, <1>7, <1>8, RoleSet
<1>10. EntryInv'
  <2>1. trail' \cup unrecorded' = trail \cup unrecorded \cup {e}
    BY <1>3, <1>6
  <2>2. QED
    BY <1>1, <1>3, <1>5, <2>1, EntriesMore
<1>11. CaseTypes'
  BY <1>1, <1>3, <1>9 DEF CaseTypes
<1>12. RequestInv'
  BY <1>1, <1>3 DEF RequestInv, Sound, Asked, Stands
<1>13. RoomInv' /\ MemberInv' /\ NoteInv'
  BY <1>1, <1>3, <1>8, RoomsStay, MembersStay, NotesAsTheyWere
<1>14. QED
  BY <1>9, <1>10, <1>11, <1>12, <1>13 DEF CaseInv

LEMMA OthersStep ==
  ASSUME CaseInv, UNCHANGED investigationsVars
  PROVE  CaseInv'
<1>1. CaseTypes /\ RoomInv /\ RoleInv
  BY DEF CaseInv
<1>2. UNCHANGED <<accounts, folders, requests, notes, trail, rooms, unrecorded>>
  BY DEF investigationsVars
<1>3. HistoryGrown /\ WorkKept
  BY <1>2, Still DEF WorkKept
<1>4. RoomInv' /\ RoleInv'
  BY <1>1, <1>2, <1>3, RoomsStay, RolesStay
<1>5. QED
  BY <1>1, <1>2, <1>4, PeopleStep DEF CaseTypes

-----------------------------------------------------------------------------
(* Investigations: the theorems *)

LEMMA CaseFirst == InvestigationsInit => CaseInv
<1> SUFFICES ASSUME InvestigationsInit PROVE CaseInv
  OBVIOUS
<1>1. ASSUME NEW f \in Folders
      PROVE  folders[f] \in Doc /\ Shown(f, folders[f])
  <2>1. CASE folders[f] = Unmade
    <3>1. Unmade.members = << >>
      BY DEF Unmade
    <3>2. QED
      BY <2>1, <3>1, CaseValues DEF Shown
  <2>2. CASE \E u \in Accounts : folders[f] = Made(u, Least, Least + MaxSpan)
    <3>1. PICK u \in Accounts : folders[f] = Made(u, Least, Least + MaxSpan)
      BY <2>2
    <3>2. /\ folders[f] \in Doc /\ folders[f].by = u
          /\ folders[f].members = <<[user |-> u, role |-> "lead"]>>
      <4>1. PICK a \in Times, b \in Times : a = Least /\ b = Least + MaxSpan
        BY DEF Times
      <4>2. folders[f] = Made(u, a, b)
        BY <3>1, <4>1
      <4>3. QED
        BY <4>2, CaseValues
    <3>3. \A n \in DOMAIN folders[f].members :
            folders[f].members[n] = [user |-> folders[f].by, role |-> "lead"]
      BY <3>2
    <3>4. QED
      BY <3>2, <3>3 DEF Shown
  <2>3. CASE folders[f] = Container
    <3>1. PICK a \in Times, b \in Times : a = Least /\ b = Least + MaxSpan
      BY DEF Times
    <3>2. folders[f] = [Unmade EXCEPT !.made = TRUE, !.by = Sweeper, !.from = a, !.to = b]
      BY <2>3, <3>1 DEF Container
    <3>3. Unmade \in Doc /\ Unmade.members = << >>
      BY CaseValues DEF Unmade
    <3>4. folders[f] \in Doc /\ folders[f].members = << >>
      BY <3>2, <3>3 DEF Doc
    <3>5. QED
      BY <3>4 DEF Shown
  <2>4. QED
    BY <2>1, <2>2, <2>3 DEF InvestigationsInit
<1>2. folders \in [Folders -> Doc] /\ MemberInv
  BY <1>1 DEF InvestigationsInit, MemberInv
<1>3. accounts \in [Accounts -> [role : Roles, claim : Roles]]
  BY DEF InvestigationsInit, Roles
<1>4. requests \in [Requests -> Request] /\ RequestInv
  BY CaseValues DEF InvestigationsInit, RequestInv, Sound
<1>5. notes \in Seq(Note) /\ DOMAIN notes = {} /\ rooms = {} /\ trail \cup unrecorded = {}
  BY DEF InvestigationsInit
<1>6. CaseTypes
  BY <1>2, <1>3, <1>4, <1>5 DEF CaseTypes
<1>7. EntryInv /\ NoteInv /\ RoomInv
  BY <1>5 DEF EntryInv, NoteInv, RoomInv
<1>8. RoleInv
  BY DEF InvestigationsInit, RoleInv
<1>9. QED
  BY <1>2, <1>4, <1>6, <1>7, <1>8 DEF CaseInv

LEMMA CaseNext == CaseInv /\ [InvestigationsNext]_investigationsVars => CaseInv'
<1> SUFFICES ASSUME CaseInv, [InvestigationsNext]_investigationsVars PROVE CaseInv'
  OBVIOUS
<1>1. DOMAIN Minimum = Ops
  BY DEF Minimum, Ops
<1>2. CASE \E r \in Requests, u \in Accounts, op \in Ops, f \in Folders : Admit(r, u, op, f)
  BY <1>2, AdmitStep
<1>3. CASE \E r \in Requests : Load(r) \/ Create(r) \/ Update(r) \/ AddMember(r)
                                 \/ AddComment(r) \/ RetractComment(r) \/ SetRole(r)
  BY <1>3, LoadStep, CreateStep, UpdateStep, AddMemberStep, AddCommentStep,
     RetractCommentStep, SetRoleStep
<1>4. CASE \E r \in Requests : Audit(r) \/ AuditLost(r)
  <2>1. PICK r \in Requests : Audit(r) \/ AuditLost(r)
    BY <1>4
  <2>2. /\ requests[r].st = "saved" /\ EndRequest(r)
        /\ trail' \cup unrecorded' = trail \cup unrecorded \cup {Entry(requests[r])}
        /\ UNCHANGED <<accounts, folders, notes, rooms>>
    BY <2>1 DEF Audit, AuditLost
  <2>3. QED
    BY <2>2, RecordStep
<1>5. CASE \E u \in Accounts : SignIn(u) \/ Disconnect(u)
  BY <1>5, SignInStep, DisconnectStep
<1>6. CASE \E u \in Named, role \in Granted : Grant(u, role)
  BY <1>6, GrantStep
<1>7. CASE \E u \in Accounts, f \in Folders : JoinRoom(u, f)
  BY <1>7, JoinRoomStep
<1>8. CASE UNCHANGED investigationsVars
  BY <1>8, OthersStep
<1>9. QED
  BY <1>1, <1>2, <1>3, <1>4, <1>5, <1>6, <1>7, <1>8 DEF InvestigationsNext

LEMMA CaseInvariant == InvestigationsSpec => []CaseInv
  BY CaseFirst, CaseNext, PTL DEF InvestigationsSpec

\* The types of accounts, documents, requests, notes and rooms, as the runs check them.
THEOREM InvestigationsTypeCorrect == InvestigationsSpec => []InvestigationsTypeOK
<1>1. CaseInv => InvestigationsTypeOK
  <2>1. SUFFICES ASSUME CaseTypes PROVE InvestigationsTypeOK
    BY DEF CaseInv
  <2>2. ASSUME NEW f \in Folders
        PROVE  /\ folders[f].made \in BOOLEAN /\ folders[f].deleted \in BOOLEAN
               /\ folders[f].by \in Accounts \cup {Sweeper}
               /\ folders[f].members \in Seq([user : Accounts, role : Roles])
    <3>1. folders[f] \in Doc
      BY <2>1 DEF CaseTypes
    <3>2. QED
      BY <3>1 DEF Doc, Members
  <2>3. ASSUME NEW r \in Requests
        PROVE  requests[r].st \in {"free", "admitted", "loaded", "saved"}
    BY <2>1 DEF CaseTypes, Request
  <2>4. ASSUME NEW n \in DOMAIN notes
        PROVE  notes[n].author \in Accounts /\ notes[n].on \in Folders
    <3>1. notes \in Seq(Note)
      BY <2>1 DEF CaseTypes
    <3>2. notes[n] \in Note
      BY <3>1, ElementOf
    <3>3. QED
      BY <3>2 DEF Note
  <2>5. QED
    BY <2>1, <2>2, <2>3, <2>4 DEF CaseTypes, InvestigationsTypeOK
<1>2. QED
  BY <1>1, CaseInvariant, PTL

LEMMA PartIsEnough ==
  ASSUME CaseTypes, NEW u \in Accounts, NEW f \in Folders
  PROVE  Opens(u, f) <=> /\ folders[f].made /\ ~folders[f].deleted
                         /\ accounts[u].claim = "admin" \/ HasPart(u, folders[f])
<1>1. folders[f] \in Doc
  BY DEF CaseTypes
<1>2. ASSUME EntriesOf(folders[f], u) # {}
      PROVE  ROLE_RANK[EntryFor(folders[f], u).role] >= ROLE_RANK["viewer"]
  <2>1. FirstOf(folders[f], u) \in DOMAIN folders[f].members
    BY <1>1, <1>2, FirstEntry
  <2>2. EntryFor(folders[f], u) \in [user : Accounts, role : Roles]
    BY <1>1, <2>1, ElementOf DEF EntryFor, Doc, Members
  <2>3. EntryFor(folders[f], u).role \in {"viewer", "analyst", "lead", "admin"}
    BY <2>2 DEF Roles
  <2>4. QED
    BY <2>3 DEF ROLE_RANK
<1>3. QED
  BY <1>2 DEF Opens, CanAccess, HasPart

\* A list shows what can be opened, to an analyst all cases of it, and the client offers a
\* deletion to whom the API allows it.
LEMMA OffersAgree ==
  ASSUME CaseTypes
  PROVE  OfferedIsAllowed
<1> SUFFICES ASSUME NEW u \in Accounts, NEW f \in Folders
             PROVE  /\ f \in Listed(u) => Opens(u, f)
                    /\ Opens(u, f) /\ Ranked(u, "analyst") /\ RealCase(f) => f \in Listed(u)
                    /\ Opens(u, f) /\ accounts[u].claim = accounts[u].role =>
                         OffersDeletion(u, f) = Admitted(u, "delete", f)
  BY DEF OfferedIsAllowed
<1>1. Opens(u, f) <=> /\ folders[f].made /\ ~folders[f].deleted
                      /\ \/ accounts[u].claim = "admin" \/ folders[f].by = u
                         \/ EntriesOf(folders[f], u) # {}
  BY PartIsEnough DEF HasPart
<1>2. f \in Listed(u) <=> Opens(u, f) /\ Ranked(u, "analyst") /\ RealCase(f)
  BY <1>1 DEF Listed
<1>3. ASSUME Opens(u, f), accounts[u].claim = accounts[u].role
      PROVE  OffersDeletion(u, f) = Admitted(u, "delete", f)
  <2>1. folders[f].made /\ ~folders[f].deleted
    BY <1>3 DEF Opens
  <2>2. Minimum["delete"] = "analyst" /\ OnCase["delete"] = "lead" /\ Scoped("delete")
    BY DEF Minimum, OnCase, Scoped
  <2>3. ROLE_RANK["admin"] >= ROLE_RANK["analyst"]
    BY DEF ROLE_RANK
  <2>4. OffersDeletion(u, f) <=> Admitted(u, "delete", f)
    BY <1>3, <2>1, <2>2, <2>3 DEF OffersDeletion, Admitted, Ranked, CanAccess
  <2>5. OffersDeletion(u, f) \in BOOLEAN /\ Admitted(u, "delete", f) \in BOOLEAN
    BY DEF OffersDeletion, Admitted
  <2>6. QED
    BY <2>4, <2>5
<1>4. QED
  BY <1>2, <1>3

\* Whatever requests overlap, whichever entries are lost and however old the role in a
\* token is: members and roles have their explanation, what was deleted or withdrawn stays
\* so, what is listed and offered is what is allowed, and rooms are of members.
THEOREM CasesKept == InvestigationsSpec => []CasesAreKept
<1>1. CaseInv => AccessIsExplained
  BY DEF CaseInv, MemberInv, RoleInv, Shown, AccessIsExplained
<1>2. CaseInv => WithdrawalsStand
  BY DEF CaseInv, EntryInv, NoteInv, WithdrawalsStand
<1>3. CaseInv => OfferedIsAllowed
  BY OffersAgree DEF CaseInv
<1>4. CaseInv => RoomsAreOfMembers
  <2>1. ASSUME CaseInv, NEW x \in rooms, ~x[3], ~folders[x[2]].deleted
        PROVE  Opens(x[1], x[2])
    <3>1. x[1] \in Accounts /\ x[2] \in Folders /\ HasPart(x[1], folders[x[2]])
      BY <2>1 DEF CaseInv, CaseTypes, RoomInv
    <3>2. QED
      BY <2>1, <3>1, PartIsEnough DEF CaseInv, HasPart
  <2>2. QED
    BY <2>1 DEF RoomsAreOfMembers
<1>5. CaseInv => CasesAreKept
  BY <1>1, <1>2, <1>3, <1>4 DEF CasesAreKept
<1>6. QED
  BY <1>5, CaseInvariant, PTL

=============================================================================
