------------------------- MODULE AuthPromiseProofs -------------------------
(***************************************************************************)
(* What holds of sessions and passwords in AuthMutations, and that it      *)
(* implements AccountPromise.                                              *)
(***************************************************************************)
EXTENDS AuthMutationsProofs

(***************************************************************************)
(* Sessions from before a reset.                                           *)
(***************************************************************************)

\* What StaleSessionsRaced says of sessions, of the calls that will open one.
StaleCallsRaced ==
    \A c \in Calls :
        calls[c].step \in {"rehash", "create"}
          /\ calls[c].proof < users[calls[c].found].resets /\ ~Revoking(calls[c].found)
          => calls[c].raced

Raced == StaleSessionsRaced /\ StaleCallsRaced

\* The call neither comes to a verified password nor to or from a revocation.
Aside(c) ==
    /\ At(c, "resetRevoke") => At(c, "resetRevoke")' /\ calls'[c].user = calls[c].user
    /\ calls'[c].step \in {"rehash", "create"} =>
         /\ calls[c].step \in {"rehash", "create"}
         /\ calls'[c].found = calls[c].found /\ calls'[c].proof = calls[c].proof
         /\ calls'[c].raced = calls[c].raced

LEMMA AsideRaced ==
    ASSUME Typed, Raced, \A c \in Calls : Aside(c), sessions' \subseteq sessions,
           \A u \in DOMAIN users : users'[u].resets = users[u].resets
    PROVE  Raced'
<1>1. \A u : Revoking(u) => Revoking(u)'
  BY DEF Revoking, Aside
<1>2. StaleSessionsRaced'
  BY <1>1 DEF Raced, StaleSessionsRaced, Typed, RowsHaveUsers
<1>3. StaleCallsRaced'
  <2> SUFFICES ASSUME NEW c \in Calls, calls'[c].step \in {"rehash", "create"},
                      calls'[c].proof < users'[calls'[c].found].resets,
                      NEW u, u = calls'[c].found, ~Revoking(u)'
               PROVE  calls'[c].raced
    BY DEF StaleCallsRaced, Revoking
  <2>1. /\ calls[c].step \in {"rehash", "create"} /\ calls'[c].found = calls[c].found
        /\ calls'[c].proof = calls[c].proof /\ calls'[c].raced = calls[c].raced
    BY DEF Aside
  <2>2. calls[c].found \in DOMAIN users
    BY <2>1 DEF Typed, Carries
  <2> QED BY <1>1, <2>1, <2>2 DEF Raced, StaleCallsRaced
<1> QED BY <1>2, <1>3 DEF Raced

LEMMA AsideCall ==
    ASSUME Typed, Raced, NEW c \in Calls, NEW call, Becomes(c, call),
           ~At(c, "resetRevoke"), call.step \notin {"rehash", "create"},
           sessions' \subseteq sessions,
           \A u \in DOMAIN users : users'[u].resets = users[u].resets
    PROVE  Raced'
<1>1. ASSUME NEW d \in Calls PROVE Aside(d)
  <2>1. calls \in [Calls -> Call] /\ calls' = [calls EXCEPT ![c] = call]
    BY DEF Typed, TypeOK, Becomes
  <2>2. CASE d = c
    BY <2>1, <2>2 DEF Aside, At
  <2>3. CASE d # c
    BY <2>1, <2>3 DEF Aside, At
  <2> QED BY <2>2, <2>3
<1> QED BY <1>1, AsideRaced

LEMMA AnswerRaced ==
    ASSUME Typed, Raced, NEW c \in Calls, ~At(c, "resetRevoke"), NEW a, Answer(c, a),
           sessions' \subseteq sessions,
           \A u \in DOMAIN users : users'[u].resets = users[u].resets
    PROVE  Raced'
BY AsideCall DEF Answer, Answered, NoCall

LEMMA ResetsKept ==
    ASSUME TypeOK, NEW u, NEW p, SetPassword(u, p, FALSE)
    PROVE  \A v \in DOMAIN users : users'[v].resets = users[v].resets
<1> SUFFICES ASSUME NEW v \in DOMAIN users PROVE users'[v].resets = users[v].resets
  OBVIOUS
<1>1. users \in [1..Len(users) -> User] /\ users[v] \in User
  BY DEF TypeOK
<1>2. users[v].resets \in Nat
  BY <1>1 DEF User
<1> QED BY <1>1, <1>2 DEF SetPassword, User

LEMMA RequestRaced ==
    ASSUME Typed, Raced, NEW c \in Calls, AnyRequest(c)
    PROVE  Raced'
<1>1. ASSUME NEW call, Start(c, call), call.step \notin {"rehash", "create"}
      PROVE  Raced'
  BY <1>1, AsideCall DEF Start, Becomes, At
<1>2. ASSUME NEW h, NEW p, NEW q, StartChange(c, h, p, q)
      PROVE  Raced'
  <2>1. CASE LiveUser(h) = {}
    BY <1>1, <1>2, <2>1 DEF StartChange, Answered, Begin, NoCall
  <2>2. CASE LiveUser(h) # {}
    <3>1. PICK u \in LiveUser(h) :
            Start(c, [Begin(c, "change", "authFind", h) EXCEPT
                        !.user = u, !.email = ParsedEmail(users[u].email),
                        !.password = p, !.next = Trim[Parsed(q)]])
      BY <1>2, <2>2 DEF StartChange
    <3> QED BY <1>1, <3>1 DEF Begin, NoCall
  <2> QED BY <2>1, <2>2
<1>3. ASSUME NEW h, NEW t, NEW p, NEW q, StartReset(c, h, t, p, q)
      PROVE  Raced'
  <2>1. CASE t = 0
    BY <1>1, <1>3, <2>1 DEF StartReset, Answered, Begin, NoCall
  <2>2. CASE t # 0
    BY <1>1, <1>3, <2>2 DEF StartReset, Begin, NoCall
  <2> QED BY <2>1, <2>2
<1>4. ASSUME NEW e, NEW p, StartSignup(c, e, p) \/ StartLogin(c, e, p)
      PROVE  Raced'
  BY <1>1, <1>4 DEF StartSignup, StartLogin, Begin, NoCall
<1>5. ASSUME NEW x, StartLogout(c, x) \/ StartForgot(c, x)
      PROVE  Raced'
  BY <1>1, <1>5 DEF StartLogout, StartForgot, Begin, NoCall
<1> QED BY <1>2, <1>3, <1>4, <1>5 DEF Request, AnyRequest

LEMMA StepRaced ==
    ASSUME Typed, Raced, NEW c \in Calls, Step(c)
    PROVE  Raced'
<1> DEFINE call == calls[c]
<1>0. /\ call \in Call /\ Carries(call, begun, DOMAIN users)
      /\ calls \in [Calls -> Call] /\ TypeOK
  BY DEF Typed, TypeOK
<1>1. CASE Authenticate(c)
  <2>1. PICK u \in WithEmail(call.email) :
          Becomes(c, [call EXCEPT !.found = u, !.proof = users[u].resets,
                        !.step = IF users[u].old THEN "rehash" ELSE AfterAuthenticate(c)])
    BY <1>1 DEF Authenticate
  <2> DEFINE new == [call EXCEPT !.found = u, !.proof = users[u].resets,
                       !.step = IF users[u].old THEN "rehash" ELSE AfterAuthenticate(c)]
  <2>2. /\ new.found = u /\ new.proof = users[u].resets /\ new.step # "resetRevoke"
        /\ call.step = "authFind"
    BY <1>0, <1>1 DEF Call, AfterAuthenticate, Authenticate, At
  <2>3. users[u].resets \in Nat
    <3>1. users[u] \in User
      BY <1>0 DEF WithEmail, TypeOK
    <3> QED BY <3>1 DEF User
  <2> HIDE DEF new
  <2>4. calls' = [calls EXCEPT ![c] = new] /\ UNCHANGED <<users, sessions>>
    BY <1>1, <2>1 DEF Becomes, Authenticate, new
  <2>5. \A d \in Calls \ {c} : calls'[d] = calls[d]
    BY <1>0, <2>4
  <2>6. \A v : Revoking(v) <=> Revoking(v)'
    BY <1>0, <2>2, <2>4 DEF Revoking, At
  <2>7. StaleSessionsRaced'
    BY <2>4, <2>6 DEF Raced, StaleSessionsRaced
  <2>8. StaleCallsRaced'
    <3> SUFFICES ASSUME NEW d \in Calls, calls'[d].step \in {"rehash", "create"},
                        calls'[d].proof < users[calls'[d].found].resets,
                        NEW v, v = calls'[d].found, ~Revoking(v)
                 PROVE  calls'[d].raced
      BY <2>4, <2>6 DEF StaleCallsRaced, Revoking
    <3>1. CASE d = c
      BY <1>0, <2>2, <2>3, <2>4, <3>1
    <3>2. CASE d # c
      BY <2>5, <3>2 DEF Raced, StaleCallsRaced
    <3> QED BY <3>1, <3>2
  <2> QED BY <2>7, <2>8 DEF Raced
<1>2. CASE \/ RejectCredentials(c) \/ EmailTaken(c) \/ Logout(c) \/ FindNobody(c)
           \/ SendMail(c) \/ FailToMail(c) \/ FindNoToken(c) \/ DeleteNoToken(c)
  <2>1. /\ ~At(c, "resetRevoke") /\ sessions' \subseteq sessions /\ users' = users
        /\ \E a : Answer(c, a)
    BY <1>2
    DEF RejectCredentials, EmailTaken, Logout, FindNobody, SendMail, FailToMail,
        FindNoToken, DeleteNoToken, At
  <2> QED BY <2>1, AnswerRaced
<1>3. CASE Rehash(c)
  <2> DEFINE new == [call EXCEPT !.step = AfterAuthenticate(c)]
  <2>1. /\ call.step = "rehash" /\ new.step # "resetRevoke" /\ new.found = call.found
        /\ new.proof = call.proof /\ new.raced = call.raced
    BY <1>0, <1>3 DEF Call, AfterAuthenticate, Rehash, At
  <2> HIDE DEF new
  <2>2. calls' = [calls EXCEPT ![c] = new] /\ sessions' = sessions
    BY <1>3 DEF Rehash, GoTo, Becomes, new
  <2>3. \A u \in DOMAIN users : users'[u].resets = users[u].resets
    BY <1>0, <1>3, ResetsKept DEF Rehash
  <2>4. ASSUME NEW d \in Calls PROVE Aside(d)
    BY <1>0, <2>1, <2>2 DEF Aside, At
  <2> QED BY <2>2, <2>3, <2>4, AsideRaced
<1>4. CASE CreateSession(c)
  <2> DEFINE row == [handle |-> call.id, user |-> call.found, proof |-> call.proof,
                     raced |-> call.raced]
  <2>1. /\ sessions' = sessions \cup {row} /\ users' = users /\ call.step = "create"
        /\ calls' = [calls EXCEPT ![c] = Answered(call, "ok")]
    BY <1>4 DEF CreateSession, Answer, Becomes, At
  <2>2. \A d \in Calls : Aside(d)
    BY <1>0, <2>1 DEF Aside, At, Answered, NoCall
  <2>3. \A u : Revoking(u) => Revoking(u)'
    BY <2>2 DEF Revoking, Aside
  <2>4. StaleSessionsRaced'
    <3>1. ASSUME NEW s \in sessions, s.proof < users[s.user].resets, ~Revoking(s.user)
          PROVE  s.raced
      BY <3>1 DEF Raced, StaleSessionsRaced
    <3>2. row.proof < users[row.user].resets /\ ~Revoking(row.user) => row.raced
      BY <2>1 DEF Raced, StaleCallsRaced
    <3> HIDE DEF row
    <3> QED BY <2>1, <2>3, <3>1, <3>2 DEF StaleSessionsRaced
  <2>5. StaleCallsRaced'
    <3> SUFFICES ASSUME NEW d \in Calls, calls'[d].step \in {"rehash", "create"},
                        calls'[d].proof < users[calls'[d].found].resets,
                        NEW v, v = calls'[d].found, ~Revoking(v)'
                 PROVE  calls'[d].raced
      BY <2>1 DEF StaleCallsRaced, Revoking
    <3> QED BY <2>2, <2>3 DEF Aside, Raced, StaleCallsRaced
  <2> QED BY <2>4, <2>5 DEF Raced
<1>5. CASE CreateUser(c)
  <2> DEFINE new == [call EXCEPT !.found = Len(users) + 1, !.step = "create"]
  <2>0. /\ users \in Seq(User) /\ Len(users) \in Nat /\ call.step = "signup"
        /\ call.proof \in Nat
    BY <1>0, <1>5 DEF TypeOK, CreateUser, At, Call
  <2>1. /\ new.found = Len(users) + 1 /\ new.proof = call.proof /\ new.step = "create"
    BY <1>0 DEF Call
  <2> HIDE DEF new
  <2>2. calls' = [calls EXCEPT ![c] = new] /\ sessions' = sessions
    BY <1>5 DEF CreateUser, Becomes, new
  <2>3. /\ \A u \in DOMAIN users : users'[u] = users[u]
        /\ users'[Len(users) + 1].resets = 0
    BY <1>5, <2>0 DEF CreateUser
  <2>4. \A d \in Calls \ {c} : calls'[d] = calls[d]
    BY <1>0, <2>2
  <2>5. \A v : Revoking(v) <=> Revoking(v)'
    BY <1>0, <2>0, <2>1, <2>2 DEF Revoking, At
  <2>6. StaleSessionsRaced'
    BY <2>2, <2>3, <2>5 DEF Raced, StaleSessionsRaced, Typed, RowsHaveUsers
  <2>7. StaleCallsRaced'
    <3> SUFFICES ASSUME NEW d \in Calls, calls'[d].step \in {"rehash", "create"},
                        calls'[d].proof < users'[calls'[d].found].resets,
                        NEW v, v = calls'[d].found, ~Revoking(v)
                 PROVE  calls'[d].raced
      BY <2>5 DEF StaleCallsRaced, Revoking
    <3>1. CASE d = c
      BY <1>0, <2>0, <2>1, <2>2, <2>3, <3>1
    <3>2. CASE d # c
      <4>1. calls'[d] = calls[d] /\ calls[d].found \in DOMAIN users
        BY <2>4, <3>2 DEF Typed, Carries
      <4> QED BY <2>3, <4>1 DEF Raced, StaleCallsRaced
    <3> QED BY <3>1, <3>2
  <2> QED BY <2>6, <2>7 DEF Raced
<1>6. CASE FindForgetful(c)
  <2>1. PICK u : Becomes(c, [call EXCEPT !.user = u, !.step = "forgotDelete"])
    BY <1>6 DEF FindForgetful
  <2> DEFINE new == [call EXCEPT !.user = u, !.step = "forgotDelete"]
  <2>2. new.step = "forgotDelete"
    BY <1>0 DEF Call
  <2>3. Becomes(c, new) /\ ~At(c, "resetRevoke") /\ UNCHANGED <<users, sessions>>
    BY <1>6, <2>1 DEF FindForgetful, At
  <2> HIDE DEF new
  <2> QED BY <2>2, <2>3, AsideCall
<1>7. CASE DeleteTokens(c) \/ CreateToken(c)
  <2>1. PICK step \in {"forgotCreate", "forgotMail"} : GoTo(c, step)
    BY <1>7 DEF DeleteTokens, CreateToken
  <2> DEFINE new == [call EXCEPT !.step = step]
  <2>2. new.step = step
    BY <1>0 DEF Call
  <2>3. Becomes(c, new) /\ ~At(c, "resetRevoke") /\ UNCHANGED <<users, sessions>>
    BY <1>7, <2>1 DEF GoTo, DeleteTokens, CreateToken, At
  <2> HIDE DEF new
  <2> QED BY <2>2, <2>3, AsideCall
<1>8. CASE FindToken(c)
  <2>1. PICK r : Becomes(c, [call EXCEPT !.user = r.user, !.step = "resetDelete"])
    BY <1>8 DEF FindToken
  <2> DEFINE new == [call EXCEPT !.user = r.user, !.step = "resetDelete"]
  <2>2. new.step = "resetDelete"
    BY <1>0 DEF Call
  <2>3. Becomes(c, new) /\ ~At(c, "resetRevoke") /\ UNCHANGED <<users, sessions>>
    BY <1>8, <2>1 DEF FindToken, At
  <2> HIDE DEF new
  <2> QED BY <2>2, <2>3, AsideCall
<1>9. CASE DeleteToken(c)
  <2>1. ~At(c, "resetRevoke") /\ UNCHANGED <<users, sessions>>
    BY <1>9 DEF DeleteToken, At
  <2> DEFINE new == [call EXCEPT !.step = "resetUpdate"]
  <2>2. new.step = "resetUpdate"
    BY <1>0 DEF Call
  <2>3. Answer(c, "link") \/ Answer(c, "credentials") \/ Becomes(c, new)
    BY <1>9 DEF DeleteToken, GoTo
  <2> HIDE DEF new
  <2> QED BY <2>1, <2>2, <2>3, AsideCall, AnswerRaced
\* From now on the user's sessions are about to be revoked.
<1>10. CASE ResetPassword(c)
  <2> DEFINE new == [call EXCEPT !.mark = users[call.user].writes + 1, !.step = "resetRevoke"]
  <2>1. new.step = "resetRevoke" /\ new.user = call.user /\ call.step = "resetUpdate"
    BY <1>0, <1>10 DEF Call, ResetPassword, At
  <2> HIDE DEF new
  <2>2. calls' = [calls EXCEPT ![c] = new] /\ sessions' = sessions
    BY <1>10 DEF ResetPassword, Becomes, new
  <2>3. \A u \in DOMAIN users : u # call.user => users'[u] = users[u]
    BY <1>0, <1>10 DEF ResetPassword, SetPassword, TypeOK
  <2>4. \A d \in Calls \ {c} : calls'[d] = calls[d]
    BY <1>0, <2>2
  <2>5. \A v : Revoking(v)' <=> v = call.user \/ Revoking(v)
    BY <1>0, <2>1, <2>2 DEF Revoking, At
  <2>6. StaleSessionsRaced'
    BY <2>2, <2>3, <2>5 DEF Raced, StaleSessionsRaced, Typed, RowsHaveUsers
  <2>7. StaleCallsRaced'
    <3> SUFFICES ASSUME NEW d \in Calls, calls'[d].step \in {"rehash", "create"},
                        calls'[d].proof < users'[calls'[d].found].resets,
                        NEW v, v = calls'[d].found, ~Revoking(v)'
                 PROVE  calls'[d].raced
      BY DEF StaleCallsRaced, Revoking
    <3>1. d # c /\ calls'[d] = calls[d] /\ calls[d].found \in DOMAIN users
      BY <1>0, <2>1, <2>2, <2>4 DEF Typed, Carries
    <3> QED BY <2>3, <2>5, <3>1 DEF Raced, StaleCallsRaced
  <2> QED BY <2>6, <2>7 DEF Raced
\* What was on its way past the revocation is marked.
<1>11. CASE RevokeSessions(c)
  <2>1. /\ sessions' = {s \in sessions : s.user # call.user} /\ users' = users
        /\ call.step = "resetRevoke"
    BY <1>11 DEF RevokeSessions, At
  <2>2. ASSUME NEW d \in Calls, d # c
        PROVE  /\ calls'[d].step = calls[d].step /\ calls'[d].user = calls[d].user
               /\ calls'[d].found = calls[d].found /\ calls'[d].proof = calls[d].proof
               /\ calls'[d].raced = (calls[d].raced \/ Verified(d, call.user))
    BY <1>0, <1>11, <2>2 DEF RevokeSessions, Call
  <2>3. calls'[c].step = "authFind"
    BY <1>0, <1>11 DEF RevokeSessions, Call
  <2>4. \A v : v # call.user => (Revoking(v) => Revoking(v)')
    BY <2>2 DEF Revoking, At
  <2>5. StaleSessionsRaced'
    BY <2>1, <2>4 DEF Raced, StaleSessionsRaced
  <2>6. StaleCallsRaced'
    <3> SUFFICES ASSUME NEW d \in Calls, calls'[d].step \in {"rehash", "create"},
                        calls'[d].proof < users[calls'[d].found].resets,
                        NEW v, v = calls'[d].found, ~Revoking(v)'
                 PROVE  calls'[d].raced
      BY <2>1 DEF StaleCallsRaced, Revoking
    <3>1. d # c
      BY <2>3
    <3>2. CASE v = call.user
      BY <2>2, <3>1, <3>2 DEF Verified
    <3>3. CASE v # call.user
      BY <2>2, <2>4, <3>1, <3>3 DEF Raced, StaleCallsRaced
    <3> QED BY <3>2, <3>3
  <2> QED BY <2>5, <2>6 DEF Raced
<1>12. CASE ChangePassword(c)
  <2>1. \A u \in DOMAIN users : users'[u].resets = users[u].resets
    BY <1>0, <1>12, ResetsKept DEF ChangePassword
  <2>2. Answer(c, "credentials") \/ Answer(c, "ok")
    BY <1>12 DEF ChangePassword
  <2>3. ~At(c, "resetRevoke") /\ sessions' = sessions
    BY <1>12 DEF ChangePassword, At
  <2> QED BY <2>1, <2>2, <2>3, AnswerRaced
<1> QED
  BY <1>1, <1>2, <1>3, <1>4, <1>5, <1>6, <1>7, <1>8, <1>9, <1>10, <1>11, <1>12 DEF Step

LEMMA NextRaced ==
    ASSUME Typed, Raced, [AnyNext]_vars
    PROVE  Raced'
<1>1. ASSUME NEW c \in Calls, Return(c) PROVE Raced'
  BY <1>1, AsideCall DEF Return, NoCall, At
<1>2. ASSUME NEW r \in tokens, Expire(r) PROVE Raced'
  BY <1>2, AsideRaced DEF Expire, Aside, At
<1>3. CASE UNCHANGED vars
  BY <1>3, AsideRaced DEF vars, Aside, At
<1> QED BY <1>1, <1>2, <1>3, RequestRaced, StepRaced DEF AnyNext

LEMMA RacedInit == Init => Raced
BY DEF Init, NoCall, Raced, StaleSessionsRaced, StaleCallsRaced

LEMMA AnyStaleSessionsAreRaced == AnySpec => []StaleSessionsRaced
<1>1. Raced => StaleSessionsRaced
  BY DEF Raced
<1>2. Typed /\ Raced /\ [AnyNext]_vars => Typed' /\ Raced'
  BY NextTyped, NextRaced
<1> QED BY <1>1, <1>2, TypedInit, RacedInit, PTL DEF AnySpec

\* A session that a password from before a reset has opened is there after that
\* reset only if its insert overtook the revocation, whatever runs beside it.
THEOREM StaleSessionsAreRaced == Spec => []StaleSessionsRaced
BY AnyStaleSessionsAreRaced, SpecIsAny, PTL

-----------------------------------------------------------------------------
(***************************************************************************)
(* What a call knows of an account stays true, or the account's count of   *)
(* writes tells.                                                           *)
(***************************************************************************)

\* An address that login and forgotPassword can find, in the table rows.
Lowered(rows, u) == LowerCase[rows[u].email] = rows[u].email

Knows(call, rows) ==
    /\ call.step = "forgotFind" => LowerCase[call.email] = call.email
    /\ call.step \in {"forgotDelete", "forgotCreate", "resetDelete", "resetUpdate",
                      "resetRevoke"} => Lowered(rows, call.user)
    /\ call.step \in ResetSteps => Trim[call.password] = call.password
    /\ call.step \in {"resetUpdate", "resetRevoke"} => call.password # Empty
    /\ call.step = "authFind" /\ call.kind = "reset" =>
         /\ Lowered(rows, call.user) /\ call.email = rows[call.user].email
         /\ call.password # Empty
    /\ call.step = "resetRevoke" \/ (call.step = "authFind" /\ call.kind = "reset") =>
         /\ call.mark <= rows[call.user].writes
         /\ rows[call.user].writes = call.mark => rows[call.user].password = call.password
    /\ call.step = "changeUpdate" => call.kind = "change"
    /\ call.step \in {"authFind", "rehash", "changeUpdate"} /\ call.kind = "change" =>
         call.email = LowerCase[rows[call.user].email]
    /\ call.step \in {"rehash", "changeUpdate"} /\ call.kind = "change" =>
         call.found \in DOMAIN rows /\ rows[call.found].email = call.email

Known ==
    /\ \A t \in tokens : Lowered(users, t.user)
    /\ \A c \in Calls : Knows(calls[c], users)

UsersKept ==
    \A u \in DOMAIN users :
        /\ u \in DOMAIN users' /\ users'[u].email = users[u].email
        /\ users'[u] = users[u] \/ users'[u].writes > users[u].writes

LEMMA SetPasswordKeeps ==
    ASSUME TypeOK, NEW u, NEW p, NEW byReset \in BOOLEAN, SetPassword(u, p, byReset)
    PROVE  /\ UsersKept
           /\ u \in DOMAIN users =>
                users'[u].password = p /\ users'[u].writes = users[u].writes + 1
<1>1. users \in [1..Len(users) -> User]
  BY DEF TypeOK
<1>2. ASSUME NEW v \in DOMAIN users, u # v
      PROVE  v \in DOMAIN users' /\ users'[v] = users[v]
  BY <1>1, <1>2 DEF SetPassword
<1>3. ASSUME u \in DOMAIN users
      PROVE  /\ u \in DOMAIN users' /\ users'[u].email = users[u].email
             /\ users'[u].password = p /\ users'[u].writes = users[u].writes + 1
             /\ users[u].writes \in Nat
  <2>1. users[u] \in User
    BY <1>1, <1>3
  <2>2. users'[u] = [users[u] EXCEPT
             !.password = p, !.old = FALSE, !.writes = users[u].writes + 1,
             !.resets = users[u].resets + (IF byReset THEN 1 ELSE 0)]
    BY <1>1, <1>3 DEF SetPassword
  <2>3. DOMAIN users' = DOMAIN users
    BY DEF SetPassword
  <2> QED BY <1>3, <2>1, <2>2, <2>3 DEF User
<1>4. ASSUME NEW v \in DOMAIN users
      PROVE  /\ v \in DOMAIN users' /\ users'[v].email = users[v].email
             /\ users'[v] = users[v] \/ users'[v].writes > users[v].writes
  <2>1. CASE u = v
    BY <1>3, <2>1
  <2>2. CASE u # v
    BY <1>2, <2>2
  <2> QED BY <2>1, <2>2
<1> QED BY <1>3, <1>4 DEF UsersKept

LEMMA NextKeepsUsers ==
    ASSUME Typed, [AnyNext]_vars
    PROVE  UsersKept
<1>0. TypeOK /\ (users' = users => UsersKept)
  BY DEF Typed, UsersKept
<1>1. ASSUME NEW c \in Calls, AnyRequest(c) PROVE UsersKept
  BY <1>0, <1>1
  DEF Request, AnyRequest, StartSignup, StartLogin, StartLogout, StartForgot, StartReset, StartChange,
      Start
<1>2. ASSUME NEW c \in Calls, CreateUser(c) PROVE UsersKept
  <2>1. users \in Seq(User)
    BY <1>0 DEF TypeOK
  <2> QED BY <1>2, <2>1 DEF CreateUser, UsersKept
<1>3. ASSUME NEW c \in Calls, Rehash(c) \/ ResetPassword(c) \/ ChangePassword(c)
      PROVE  UsersKept
  BY <1>0, <1>3, SetPasswordKeeps DEF Rehash, ResetPassword, ChangePassword
<1>4. ASSUME NEW c \in Calls, Step(c), ~CreateUser(c), ~Rehash(c), ~ResetPassword(c),
             ~ChangePassword(c)
      PROVE  users' = users
  BY <1>4
  DEF Step, Authenticate, RejectCredentials, CreateSession, EmailTaken, Logout,
      FindForgetful, FindNobody, DeleteTokens, CreateToken, SendMail, FailToMail,
      FindToken, FindNoToken, DeleteToken, DeleteNoToken, RevokeSessions
<1>5. ASSUME NEW c \in Calls, Return(c) PROVE users' = users
  BY <1>5 DEF Return
<1>6. ASSUME NEW r \in tokens, Expire(r) PROVE users' = users
  BY <1>6 DEF Expire
<1> QED BY <1>0, <1>1, <1>2, <1>3, <1>4, <1>5, <1>6 DEF AnyNext, vars

LEMMA KnowsStays ==
    ASSUME Typed, Typed', UsersKept, NEW call \in Call, Carries(call, begun, DOMAIN users),
           Knows(call, users)
    PROVE  Knows(call, users')
<1>1. \A u \in DOMAIN users : Lowered(users, u) => Lowered(users', u)
  BY DEF UsersKept, Lowered
<1>2. \A u \in DOMAIN users : users[u] \in User
  BY DEF Typed, TypeOK
<1>3. \A u \in DOMAIN users : users[u].writes \in Nat
  BY <1>2 DEF User
<1>4. call.mark \in Nat
  BY DEF Call
<1>5. call.step = "resetRevoke" \/ (call.step = "authFind" /\ call.kind = "reset") =>
        /\ call.mark <= users'[call.user].writes
        /\ users'[call.user].writes = call.mark => users'[call.user].password = call.password
  <2> SUFFICES ASSUME call.step = "resetRevoke"
                        \/ (call.step = "authFind" /\ call.kind = "reset")
               PROVE  /\ call.mark <= users'[call.user].writes
                      /\ users'[call.user].writes = call.mark
                           => users'[call.user].password = call.password
    OBVIOUS
  <2>1. /\ call.user \in DOMAIN users /\ call.mark <= users[call.user].writes
        /\ users[call.user].writes = call.mark
             => users[call.user].password = call.password
    BY DEF Carries, Knows
  <2>2. CASE users'[call.user] = users[call.user]
    BY <2>1, <2>2
  <2>3. CASE users'[call.user].writes > users[call.user].writes
    <3>1. users'[call.user] \in User
      BY <2>1 DEF UsersKept, Typed, TypeOK
    <3>2. users'[call.user].writes \in Nat /\ users[call.user].writes \in Nat
      BY <1>3, <2>1, <3>1 DEF User
    <3> QED BY <1>4, <2>1, <2>3, <3>2
  <2> QED BY <2>1, <2>2, <2>3 DEF UsersKept
<1> QED BY <1>1, <1>5 DEF UsersKept, Knows, Carries, ResetSteps

\* A step of one call that adds no link.
LEMMA OneCallKnown ==
    ASSUME Typed, Typed', UsersKept, Known, NEW c \in Calls, NEW call, Becomes(c, call),
           Knows(call, users'), \A t \in tokens' : \E r \in tokens : r.user = t.user
    PROVE  Known'
<1>1. calls' = [calls EXCEPT ![c] = call] /\ calls \in [Calls -> Call]
  BY DEF Becomes, Typed, TypeOK
<1>2. ASSUME NEW d \in Calls PROVE Knows(calls'[d], users')
  <2>1. CASE d = c
    BY <1>1, <2>1
  <2>2. CASE d # c
    <3>1. calls'[d] = calls[d] /\ calls[d] \in Call
      BY <1>1, <2>2
    <3> QED BY <3>1, KnowsStays DEF Known, Typed
  <2> QED BY <2>1, <2>2
<1>3. \A u \in DOMAIN users : Lowered(users, u) => Lowered(users', u)
  BY DEF UsersKept, Lowered
<1>4. \A t \in tokens' : Lowered(users', t.user)
  BY <1>3 DEF Known, Typed, RowsHaveUsers
<1> QED BY <1>2, <1>4 DEF Known

LEMMA AnswerKnown ==
    ASSUME Typed, Typed', UsersKept, Known, NEW c \in Calls, NEW a, Answer(c, a),
           tokens' \subseteq tokens
    PROVE  Known'
<1>1. Knows(Answered(calls[c], a), users')
  BY DEF Answered, NoCall, Knows, ResetSteps
<1> QED BY <1>1, OneCallKnown DEF Answer

LEMMA RequestKnown ==
    ASSUME Typed, Typed', UsersKept, Known, NEW c \in Calls, AnyRequest(c)
    PROVE  Known'
<1>1. ASSUME NEW call, Start(c, call), Knows(call, users)
      PROVE  Known'
  BY <1>1, OneCallKnown DEF Start, Becomes
<1>2. ASSUME NEW e \in EmailTexts, NEW p, StartSignup(c, e, p)
      PROVE  Known'
  BY <1>1, <1>2 DEF StartSignup, Begin, NoCall, Knows, ResetSteps
<1>3. ASSUME NEW e \in EmailTexts, NEW p, StartLogin(c, e, p)
      PROVE  Known'
  BY <1>1, <1>3 DEF StartLogin, Begin, NoCall, Knows, ResetSteps
<1>4. ASSUME NEW h, StartLogout(c, h)
      PROVE  Known'
  BY <1>1, <1>4 DEF StartLogout, Begin, NoCall, Knows, ResetSteps
<1>5. ASSUME NEW e \in EmailTexts, StartForgot(c, e)
      PROVE  Known'
  BY <1>1, <1>5, AuthAssumption DEF StartForgot, Begin, NoCall, Knows, ResetSteps, ParsedEmail
<1>6. ASSUME NEW h, NEW t, NEW p \in Valid, NEW q, StartReset(c, h, t, p, q)
      PROVE  Known'
  <2>1. CASE t = 0
    BY <1>1, <1>6, <2>1 DEF StartReset, Answered, Begin, NoCall, Knows, ResetSteps
  <2>2. CASE t # 0
    BY <1>1, <1>6, <2>2, AuthAssumption
    DEF StartReset, Begin, NoCall, Knows, ResetSteps, Parsed
  <2> QED BY <2>1, <2>2
<1>7. ASSUME NEW h, NEW p, NEW q, StartChange(c, h, p, q)
      PROVE  Known'
  <2>1. CASE LiveUser(h) = {}
    BY <1>1, <1>7, <2>1 DEF StartChange, Answered, Begin, NoCall, Knows, ResetSteps
  <2>2. CASE LiveUser(h) # {}
    <3>1. PICK u \in LiveUser(h) :
            Start(c, [Begin(c, "change", "authFind", h) EXCEPT
                        !.user = u, !.email = ParsedEmail(users[u].email),
                        !.password = p, !.next = Trim[Parsed(q)]])
      BY <1>7, <2>2 DEF StartChange
    <3> QED BY <1>1, <3>1 DEF Begin, NoCall, Knows, ResetSteps, ParsedEmail
  <2> QED BY <2>1, <2>2
<1> QED BY <1>2, <1>3, <1>4, <1>5, <1>6, <1>7 DEF Request, AnyRequest

LEMMA StepKnown ==
    ASSUME Typed, Typed', UsersKept, Known, NEW c \in Calls, Step(c)
    PROVE  Known'
<1> DEFINE call == calls[c]
<1>0. /\ call \in Call /\ Carries(call, begun, DOMAIN users) /\ Knows(call, users)
      /\ calls \in [Calls -> Call] /\ TypeOK
  BY DEF Typed, TypeOK, Known
<1>1. CASE Authenticate(c)
  <2>1. PICK u \in WithEmail(call.email) :
          Becomes(c, [call EXCEPT !.found = u, !.proof = users[u].resets,
                        !.step = IF users[u].old THEN "rehash" ELSE AfterAuthenticate(c)])
    BY <1>1 DEF Authenticate
  <2> DEFINE new == [call EXCEPT !.found = u, !.proof = users[u].resets,
                       !.step = IF users[u].old THEN "rehash" ELSE AfterAuthenticate(c)]
  <2>2. /\ new.found = u /\ new.kind = call.kind /\ new.email = call.email
        /\ new.user = call.user /\ call.step = "authFind"
        /\ new.step \in {"rehash", "create", "changeUpdate"}
        /\ new.step = "changeUpdate" => call.kind = "change"
    BY <1>0, <1>1 DEF Call, AfterAuthenticate, Authenticate, At
  <2>3. u \in DOMAIN users /\ users[u].email = call.email
    BY DEF WithEmail
  <2> HIDE DEF new
  <2>4. Knows(new, users)
    BY <1>0, <2>2, <2>3 DEF Knows, ResetSteps
  <2>5. users' = users /\ tokens' = tokens /\ Becomes(c, new)
    BY <1>1, <2>1 DEF Authenticate, new
  <2> QED BY <2>4, <2>5, OneCallKnown
<1>2. CASE \/ RejectCredentials(c) \/ EmailTaken(c) \/ Logout(c) \/ FindNobody(c)
           \/ SendMail(c) \/ FailToMail(c) \/ FindNoToken(c) \/ DeleteNoToken(c)
           \/ CreateSession(c)
  <2>1. tokens' = tokens /\ \E a : Answer(c, a)
    BY <1>2
    DEF RejectCredentials, EmailTaken, Logout, FindNobody, SendMail, FailToMail,
        FindNoToken, DeleteNoToken, CreateSession
  <2> QED BY <2>1, AnswerKnown
<1>3. CASE Rehash(c)
  <2> DEFINE new == [call EXCEPT !.step = AfterAuthenticate(c)]
  <2>1. /\ new.found = call.found /\ new.kind = call.kind /\ new.email = call.email
        /\ new.user = call.user /\ call.step = "rehash"
        /\ new.step \in {"create", "changeUpdate"}
        /\ new.step = "changeUpdate" => call.kind = "change"
    BY <1>0, <1>3 DEF Call, AfterAuthenticate, Rehash, At
  <2> HIDE DEF new
  <2>2. call.kind = "change" => call.user \in DOMAIN users /\ call.found \in DOMAIN users
    BY <1>0, <2>1 DEF Carries
  <2>3. Knows(new, users')
    BY <1>0, <2>1, <2>2 DEF Knows, ResetSteps, UsersKept
  <2>4. tokens' = tokens /\ Becomes(c, new)
    BY <1>3 DEF Rehash, GoTo, new
  <2> QED BY <2>3, <2>4, OneCallKnown
<1>4. CASE CreateUser(c)
  <2> DEFINE new == [call EXCEPT !.found = Len(users) + 1, !.step = "create"]
  <2>1. new.step = "create"
    BY <1>0 DEF Call
  <2> HIDE DEF new
  <2>2. Knows(new, users')
    BY <2>1 DEF Knows, ResetSteps
  <2>3. tokens' = tokens /\ Becomes(c, new)
    BY <1>4 DEF CreateUser, new
  <2> QED BY <2>2, <2>3, OneCallKnown
<1>5. CASE FindForgetful(c)
  <2>1. PICK u \in WithEmail(call.email) :
          Becomes(c, [call EXCEPT !.user = u, !.step = "forgotDelete"])
    BY <1>5 DEF FindForgetful
  <2> DEFINE new == [call EXCEPT !.user = u, !.step = "forgotDelete"]
  <2>2. new.step = "forgotDelete" /\ new.user = u /\ call.step = "forgotFind"
    BY <1>0, <1>5 DEF Call, FindForgetful, At
  <2>3. Lowered(users, u)
    BY <1>0, <2>2 DEF WithEmail, Knows, Lowered
  <2> HIDE DEF new
  <2>4. Knows(new, users)
    BY <2>2, <2>3 DEF Knows, ResetSteps
  <2>5. users' = users /\ tokens' = tokens /\ Becomes(c, new)
    BY <1>5, <2>1 DEF FindForgetful, new
  <2> QED BY <2>4, <2>5, OneCallKnown
<1>6. CASE DeleteTokens(c)
  <2> DEFINE new == [call EXCEPT !.step = "forgotCreate"]
  <2>1. new.step = "forgotCreate" /\ new.user = call.user /\ call.step = "forgotDelete"
    BY <1>0, <1>6 DEF Call, DeleteTokens, At
  <2> HIDE DEF new
  <2>2. Knows(new, users)
    BY <1>0, <2>1 DEF Knows, ResetSteps
  <2>3. users' = users /\ tokens' \subseteq tokens /\ Becomes(c, new)
    BY <1>6 DEF DeleteTokens, GoTo, new
  <2> QED BY <2>2, <2>3, OneCallKnown
<1>7. CASE CreateToken(c)
  <2> DEFINE new == [call EXCEPT !.step = "forgotMail"]
             row == [token |-> call.id, user |-> call.user, expired |-> FALSE]
  <2>1. new.step = "forgotMail"
    BY <1>0 DEF Call
  <2>2. call.step = "forgotCreate" /\ Lowered(users, call.user)
    BY <1>0, <1>7 DEF CreateToken, At, Knows
  <2>3. row.user = call.user
    OBVIOUS
  <2> HIDE DEF new, row
  <2>4. users' = users /\ tokens' = tokens \cup {row} /\ calls' = [calls EXCEPT ![c] = new]
    BY <1>7 DEF CreateToken, GoTo, Becomes, new, row
  <2>5. Knows(new, users)
    BY <2>1 DEF Knows, ResetSteps
  <2>6. \A t \in tokens' : Lowered(users, t.user)
    BY <2>2, <2>3, <2>4 DEF Known
  <2>7. \A d \in Calls : Knows(calls'[d], users)
    BY <1>0, <2>4, <2>5 DEF Known
  <2> QED BY <2>4, <2>6, <2>7 DEF Known
<1>8. CASE FindToken(c)
  <2>1. PICK r \in Rows(call.token) :
          Becomes(c, [call EXCEPT !.user = r.user, !.step = "resetDelete"])
    BY <1>8 DEF FindToken
  <2> DEFINE new == [call EXCEPT !.user = r.user, !.step = "resetDelete"]
  <2>2. /\ new.step = "resetDelete" /\ new.user = r.user /\ call.step = "resetFind"
        /\ new.password = call.password
    BY <1>0, <1>8 DEF Call, FindToken, At
  <2>3. Lowered(users, r.user)
    BY DEF Rows, Known
  <2> HIDE DEF new
  <2>4. Knows(new, users)
    BY <1>0, <2>2, <2>3 DEF Knows, ResetSteps
  <2>5. users' = users /\ tokens' = tokens /\ Becomes(c, new)
    BY <1>8, <2>1 DEF FindToken, new
  <2> QED BY <2>4, <2>5, OneCallKnown
<1>9. CASE DeleteToken(c)
  <2>1. users' = users /\ tokens' \subseteq tokens /\ call.step = "resetDelete"
    BY <1>9 DEF DeleteToken, At
  <2> DEFINE new == [call EXCEPT !.step = "resetUpdate"]
  <2>2. /\ new.step = "resetUpdate" /\ new.user = call.user
        /\ new.password = call.password
    BY <1>0 DEF Call
  <2>3. \/ Answer(c, "link") \/ Answer(c, "credentials")
        \/ Becomes(c, new) /\ Trim[call.password] # Empty
    BY <1>9 DEF DeleteToken, GoTo
  <2> HIDE DEF new
  <2>4. CASE Becomes(c, new) /\ Trim[call.password] # Empty
    <3>1. Knows(new, users)
      BY <1>0, <2>1, <2>2, <2>4 DEF Knows, ResetSteps
    <3> QED BY <2>1, <2>4, <3>1, OneCallKnown
  <2> QED BY <2>1, <2>3, <2>4, AnswerKnown
<1>10. CASE ResetPassword(c)
  <2> DEFINE new == [call EXCEPT !.mark = users[call.user].writes + 1, !.step = "resetRevoke"]
  <2>1. /\ new.step = "resetRevoke" /\ new.user = call.user
        /\ new.password = call.password /\ call.step = "resetUpdate"
        /\ new.mark = users[call.user].writes + 1
    BY <1>0, <1>10 DEF Call, ResetPassword, At
  <2>2. call.user \in DOMAIN users /\ users[call.user].writes \in Nat
    <3>1. call.user \in DOMAIN users
      BY <1>0, <2>1 DEF Carries
    <3>2. users[call.user] \in User
      BY <1>0, <3>1 DEF TypeOK
    <3> QED BY <3>1, <3>2 DEF User
  <2>3. /\ users'[call.user].password = call.password
        /\ users'[call.user].writes = users[call.user].writes + 1
    BY <1>0, <1>10, <2>1, <2>2, SetPasswordKeeps DEF ResetPassword, Knows, ResetSteps
  <2>4. Lowered(users', call.user)
    BY <1>0, <2>1, <2>2 DEF Knows, Lowered, UsersKept
  <2> HIDE DEF new
  <2>5. Knows(new, users')
    BY <1>0, <2>1, <2>2, <2>3, <2>4 DEF Knows, ResetSteps
  <2>6. tokens' = tokens /\ Becomes(c, new)
    BY <1>10 DEF ResetPassword, new
  <2> QED BY <2>5, <2>6, OneCallKnown
<1>11. CASE RevokeSessions(c)
  <2>1. users' = users /\ tokens' = tokens /\ call.step = "resetRevoke"
    BY <1>11 DEF RevokeSessions, At
  <2>2. ASSUME NEW d \in Calls PROVE Knows(calls'[d], users)
    <3>1. calls[d] \in Call /\ Knows(calls[d], users)
      BY DEF Typed, TypeOK, Known
    <3>2. CASE d = c
      <4>1. calls'[d] = [call EXCEPT !.step = "authFind",
                                     !.email = ParsedEmail(users[call.user].email)]
        BY <1>11, <3>2 DEF RevokeSessions
      <4>2. /\ calls'[d].step = "authFind" /\ calls'[d].kind = call.kind
            /\ calls'[d].email = LowerCase[users[call.user].email]
            /\ calls'[d].user = call.user /\ calls'[d].mark = call.mark
            /\ calls'[d].password = call.password
        BY <1>0, <4>1 DEF Call, ParsedEmail
      <4> QED BY <1>0, <2>1, <4>2 DEF Knows, Lowered, ResetSteps
    <3>3. CASE d # c
      <4>1. calls'[d] = [calls[d] EXCEPT !.raced = @ \/ Verified(d, call.user)]
        BY <1>11, <3>3 DEF RevokeSessions
      <4>2. /\ calls'[d].step = calls[d].step /\ calls'[d].kind = calls[d].kind
            /\ calls'[d].email = calls[d].email /\ calls'[d].user = calls[d].user
            /\ calls'[d].mark = calls[d].mark /\ calls'[d].found = calls[d].found
            /\ calls'[d].password = calls[d].password
        BY <3>1, <4>1 DEF Call
      <4> QED BY <3>1, <4>2 DEF Knows
    <3> QED BY <3>2, <3>3
  <2> QED BY <2>1, <2>2 DEF Known
<1>12. CASE ChangePassword(c)
  <2>1. Answer(c, "credentials") \/ Answer(c, "ok")
    BY <1>12 DEF ChangePassword
  <2>2. tokens' = tokens
    BY <1>12 DEF ChangePassword
  <2> QED BY <2>1, <2>2, AnswerKnown
<1> QED
  BY <1>1, <1>2, <1>3, <1>4, <1>5, <1>6, <1>7, <1>8, <1>9, <1>10, <1>11, <1>12 DEF Step

LEMMA NextKnown ==
    ASSUME Typed, Known, [AnyNext]_vars
    PROVE  Known'
<1>0. Typed' /\ UsersKept
  BY NextTyped, NextKeepsUsers
<1>1. ASSUME NEW c \in Calls, Return(c) PROVE Known'
  <2>1. Knows(NoCall, users')
    BY DEF NoCall, Knows, ResetSteps
  <2> QED BY <1>0, <1>1, <2>1, OneCallKnown DEF Return
<1>2. ASSUME NEW r \in tokens, Expire(r) PROVE Known'
  <2>1. [r EXCEPT !.expired = TRUE].user = r.user
    BY DEF Token, Typed, TypeOK
  <2> DEFINE expired == [r EXCEPT !.expired = TRUE]
  <2>2. tokens' = (tokens \ {r}) \cup {expired} /\ UNCHANGED <<users, calls>>
    BY <1>2 DEF Expire
  <2> HIDE DEF expired
  <2>3. expired.user = r.user
    BY <2>1 DEF expired
  <2> QED BY <2>2, <2>3 DEF Known
<1>3. CASE UNCHANGED vars
  BY <1>3 DEF vars, Known
<1> QED BY <1>0, <1>1, <1>2, <1>3, RequestKnown, StepKnown DEF AnyNext

LEMMA KnownInit == Init => Known
BY DEF Init, NoCall, Known, Knows, ResetSteps

LEMMA AnyResetsCanLogIn == AnySpec => []ResetCanLogIn
<1>1. Typed /\ Known => ResetCanLogIn
  <2> SUFFICES ASSUME Typed, Known, NEW c \in Calls, At(c, "authFind"),
                      calls[c].kind = "reset",
                      users[calls[c].user].writes = calls[c].mark
               PROVE  \E u \in WithEmail(calls[c].email) :
                        u = calls[c].user /\ Verifies(u, calls[c].password)
    BY DEF ResetCanLogIn
  <2>1. calls[c].user \in DOMAIN users
    BY DEF Typed, Carries, At
  <2>2. /\ calls[c].email = users[calls[c].user].email
        /\ users[calls[c].user].password = calls[c].password
        /\ calls[c].password # Empty
    BY DEF Known, Knows, At
  <2> QED BY <2>1, <2>2 DEF WithEmail, Verifies
<1>2. Typed /\ Known /\ [AnyNext]_vars => Typed' /\ Known'
  BY NextTyped, NextKnown
<1> QED BY <1>1, <1>2, TypedInit, KnownInit, PTL DEF AnySpec

\* resetPassword logs in with a password and an address that the account has as
\* long as nobody writes the password in between.
THEOREM ResetsCanLogIn == Spec => []ResetCanLogIn
BY AnyResetsCanLogIn, SpecIsAny, PTL

-----------------------------------------------------------------------------
(***************************************************************************)
(* A session has a name of its own, a reset the account of its link.       *)
(***************************************************************************)

Over == {"idle", "answered"}

SessionsAreNamed ==
    \A s \in sessions :
        /\ s.handle \in 1..begun
        /\ \A c \in Calls : calls[c].step \notin Over => calls[c].id # s.handle

LinksAreTheirs ==
    \A c \in Calls : At(c, "resetDelete") =>
        \A r \in Rows(calls[c].token) : r.user = calls[c].user

Named == SessionsAreNamed /\ LinksAreTheirs

\* The call does not begin, and does not find a link.
Steady(c) ==
    /\ calls'[c].step \notin Over =>
         calls[c].step \notin Over /\ calls'[c].id = calls[c].id
    /\ calls'[c].step = "resetDelete" =>
         /\ calls[c].step = "resetDelete" /\ calls'[c].token = calls[c].token
         /\ calls'[c].user = calls[c].user

LEMMA SteadyNamed ==
    ASSUME Named, \A c \in Calls : Steady(c), sessions' \subseteq sessions,
           tokens' \subseteq tokens, begun' = begun
    PROVE  Named'
<1>1. SessionsAreNamed'
  BY DEF Named, SessionsAreNamed, Steady
<1>2. LinksAreTheirs'
  BY DEF Named, LinksAreTheirs, Steady, At, Rows
<1> QED BY <1>1, <1>2 DEF Named

LEMMA SteadyCallNamed ==
    ASSUME Typed, Named, NEW c \in Calls, NEW call, Becomes(c, call),
           call.step \notin Over => calls[c].step \notin Over /\ call.id = calls[c].id,
           call.step # "resetDelete",
           sessions' \subseteq sessions, tokens' \subseteq tokens, begun' = begun
    PROVE  Named'
<1>1. ASSUME NEW d \in Calls PROVE Steady(d)
  <2>1. calls' = [calls EXCEPT ![c] = call] /\ calls \in [Calls -> Call]
    BY DEF Becomes, Typed, TypeOK
  <2>2. CASE d = c
    BY <2>1, <2>2 DEF Steady
  <2>3. CASE d # c
    BY <2>1, <2>3 DEF Steady
  <2> QED BY <2>2, <2>3
<1> QED BY <1>1, SteadyNamed

LEMMA StartNamed ==
    ASSUME Typed, Named, NEW c \in Calls, NEW call, Start(c, call),
           call.id = begun + 1, call.step # "resetDelete"
    PROVE  Named'
<1>1. /\ calls' = [calls EXCEPT ![c] = call] /\ calls \in [Calls -> Call]
      /\ begun \in Nat /\ begun' = begun + 1 /\ UNCHANGED <<sessions, tokens>>
  BY AuthAssumption DEF Start, Typed, TypeOK
<1>2. SessionsAreNamed'
  <2>1. \A d \in Calls : d # c => calls'[d] = calls[d]
    BY <1>1
  <2>2. calls'[c] = call
    BY <1>1
  <2> QED BY <1>1, <2>1, <2>2 DEF Named, SessionsAreNamed
<1>3. LinksAreTheirs'
  BY <1>1 DEF Named, LinksAreTheirs, At, Rows
<1> QED BY <1>2, <1>3 DEF Named

LEMMA RequestNamed ==
    ASSUME Typed, Named, NEW c \in Calls, AnyRequest(c)
    PROVE  Named'
<1>1. ASSUME NEW e, NEW p, StartSignup(c, e, p) \/ StartLogin(c, e, p)
      PROVE  Named'
  BY <1>1, StartNamed DEF StartSignup, StartLogin, Begin, NoCall
<1>2. ASSUME NEW x, StartLogout(c, x) \/ StartForgot(c, x)
      PROVE  Named'
  BY <1>2, StartNamed DEF StartLogout, StartForgot, Begin, NoCall
<1>3. ASSUME NEW h, NEW t, NEW p, NEW q, StartReset(c, h, t, p, q)
      PROVE  Named'
  <2>1. CASE t = 0
    BY <1>3, <2>1, StartNamed DEF StartReset, Answered, Begin, NoCall
  <2>2. CASE t # 0
    BY <1>3, <2>2, StartNamed DEF StartReset, Begin, NoCall
  <2> QED BY <2>1, <2>2
<1>4. ASSUME NEW h, NEW p, NEW q, StartChange(c, h, p, q)
      PROVE  Named'
  <2>1. CASE LiveUser(h) = {}
    BY <1>4, <2>1, StartNamed DEF StartChange, Answered, Begin, NoCall
  <2>2. CASE LiveUser(h) # {}
    <3>1. PICK u \in LiveUser(h) :
            Start(c, [Begin(c, "change", "authFind", h) EXCEPT
                        !.user = u, !.email = ParsedEmail(users[u].email),
                        !.password = p, !.next = Trim[Parsed(q)]])
      BY <1>4, <2>2 DEF StartChange
    <3> QED BY <3>1, StartNamed DEF Begin, NoCall
  <2> QED BY <2>1, <2>2
<1> QED BY <1>1, <1>2, <1>3, <1>4 DEF Request, AnyRequest

LEMMA StepNamed ==
    ASSUME Typed, Linked, Named, NEW c \in Calls, Step(c)
    PROVE  Named'
<1> DEFINE call == calls[c]
<1>0. /\ call \in Call /\ Carries(call, begun, DOMAIN users)
      /\ calls \in [Calls -> Call]
  BY DEF Typed, TypeOK
<1>1. CASE Authenticate(c)
  <2>1. PICK u \in WithEmail(call.email) :
          Becomes(c, [call EXCEPT !.found = u, !.proof = users[u].resets,
                        !.step = IF users[u].old THEN "rehash" ELSE AfterAuthenticate(c)])
    BY <1>1 DEF Authenticate
  <2> DEFINE new == [call EXCEPT !.found = u, !.proof = users[u].resets,
                       !.step = IF users[u].old THEN "rehash" ELSE AfterAuthenticate(c)]
  <2>2. new.id = call.id /\ new.step # "resetDelete" /\ call.step \notin Over
    BY <1>0, <1>1 DEF Call, AfterAuthenticate, Authenticate, At, Over
  <2>3. Becomes(c, new) /\ UNCHANGED <<sessions, tokens, begun>>
    BY <1>1, <2>1 DEF Authenticate
  <2> HIDE DEF new
  <2> QED BY <2>2, <2>3, SteadyCallNamed
<1>2. CASE \/ RejectCredentials(c) \/ EmailTaken(c) \/ Logout(c) \/ FindNobody(c)
           \/ SendMail(c) \/ FailToMail(c) \/ FindNoToken(c) \/ DeleteNoToken(c)
           \/ ChangePassword(c)
  <2>1. /\ sessions' \subseteq sessions /\ tokens' = tokens /\ begun' = begun
        /\ \E a : Answer(c, a)
    BY <1>2
    DEF RejectCredentials, EmailTaken, Logout, FindNobody, SendMail, FailToMail,
        FindNoToken, DeleteNoToken, ChangePassword
  <2> QED BY <2>1, SteadyCallNamed DEF Answer, Answered, NoCall, Over
<1>3. CASE Rehash(c)
  <2> DEFINE new == [call EXCEPT !.step = AfterAuthenticate(c)]
  <2>1. new.id = call.id /\ new.step # "resetDelete" /\ call.step \notin Over
    BY <1>0, <1>3 DEF Call, AfterAuthenticate, Rehash, At, Over
  <2>2. Becomes(c, new) /\ UNCHANGED <<sessions, tokens, begun>>
    BY <1>3 DEF Rehash, GoTo
  <2> HIDE DEF new
  <2> QED BY <2>1, <2>2, SteadyCallNamed
\* The session has the name of its call, which no other call and no session has.
<1>4. CASE CreateSession(c)
  <2> DEFINE row == [handle |-> call.id, user |-> call.found, proof |-> call.proof,
                     raced |-> call.raced]
             new == Answered(call, "ok")
  <2>1. /\ sessions' = sessions \cup {row} /\ tokens' = tokens /\ begun' = begun
        /\ calls' = [calls EXCEPT ![c] = new] /\ call.step = "create"
    BY <1>4 DEF CreateSession, Answer, Becomes, At
  <2>2. row.handle = call.id /\ new.step = "answered"
    BY DEF Answered, NoCall
  <2> HIDE DEF row, new
  <2>3. call.id \in 1..begun
    BY <1>0, <2>1 DEF Carries
  <2>4. \A d \in Calls \ {c} : calls'[d] = calls[d]
    BY <1>0, <2>1
  <2>5. calls'[c].step = "answered"
    BY <1>0, <2>1, <2>2
  <2>6. \A d \in Calls \ {c} : calls[d].step \notin Over => calls[d].id # call.id
    BY <2>1 DEF Linked, NamesAreFresh, At, Over
  <2>7. SessionsAreNamed'
    <3> SUFFICES ASSUME NEW s \in sessions'
                 PROVE  /\ s.handle \in 1..begun
                        /\ \A d \in Calls : calls'[d].step \notin Over => calls'[d].id # s.handle
      BY <2>1 DEF SessionsAreNamed
    <3>1. CASE s \in sessions
      BY <2>4, <2>5, <3>1 DEF Named, SessionsAreNamed, Over
    <3>2. CASE s = row
      BY <2>2, <2>3, <2>4, <2>5, <2>6, <3>2 DEF Over
    <3> QED BY <2>1, <3>1, <3>2
  <2>8. LinksAreTheirs'
    BY <2>1, <2>4, <2>5 DEF Named, LinksAreTheirs, At, Rows
  <2> QED BY <2>7, <2>8 DEF Named
<1>5. CASE CreateUser(c)
  <2> DEFINE new == [call EXCEPT !.found = Len(users) + 1, !.step = "create"]
  <2>1. new.id = call.id /\ new.step = "create" /\ call.step \notin Over
    BY <1>0, <1>5 DEF Call, CreateUser, At, Over
  <2>2. Becomes(c, new) /\ UNCHANGED <<sessions, tokens, begun>>
    BY <1>5 DEF CreateUser
  <2> HIDE DEF new
  <2> QED BY <2>1, <2>2, SteadyCallNamed
<1>6. CASE FindForgetful(c)
  <2>1. PICK u : Becomes(c, [call EXCEPT !.user = u, !.step = "forgotDelete"])
    BY <1>6 DEF FindForgetful
  <2> DEFINE new == [call EXCEPT !.user = u, !.step = "forgotDelete"]
  <2>2. new.id = call.id /\ new.step = "forgotDelete" /\ call.step \notin Over
    BY <1>0, <1>6 DEF Call, FindForgetful, At, Over
  <2>3. Becomes(c, new) /\ UNCHANGED <<sessions, tokens, begun>>
    BY <1>6, <2>1 DEF FindForgetful
  <2> HIDE DEF new
  <2> QED BY <2>2, <2>3, SteadyCallNamed
<1>7. CASE DeleteTokens(c)
  <2> DEFINE new == [call EXCEPT !.step = "forgotCreate"]
  <2>1. new.id = call.id /\ new.step = "forgotCreate" /\ call.step \notin Over
    BY <1>0, <1>7 DEF Call, DeleteTokens, At, Over
  <2>2. Becomes(c, new) /\ tokens' \subseteq tokens /\ UNCHANGED <<sessions, begun>>
    BY <1>7 DEF DeleteTokens, GoTo
  <2> HIDE DEF new
  <2> QED BY <2>1, <2>2, SteadyCallNamed
\* Nobody has come with the new link yet.
<1>8. CASE CreateToken(c)
  <2> DEFINE new == [call EXCEPT !.step = "forgotMail"]
             row == [token |-> call.id, user |-> call.user, expired |-> FALSE]
  <2>1. /\ new.id = call.id /\ new.step = "forgotMail" /\ call.step = "forgotCreate"
        /\ row.token = call.id
    BY <1>0, <1>8 DEF Call, CreateToken, At
  <2> HIDE DEF new, row
  <2>2. /\ tokens' = tokens \cup {row} /\ calls' = [calls EXCEPT ![c] = new]
        /\ UNCHANGED <<sessions, begun>>
    BY <1>8 DEF CreateToken, GoTo, Becomes, new, row
  <2>3. SessionsAreNamed'
    BY <1>0, <2>1, <2>2 DEF Named, SessionsAreNamed, Over
  <2>4. ASSUME NEW d \in Calls, calls[d].step = "resetDelete"
        PROVE  calls[d].token # call.id
    <3>1. calls[d].token \in Ids
      BY <2>4 DEF Typed, Carries, ResetSteps
    <3>2. calls[d].token \in Mailed
      BY <3>1 DEF Linked, NamesAreFresh, Ids
    <3> QED BY <2>1, <3>2 DEF Linked, NamesAreFresh, Mailed, Making
  <2>5. LinksAreTheirs'
    BY <1>0, <2>1, <2>2, <2>4 DEF Named, LinksAreTheirs, At, Rows
  <2> QED BY <2>3, <2>5 DEF Named
\* A link has one row.
<1>9. CASE FindToken(c)
  <2>1. PICK r \in Rows(call.token) :
          Becomes(c, [call EXCEPT !.user = r.user, !.step = "resetDelete"])
    BY <1>9 DEF FindToken
  <2> DEFINE new == [call EXCEPT !.user = r.user, !.step = "resetDelete"]
  <2>2. /\ new.id = call.id /\ new.step = "resetDelete" /\ call.step \notin Over
        /\ new.user = r.user /\ new.token = call.token
    BY <1>0, <1>9 DEF Call, FindToken, At, Over
  <2> HIDE DEF new
  <2>3. /\ calls' = [calls EXCEPT ![c] = new]
        /\ UNCHANGED <<sessions, tokens, begun>>
    BY <1>9, <2>1 DEF FindToken, Becomes, new
  <2>4. SessionsAreNamed'
    BY <1>0, <2>2, <2>3 DEF Named, SessionsAreNamed
  <2>5. \A q \in Rows(call.token) : q.user = r.user
    BY DEF Rows, Linked, RowsAreOpen
  <2>6. LinksAreTheirs'
    BY <1>0, <2>2, <2>3, <2>5 DEF Named, LinksAreTheirs, At, Rows
  <2> QED BY <2>4, <2>6 DEF Named
<1>10. CASE DeleteToken(c)
  <2> DEFINE new == [call EXCEPT !.step = "resetUpdate"]
  <2>1. new.id = call.id /\ new.step = "resetUpdate" /\ call.step \notin Over
    BY <1>0, <1>10 DEF Call, DeleteToken, At, Over
  <2>2. /\ Answer(c, "link") \/ Answer(c, "credentials") \/ Becomes(c, new)
        /\ tokens' \subseteq tokens /\ UNCHANGED <<sessions, begun>>
    BY <1>10 DEF DeleteToken, GoTo
  <2> HIDE DEF new
  <2>3. ASSUME NEW a, Answer(c, a) PROVE Named'
    BY <2>2, <2>3, SteadyCallNamed DEF Answer, Answered, NoCall, Over
  <2> QED BY <2>1, <2>2, <2>3, SteadyCallNamed
<1>11. CASE ResetPassword(c)
  <2> DEFINE new == [call EXCEPT !.mark = users[call.user].writes + 1, !.step = "resetRevoke"]
  <2>1. new.id = call.id /\ new.step = "resetRevoke" /\ call.step \notin Over
    BY <1>0, <1>11 DEF Call, ResetPassword, At, Over
  <2>2. Becomes(c, new) /\ UNCHANGED <<sessions, tokens, begun>>
    BY <1>11 DEF ResetPassword
  <2> HIDE DEF new
  <2> QED BY <2>1, <2>2, SteadyCallNamed
<1>12. CASE RevokeSessions(c)
  <2>1. ASSUME NEW d \in Calls PROVE Steady(d)
    <3>1. calls[d] \in Call
      BY <1>0
    <3>2. CASE d = c
      <4>1. calls'[d] = [call EXCEPT !.step = "authFind",
                                     !.email = ParsedEmail(users[call.user].email)]
        BY <1>12, <3>2 DEF RevokeSessions
      <4>2. call.step = "resetRevoke"
        BY <1>12 DEF RevokeSessions, At
      <4> QED BY <1>0, <3>2, <4>1, <4>2 DEF Steady, Call, Over
    <3>3. CASE d # c
      <4>1. calls'[d] = [calls[d] EXCEPT !.raced = @ \/ Verified(d, call.user)]
        BY <1>12, <3>3 DEF RevokeSessions
      <4> QED BY <3>1, <4>1 DEF Steady, Call
    <3> QED BY <3>2, <3>3
  <2>2. sessions' \subseteq sessions /\ UNCHANGED <<tokens, begun>>
    BY <1>12 DEF RevokeSessions
  <2> QED BY <2>1, <2>2, SteadyNamed
<1> QED
  BY <1>1, <1>2, <1>3, <1>4, <1>5, <1>6, <1>7, <1>8, <1>9, <1>10, <1>11, <1>12 DEF Step

LEMMA NextNamed ==
    ASSUME Typed, Linked, Named, [AnyNext]_vars
    PROVE  Named'
<1>1. ASSUME NEW c \in Calls, Return(c) PROVE Named'
  BY <1>1, SteadyCallNamed DEF Return, NoCall, Over
<1>2. ASSUME NEW r \in tokens, Expire(r) PROVE Named'
  <2> DEFINE expired == [r EXCEPT !.expired = TRUE]
  <2>1. expired.user = r.user /\ expired.token = r.token
    BY DEF Token, Typed, TypeOK
  <2>2. tokens' = (tokens \ {r}) \cup {expired} /\ UNCHANGED <<sessions, begun, calls>>
    BY <1>2 DEF Expire
  <2> HIDE DEF expired
  <2>3. SessionsAreNamed'
    BY <2>2 DEF Named, SessionsAreNamed
  <2>4. LinksAreTheirs'
    BY <2>1, <2>2 DEF Named, LinksAreTheirs, At, Rows
  <2> QED BY <2>3, <2>4 DEF Named
<1>3. CASE UNCHANGED vars
  BY <1>3, SteadyNamed DEF vars, Steady
<1> QED BY <1>1, <1>2, <1>3, RequestNamed, StepNamed DEF AnyNext

LEMMA NamedInit == Init => Named
BY DEF Init, NoCall, Named, SessionsAreNamed, LinksAreTheirs, At

-----------------------------------------------------------------------------
(***************************************************************************)
(* AuthMutations implements AccountPromise.                                *)
(***************************************************************************)

Accounts == [u \in DOMAIN users |-> [email |-> users[u].email,
                                     password |-> users[u].password]]
Claims == [c \in Calls |-> Claimed(c)]
Members == {[handle |-> s.handle, user |-> s.user] : s \in sessions}

\* What the promise speaks of, one step of it and a stutter, under these names.
PromiseStep == Promise!Next \/ UNCHANGED <<Accounts, Claims, OpenLinks, Members>>

Account == [email : EmailTexts, password : PasswordTexts]

LEMMA AccountsTyped ==
    ASSUME TypeOK
    PROVE  /\ Accounts \in Seq(Account) /\ Len(Accounts) = Len(users)
           /\ Len(users) \in Nat /\ DOMAIN users = 1..Len(users)
           /\ \A u \in DOMAIN users : users[u] \in User
<1>1. users \in Seq(User)
  BY DEF TypeOK
<1>2. Len(users) \in Nat /\ DOMAIN users = 1..Len(users)
  BY <1>1
<1>3. \A u \in DOMAIN users : users[u] \in User
  BY <1>1
<1>4. Accounts \in [1..Len(users) -> Account]
  BY <1>2, <1>3 DEF Accounts, User, Account
<1>5. Accounts \in Seq(Account)
  BY <1>2, <1>4, SeqDef
<1>6. DOMAIN Accounts = 1..Len(users) /\ DOMAIN Accounts = 1..Len(Accounts)
      /\ Len(Accounts) \in Nat
  BY <1>4, <1>5
<1>7. Len(Accounts) = Len(users)
  BY <1>2, <1>6
<1> QED BY <1>2, <1>3, <1>5, <1>7

LEMMA InitPromised == Init => Promise!Init
<1> SUFFICES ASSUME Init PROVE Promise!Init
  OBVIOUS
<1>1. Accounts \in Seq([email : EmailTexts, password : PasswordTexts])
  BY TypedInit, AccountsTyped DEF Typed, Account
<1>2. Claims = [c \in Calls |-> {}]
  BY DEF Claims, Claimed, Init, NoCall
<1>3. OpenLinks = {}
  BY DEF OpenLinks, Init, NoCall, At
<1>4. Members = {}
  BY DEF Members, Init
<1> QED BY <1>1, <1>2, <1>3, <1>4 DEF Promise!Init, Accounts, Claims, Members

\* The steps of the promise.

LEMMA ShowStep ==
    ASSUME NEW c \in Calls, NEW u \in DOMAIN users,
           Claims' = [Claims EXCEPT ![c] = {[user |-> u, password |-> users[u].password]}],
           UNCHANGED <<Accounts, OpenLinks, Members>>
    PROVE  PromiseStep
<1>1. Accounts[u].password = users[u].password /\ u \in DOMAIN Accounts
  BY DEF Accounts
<1>2. Promise!Show(c)
  BY <1>1 DEF Promise!Show, Promise!Claim, Accounts, Claims, Members
<1> QED BY <1>2 DEF Promise!Next, PromiseStep

LEMMA EnterStep ==
    ASSUME NEW c \in Calls, NEW x \in Claimed(c), NEW h \in Ids,
           \A m \in Members : m.handle # h,
           Claims' = [Claims EXCEPT ![c] = {}],
           Members' = Members \cup {[handle |-> h, user |-> x.user]},
           UNCHANGED <<Accounts, OpenLinks>>
    PROVE  PromiseStep
<1>1. x \in Claims[c] /\ h \notin {m.handle : m \in Members}
  BY DEF Claims
<1>2. Promise!Enter(c)
  BY <1>1 DEF Promise!Enter, Accounts, Claims, Members
<1> QED BY <1>2 DEF Promise!Next, PromiseStep

LEMMA StoreStep ==
    ASSUME NEW c \in Calls, NEW x \in Claimed(c),
           Accounts' = [Accounts EXCEPT ![x.user].password = x.password],
           UNCHANGED <<Claims, OpenLinks, Members>>
    PROVE  PromiseStep
<1>1. x \in Claims[c]
  BY DEF Claims
<1>2. Promise!Store(c)
  BY <1>1 DEF Promise!Store, Accounts, Claims, Members
<1> QED BY <1>2 DEF Promise!Next, PromiseStep

LEMMA SignUpStep ==
    ASSUME NEW c \in Calls, NEW e \in EmailTexts, NEW p \in PasswordTexts,
           \A u \in DOMAIN Accounts : Accounts[u].email # e,
           Accounts' = Append(Accounts, [email |-> e, password |-> p]),
           Claims' = [Claims EXCEPT ![c] =
                        {[user |-> Len(Accounts) + 1, password |-> p]}],
           UNCHANGED <<OpenLinks, Members>>
    PROVE  PromiseStep
<1>1. Promise!SignUp(c)
  BY DEF Promise!SignUp, Promise!Claim, Accounts, Claims, Members
<1> QED BY <1>1 DEF Promise!Next, PromiseStep

LEMMA ChangeStep ==
    ASSUME NEW c \in Calls, NEW x \in Claimed(c), NEW u \in DOMAIN users,
           NEW p \in PasswordTexts, x.user \in DOMAIN users,
           users[x.user].email = LowerCase[users[u].email],
           Accounts' = [Accounts EXCEPT ![u].password = p],
           Claims' = [Claims EXCEPT ![c] = {}],
           UNCHANGED <<OpenLinks, Members>>
    PROVE  PromiseStep
<1>1. x \in Claims[c] /\ u \in DOMAIN Accounts
  BY DEF Claims, Accounts
<1>2. Promise!Vouches(x.user, u)
  BY DEF Promise!Vouches, Accounts
<1>3. Promise!Change(c)
  BY <1>1, <1>2 DEF Promise!Change, Accounts, Claims, Members
<1> QED BY <1>3 DEF Promise!Next, PromiseStep

LEMMA GiveUpStep ==
    ASSUME NEW c \in Calls, Claims' = [Claims EXCEPT ![c] = {}],
           UNCHANGED <<Accounts, OpenLinks, Members>>
    PROVE  PromiseStep
<1>1. Promise!GiveUp(c)
  BY DEF Promise!GiveUp, Accounts, Claims, Members
<1> QED BY <1>1 DEF Promise!Next, PromiseStep

LEMMA IssueStep ==
    ASSUME NEW u \in DOMAIN users, NEW l \in Ids, \A k \in OpenLinks : k.link # l,
           OpenLinks' = OpenLinks \cup {[link |-> l, user |-> u]},
           UNCHANGED <<Accounts, Claims, Members>>
    PROVE  PromiseStep
<1>1. u \in DOMAIN Accounts /\ l \notin {k.link : k \in OpenLinks}
  BY DEF Accounts
<1>2. Promise!Issue
  BY <1>1 DEF Promise!Issue, Accounts, Claims, Members
<1> QED BY <1>2 DEF Promise!Next, PromiseStep

LEMMA WithdrawStep ==
    ASSUME OpenLinks' \subseteq OpenLinks, UNCHANGED <<Accounts, Claims, Members>>
    PROVE  PromiseStep
<1>1. Promise!Withdraw
  BY DEF Promise!Withdraw, Accounts, Claims, Members
<1> QED BY <1>1 DEF Promise!Next, PromiseStep

LEMMA RedeemStep ==
    ASSUME NEW k \in OpenLinks, NEW p \in PasswordTexts,
           OpenLinks' = OpenLinks \ {k},
           Accounts' = [Accounts EXCEPT ![k.user].password = p],
           UNCHANGED <<Claims, Members>>
    PROVE  PromiseStep
<1>1. Promise!Redeem
  BY DEF Promise!Redeem, Accounts, Claims, Members
<1> QED BY <1>1 DEF Promise!Next, PromiseStep

LEMMA LeaveStep ==
    ASSUME Members' \subseteq Members, UNCHANGED <<Accounts, Claims, OpenLinks>>
    PROVE  PromiseStep
<1>1. Promise!Leave
  BY DEF Promise!Leave, Accounts, Claims, Members
<1> QED BY <1>1 DEF Promise!Next, PromiseStep

\* What a step of the mutations is to the promise.

ClaimedBy(call) ==
    IF call.step \in {"rehash", "create", "changeUpdate"}
    THEN {[user |-> call.found, password |-> call.password]} ELSE {}

RowLinks == {[link |-> t.token, user |-> t.user] : t \in tokens}
Redeeming == {c \in Calls : At(c, "resetUpdate")}
CallLinks == {[link |-> calls[c].token, user |-> calls[c].user] : c \in Redeeming}

LEMMA TwoSortsOfLinks ==
    OpenLinks = RowLinks \cup CallLinks /\ OpenLinks' = RowLinks' \cup CallLinks'
BY DEF OpenLinks, RowLinks, CallLinks, Redeeming

LEMMA OneCallClaims ==
    ASSUME Typed, NEW c \in Calls, NEW call, Becomes(c, call)
    PROVE  Claims' = [Claims EXCEPT ![c] = ClaimedBy(call)]
<1>1. calls' = [calls EXCEPT ![c] = call] /\ calls \in [Calls -> Call]
  BY DEF Becomes, Typed, TypeOK
<1> QED BY <1>1 DEF Claims, Claimed, ClaimedBy

LEMMA SameClaims ==
    ASSUME Typed, NEW c \in Calls, NEW call, Becomes(c, call),
           ClaimedBy(call) = ClaimedBy(calls[c])
    PROVE  Claims' = Claims
<1>1. Claims' = [Claims EXCEPT ![c] = Claims[c]]
  BY OneCallClaims DEF Claims, Claimed, ClaimedBy
<1> QED BY <1>1 DEF Claims

LEMMA SameCallLinks ==
    ASSUME Typed, NEW c \in Calls, NEW call, Becomes(c, call),
           ~At(c, "resetUpdate"), call.step # "resetUpdate"
    PROVE  CallLinks' = CallLinks
<1>1. calls' = [calls EXCEPT ![c] = call] /\ calls \in [Calls -> Call]
  BY DEF Becomes, Typed, TypeOK
<1>2. \A d \in Calls : d # c => calls'[d] = calls[d]
  BY <1>1
<1>3. calls'[c].step # "resetUpdate"
  BY <1>1
<1>4. Redeeming' = Redeeming
  BY <1>2, <1>3 DEF Redeeming, At
<1>5. \A d \in Redeeming : calls'[d] = calls[d]
  BY <1>2 DEF Redeeming
<1> QED BY <1>4, <1>5 DEF CallLinks

LEMMA StutterStep ==
    ASSUME Typed, NEW c \in Calls, NEW call, Becomes(c, call),
           ClaimedBy(call) = ClaimedBy(calls[c]),
           ~At(c, "resetUpdate"), call.step # "resetUpdate",
           UNCHANGED <<users, tokens, sessions>>
    PROVE  PromiseStep
<1>1. Claims' = Claims /\ CallLinks' = CallLinks
  BY SameClaims, SameCallLinks
<1>2. Accounts' = Accounts /\ Members' = Members /\ RowLinks' = RowLinks
  BY DEF Accounts, Members, RowLinks
<1> QED BY <1>1, <1>2, TwoSortsOfLinks DEF PromiseStep

LEMMA AnswerStutters ==
    ASSUME Typed, NEW c \in Calls, NEW a, Answer(c, a), ClaimedBy(calls[c]) = {},
           ~At(c, "resetUpdate"), UNCHANGED <<users, tokens, sessions>>
    PROVE  PromiseStep
BY StutterStep DEF Answer, Answered, NoCall, ClaimedBy

LEMMA RequestStutters ==
    ASSUME Typed, NEW c \in Calls, AnyRequest(c)
    PROVE  PromiseStep
<1>1. ASSUME NEW call, Start(c, call),
             call.step \notin {"rehash", "create", "changeUpdate", "resetUpdate"}
      PROVE  PromiseStep
  BY <1>1, StutterStep DEF Start, Becomes, ClaimedBy, At
<1>2. ASSUME NEW e, NEW p, StartSignup(c, e, p) \/ StartLogin(c, e, p)
      PROVE  PromiseStep
  BY <1>1, <1>2 DEF StartSignup, StartLogin, Begin, NoCall
<1>3. ASSUME NEW x, StartLogout(c, x) \/ StartForgot(c, x)
      PROVE  PromiseStep
  BY <1>1, <1>3 DEF StartLogout, StartForgot, Begin, NoCall
<1>4. ASSUME NEW h, NEW t, NEW p, NEW q, StartReset(c, h, t, p, q)
      PROVE  PromiseStep
  <2>1. CASE t = 0
    BY <1>1, <1>4, <2>1 DEF StartReset, Answered, Begin, NoCall
  <2>2. CASE t # 0
    BY <1>1, <1>4, <2>2 DEF StartReset, Begin, NoCall
  <2> QED BY <2>1, <2>2
<1>5. ASSUME NEW h, NEW p, NEW q, StartChange(c, h, p, q)
      PROVE  PromiseStep
  <2>1. CASE LiveUser(h) = {}
    BY <1>1, <1>5, <2>1 DEF StartChange, Answered, Begin, NoCall
  <2>2. CASE LiveUser(h) # {}
    <3>1. PICK u \in LiveUser(h) :
            Start(c, [Begin(c, "change", "authFind", h) EXCEPT
                        !.user = u, !.email = ParsedEmail(users[u].email),
                        !.password = p, !.next = Trim[Parsed(q)]])
      BY <1>5, <2>2 DEF StartChange
    <3> QED BY <1>1, <3>1 DEF Begin, NoCall
  <2> QED BY <2>1, <2>2
<1> QED BY <1>2, <1>3, <1>4, <1>5 DEF Request, AnyRequest

LEMMA SetPasswordOfAccount ==
    ASSUME TypeOK, NEW u \in DOMAIN users, NEW p, NEW byReset, SetPassword(u, p, byReset)
    PROVE  Accounts' = [Accounts EXCEPT ![u].password = p]
<1>1. users \in [1..Len(users) -> User] /\ DOMAIN users' = DOMAIN users
  BY AccountsTyped DEF TypeOK, SetPassword
<1>2. \A v \in DOMAIN users : v # u => users'[v] = users[v]
  BY <1>1 DEF SetPassword
<1>3. users[u] \in User
  BY <1>1
<1>4. users'[u].email = users[u].email /\ users'[u].password = p
  BY <1>1, <1>3 DEF SetPassword, User
<1>5. Accounts' = [v \in DOMAIN users |-> [email |-> users'[v].email,
                                           password |-> users'[v].password]]
  BY <1>1 DEF Accounts
<1>6. \A v \in DOMAIN users : Accounts'[v] = [Accounts EXCEPT ![u].password = p][v]
  <2> SUFFICES ASSUME NEW v \in DOMAIN users
               PROVE  Accounts'[v] = [Accounts EXCEPT ![u].password = p][v]
    OBVIOUS
  <2>1. CASE v = u
    BY <1>4, <1>5, <2>1 DEF Accounts
  <2>2. CASE v # u
    BY <1>2, <1>5, <2>2 DEF Accounts
  <2> QED BY <2>1, <2>2
<1> QED BY <1>5, <1>6 DEF Accounts

LEMMA AuthenticateShows ==
    ASSUME Typed, NEW c \in Calls, Authenticate(c)
    PROVE  PromiseStep
<1> DEFINE call == calls[c]
<1>0. call \in Call /\ call.step = "authFind"
  BY DEF Typed, TypeOK, Authenticate, At
<1>1. PICK u \in WithEmail(call.email) :
        /\ Verifies(u, call.password)
        /\ Becomes(c, [call EXCEPT !.found = u, !.proof = users[u].resets,
                        !.step = IF users[u].old THEN "rehash" ELSE AfterAuthenticate(c)])
  BY DEF Authenticate
<1> DEFINE new == [call EXCEPT !.found = u, !.proof = users[u].resets,
                     !.step = IF users[u].old THEN "rehash" ELSE AfterAuthenticate(c)]
<1>2. /\ new.found = u /\ new.password = users[u].password /\ new.step # "resetUpdate"
      /\ new.step \in {"rehash", "create", "changeUpdate"}
  BY <1>0, <1>1 DEF Call, AfterAuthenticate, Verifies
<1>3. Becomes(c, new) /\ UNCHANGED <<users, tokens, sessions>>
  BY <1>1 DEF Authenticate
<1> HIDE DEF new
<1>4. Claims' = [Claims EXCEPT ![c] = {[user |-> u, password |-> users[u].password]}]
  BY <1>2, <1>3, OneCallClaims DEF ClaimedBy
<1>5. CallLinks' = CallLinks
  BY <1>0, <1>2, <1>3, SameCallLinks DEF At
<1>6. OpenLinks' = OpenLinks
  BY <1>3, <1>5, TwoSortsOfLinks DEF RowLinks
<1>7. Accounts' = Accounts /\ Members' = Members /\ u \in DOMAIN users
  BY <1>3 DEF Accounts, Members, WithEmail
<1> QED BY <1>4, <1>6, <1>7, ShowStep

LEMMA RehashStores ==
    ASSUME Typed, NEW c \in Calls, Rehash(c)
    PROVE  PromiseStep
<1> DEFINE call == calls[c]
           new == [call EXCEPT !.step = AfterAuthenticate(c)]
           x == [user |-> call.found, password |-> call.password]
<1>0. call \in Call /\ call.step = "rehash"
  BY DEF Typed, TypeOK, Rehash, At
<1>1. /\ new.found = call.found /\ new.password = call.password
      /\ new.step \in {"create", "changeUpdate"}
  BY <1>0 DEF Call, AfterAuthenticate
<1>2. /\ Becomes(c, new) /\ UNCHANGED <<tokens, sessions>>
      /\ SetPassword(call.found, call.password, FALSE)
  BY DEF Rehash, GoTo
<1>3. x.user = call.found /\ x.password = call.password /\ x \in Claimed(c)
  BY <1>0 DEF Claimed
<1> HIDE DEF new, x
<1>4. Claims' = Claims
  BY <1>0, <1>1, <1>2, SameClaims DEF ClaimedBy
<1>5. CallLinks' = CallLinks
  BY <1>0, <1>1, <1>2, SameCallLinks DEF At
<1>6. OpenLinks' = OpenLinks
  BY <1>2, <1>5, TwoSortsOfLinks DEF RowLinks
<1>7. Accounts' = [Accounts EXCEPT ![call.found].password = call.password]
  BY <1>0, <1>2, SetPasswordOfAccount DEF Typed, Carries
<1>8. Members' = Members
  BY <1>2 DEF Members
<1> QED BY <1>3, <1>4, <1>6, <1>7, <1>8, StoreStep

LEMMA CreateSessionEnters ==
    ASSUME Typed, Named, NEW c \in Calls, CreateSession(c)
    PROVE  PromiseStep
<1> DEFINE call == calls[c]
           row == [handle |-> call.id, user |-> call.found, proof |-> call.proof,
                   raced |-> call.raced]
           new == Answered(call, "ok")
           x == [user |-> call.found, password |-> call.password]
<1>0. call \in Call /\ call.step = "create" /\ Carries(call, begun, DOMAIN users)
  BY DEF Typed, TypeOK, CreateSession, At
<1>1. ClaimedBy(new) = {} /\ new.step # "resetUpdate"
  BY DEF Answered, NoCall, ClaimedBy
<1>2. /\ Becomes(c, new) /\ UNCHANGED <<tokens, users>>
      /\ sessions' = sessions \cup {row}
  BY DEF CreateSession, Answer
<1>3. x.user = call.found /\ x \in Claimed(c)
  BY <1>0 DEF Claimed
<1>4. row.handle = call.id /\ row.user = call.found
  OBVIOUS
<1> HIDE DEF new, x, row
<1>5. Claims' = [Claims EXCEPT ![c] = {}]
  BY <1>1, <1>2, OneCallClaims
<1>6. CallLinks' = CallLinks
  BY <1>0, <1>1, <1>2, SameCallLinks DEF At
<1>7. OpenLinks' = OpenLinks /\ Accounts' = Accounts
  BY <1>2, <1>6, TwoSortsOfLinks DEF RowLinks, Accounts
<1>8. Members' = Members \cup {[handle |-> call.id, user |-> x.user]}
  BY <1>2, <1>3, <1>4 DEF Members
<1>9. \A m \in Members : m.handle # call.id
  BY <1>0 DEF Members, Named, SessionsAreNamed, Over
<1>10. call.id \in Ids
  BY <1>0, AuthAssumption DEF Carries, Ids, Typed, TypeOK
<1> QED BY <1>3, <1>5, <1>7, <1>8, <1>9, <1>10, EnterStep

LEMMA CreateUserSignsUp ==
    ASSUME Typed, NEW c \in Calls, CreateUser(c)
    PROVE  PromiseStep
<1> DEFINE call == calls[c]
           row == [email |-> call.email, password |-> call.password,
                   old |-> FALSE, writes |-> 0, resets |-> 0]
           new == [call EXCEPT !.found = Len(users) + 1, !.step = "create"]
<1>0. call \in Call /\ call.step = "signup" /\ Carries(call, begun, DOMAIN users)
  BY DEF Typed, TypeOK, CreateUser, At
<1>1. /\ new.found = Len(users) + 1 /\ new.password = call.password
      /\ new.step = "create"
  BY <1>0 DEF Call
<1>2. /\ Becomes(c, new) /\ UNCHANGED <<tokens, sessions>>
      /\ users' = Append(users, row) /\ WithEmail(call.email) = {}
  BY DEF CreateUser
<1>3. row.email = call.email /\ row.password = call.password
  OBVIOUS
<1> HIDE DEF new, row
<1>4. /\ Accounts \in Seq(Account) /\ Len(Accounts) = Len(users)
      /\ Len(users) \in Nat /\ DOMAIN users = 1..Len(users) /\ users \in Seq(User)
  BY AccountsTyped DEF Typed, TypeOK
<1>5. Claims' = [Claims EXCEPT ![c] =
                   {[user |-> Len(Accounts) + 1, password |-> call.password]}]
  BY <1>1, <1>2, <1>4, OneCallClaims DEF ClaimedBy
<1>6. CallLinks' = CallLinks
  BY <1>0, <1>1, <1>2, SameCallLinks DEF At
<1>7. OpenLinks' = OpenLinks /\ Members' = Members
  BY <1>2, <1>6, TwoSortsOfLinks DEF RowLinks, Members
<1>8. Accounts' = Append(Accounts, [email |-> call.email, password |-> call.password])
  <2>1. /\ DOMAIN users' = 1..(Len(users) + 1)
        /\ \A u \in 1..Len(users) : users'[u] = users[u]
        /\ users'[Len(users) + 1] = row
    BY <1>2, <1>4
  <2>2. Accounts' = [u \in 1..(Len(users) + 1) |->
                       [email |-> users'[u].email, password |-> users'[u].password]]
    BY <2>1 DEF Accounts
  <2> DEFINE more == Append(Accounts, [email |-> call.email, password |-> call.password])
  <2>3. /\ more = [u \in 1..(Len(users) + 1) |-> more[u]]
        /\ \A u \in 1..Len(users) : more[u] = Accounts[u]
        /\ more[Len(users) + 1] = [email |-> call.email, password |-> call.password]
    BY <1>0, <1>4 DEF Carries, Account
  <2> HIDE DEF more
  <2>4. \A u \in 1..Len(users) : Accounts'[u] = more[u]
    <3> SUFFICES ASSUME NEW u \in 1..Len(users) PROVE Accounts'[u] = more[u]
      OBVIOUS
    <3>1. more[u] = [email |-> users[u].email, password |-> users[u].password]
      BY <1>4, <2>3 DEF Accounts
    <3>2. u \in 1..(Len(users) + 1) /\ users'[u] = users[u]
      BY <1>4, <2>1
    <3>3. Accounts'[u] = [email |-> users'[u].email, password |-> users'[u].password]
      BY <2>2, <3>2
    <3> QED BY <3>1, <3>2, <3>3
  <2>5. Accounts'[Len(users) + 1] = more[Len(users) + 1]
    BY <1>3, <1>4, <2>1, <2>2, <2>3
  <2>6. \A u \in 1..(Len(users) + 1) : Accounts'[u] = more[u]
    BY <1>4, <2>4, <2>5
  <2>7. Accounts' = more
    BY <2>2, <2>3, <2>6
  <2> QED BY <2>7 DEF more
<1>9. \A u \in DOMAIN Accounts : Accounts[u].email # call.email
  BY <1>2 DEF Accounts, WithEmail
<1>10. call.email \in EmailTexts /\ call.password \in PasswordTexts
  BY <1>0 DEF Carries
<1> QED BY <1>5, <1>7, <1>8, <1>9, <1>10, SignUpStep

LEMMA CreateTokenIssues ==
    ASSUME Typed, Linked, NEW c \in Calls, CreateToken(c)
    PROVE  PromiseStep
<1> DEFINE call == calls[c]
           row == [token |-> call.id, user |-> call.user, expired |-> FALSE]
           new == [call EXCEPT !.step = "forgotMail"]
<1>0. call \in Call /\ call.step = "forgotCreate" /\ Carries(call, begun, DOMAIN users)
  BY DEF Typed, TypeOK, CreateToken, At
<1>1. new.step = "forgotMail" /\ row.token = call.id /\ row.user = call.user
  BY <1>0 DEF Call
<1>2. /\ Becomes(c, new) /\ UNCHANGED <<users, sessions>>
      /\ tokens' = tokens \cup {row}
  BY DEF CreateToken, GoTo
<1> HIDE DEF new, row
<1>3. Claims' = Claims
  BY <1>0, <1>1, <1>2, SameClaims DEF ClaimedBy
<1>4. CallLinks' = CallLinks
  BY <1>0, <1>1, <1>2, SameCallLinks DEF At
<1>5. RowLinks' = RowLinks \cup {[link |-> call.id, user |-> call.user]}
  BY <1>1, <1>2 DEF RowLinks
<1>6. OpenLinks' = OpenLinks \cup {[link |-> call.id, user |-> call.user]}
  BY <1>4, <1>5, TwoSortsOfLinks
<1>7. \A k \in OpenLinks : k.link # call.id
  <2>1. \A t \in tokens \cup mail : t.token # call.id
    BY <1>0 DEF Linked, NamesAreFresh, Making
  <2>2. \A d \in Redeeming : calls[d].token # call.id
    <3> SUFFICES ASSUME NEW d \in Redeeming PROVE calls[d].token # call.id
      OBVIOUS
    <3>1. d \in Calls /\ calls[d].token \in Ids
      BY DEF Redeeming, At, Typed, Carries, ResetSteps
    <3>2. calls[d].token \in Mailed
      BY <3>1 DEF Linked, NamesAreFresh, Ids
    <3> QED BY <2>1, <3>2 DEF Mailed
  <2> QED BY <2>1, <2>2, TwoSortsOfLinks DEF RowLinks, CallLinks
<1>8. call.id \in Ids /\ call.user \in DOMAIN users
  BY <1>0, AuthAssumption DEF Carries, Ids, Typed, TypeOK
<1>9. Accounts' = Accounts /\ Members' = Members
  BY <1>2 DEF Accounts, Members
<1> QED BY <1>3, <1>6, <1>7, <1>8, <1>9, IssueStep

LEMMA DeleteTokensWithdraws ==
    ASSUME Typed, NEW c \in Calls, DeleteTokens(c)
    PROVE  PromiseStep
<1> DEFINE call == calls[c]
           new == [call EXCEPT !.step = "forgotCreate"]
<1>0. call \in Call /\ call.step = "forgotDelete"
  BY DEF Typed, TypeOK, DeleteTokens, At
<1>1. new.step = "forgotCreate"
  BY <1>0 DEF Call
<1>2. /\ Becomes(c, new) /\ UNCHANGED <<users, sessions>> /\ tokens' \subseteq tokens
  BY DEF DeleteTokens, GoTo
<1> HIDE DEF new
<1>3. Claims' = Claims
  BY <1>0, <1>1, <1>2, SameClaims DEF ClaimedBy
<1>4. CallLinks' = CallLinks
  BY <1>0, <1>1, <1>2, SameCallLinks DEF At
<1>5. OpenLinks' \subseteq OpenLinks
  BY <1>2, <1>4, TwoSortsOfLinks DEF RowLinks
<1>6. Accounts' = Accounts /\ Members' = Members
  BY <1>2 DEF Accounts, Members
<1> QED BY <1>3, <1>5, <1>6, WithdrawStep

\* The link goes over from the table to the call, or is lost.
LEMMA DeleteTokenMovesTheLink ==
    ASSUME Typed, Named, NEW c \in Calls, DeleteToken(c)
    PROVE  PromiseStep
<1> DEFINE call == calls[c]
           new == [call EXCEPT !.step = "resetUpdate"]
<1>0. call \in Call /\ call.step = "resetDelete" /\ calls \in [Calls -> Call]
  BY DEF Typed, TypeOK, DeleteToken, At
<1>1. PICK r \in Rows(call.token) :
        /\ tokens' = tokens \ {r}
        /\ Answer(c, "link") \/ Answer(c, "credentials") \/ Becomes(c, new)
  BY DEF DeleteToken, GoTo
<1>2. /\ new.step = "resetUpdate" /\ new.token = call.token /\ new.user = call.user
  BY <1>0 DEF Call
<1>3. UNCHANGED <<users, sessions>>
  BY DEF DeleteToken
<1>4. r \in tokens /\ r.token = call.token /\ r.user = call.user
  BY <1>0 DEF Rows, Named, LinksAreTheirs, At
<1> HIDE DEF new
<1>5. Accounts' = Accounts /\ Members' = Members
  BY <1>3 DEF Accounts, Members
<1>6. ASSUME NEW a, Answer(c, a) PROVE PromiseStep
  <2> DEFINE over == Answered(call, a)
  <2>1. ClaimedBy(over) = {} /\ over.step # "resetUpdate"
    BY DEF Answered, NoCall, ClaimedBy
  <2>2. Becomes(c, over)
    BY <1>6 DEF Answer
  <2> HIDE DEF over
  <2>3. Claims' = Claims
    BY <1>0, <2>1, <2>2, SameClaims DEF ClaimedBy
  <2>4. CallLinks' = CallLinks
    BY <1>0, <2>1, <2>2, SameCallLinks DEF At
  <2>5. OpenLinks' \subseteq OpenLinks
    BY <1>1, <2>4, TwoSortsOfLinks DEF RowLinks
  <2> QED BY <1>5, <2>3, <2>5, WithdrawStep
<1>7. CASE Becomes(c, new)
  <2>1. Claims' = Claims
    BY <1>0, <1>2, <1>7, SameClaims DEF ClaimedBy
  <2>2. calls' = [calls EXCEPT ![c] = new]
    BY <1>7 DEF Becomes
  <2>3. Redeeming' = Redeeming \cup {c} /\ c \notin Redeeming
    BY <1>0, <1>2, <2>2 DEF Redeeming, At
  <2> DEFINE k == [link |-> call.token, user |-> call.user]
  <2>4. \A d \in Redeeming : calls'[d] = calls[d]
    BY <1>0, <2>2, <2>3 DEF Redeeming
  <2>5. calls'[c].token = call.token /\ calls'[c].user = call.user
    BY <1>0, <1>2, <2>2
  <2>6. CallLinks' = CallLinks \cup {k}
    BY <2>3, <2>4, <2>5 DEF CallLinks
  <2>7. k \in RowLinks
    BY <1>4 DEF RowLinks
  <2>8. RowLinks' \subseteq RowLinks
    BY <1>1 DEF RowLinks
  <2>9. OpenLinks' \subseteq OpenLinks
    BY <2>6, <2>7, <2>8, TwoSortsOfLinks
  <2> QED BY <1>5, <2>1, <2>9, WithdrawStep
<1> QED BY <1>1, <1>6, <1>7

\* The link is closed by the password it sets: no row has it, no other call.
LEMMA ResetPasswordRedeems ==
    ASSUME Typed, Linked, Known, NEW c \in Calls, ResetPassword(c)
    PROVE  PromiseStep
<1> DEFINE call == calls[c]
           new == [call EXCEPT !.mark = users[call.user].writes + 1, !.step = "resetRevoke"]
           k == [link |-> call.token, user |-> call.user]
<1>0. /\ call \in Call /\ call.step = "resetUpdate" /\ calls \in [Calls -> Call]
      /\ Carries(call, begun, DOMAIN users)
  BY DEF Typed, TypeOK, ResetPassword, At
<1>1. new.step = "resetRevoke"
  BY <1>0 DEF Call
<1>2. /\ Becomes(c, new) /\ UNCHANGED <<tokens, sessions>>
      /\ SetPassword(call.user, Trim[call.password], TRUE)
  BY DEF ResetPassword
<1> HIDE DEF new
<1>3. Claims' = Claims
  BY <1>0, <1>1, <1>2, SameClaims DEF ClaimedBy
<1>4. calls' = [calls EXCEPT ![c] = new]
  BY <1>2 DEF Becomes
<1>5. Redeeming' = Redeeming \ {c} /\ c \in Redeeming
  BY <1>0, <1>1, <1>4 DEF Redeeming, At
<1>6. \A d \in Redeeming \ {c} : calls'[d] = calls[d] /\ calls[d].token # call.token
  BY <1>0, <1>4 DEF Redeeming, Linked, LinkWorksOnce, At
<1>7. RowLinks' = RowLinks
  BY <1>2 DEF RowLinks
<1>8. k \notin RowLinks
  BY <1>0 DEF RowLinks, Linked, LinkWorksOnce, Rows, At
<1>9. CallLinks' = CallLinks \ {k}
  <2>1. CallLinks' = {[link |-> calls[d].token, user |-> calls[d].user] : d \in Redeeming \ {c}}
    BY <1>5, <1>6 DEF CallLinks
  <2>2. \A d \in Redeeming \ {c} : [link |-> calls[d].token, user |-> calls[d].user] # k
    BY <1>6
  <2> QED BY <2>1, <2>2 DEF CallLinks
<1>10. k \in OpenLinks
  BY <1>5, TwoSortsOfLinks DEF CallLinks
<1>11. OpenLinks' = OpenLinks \ {k}
  BY <1>7, <1>8, <1>9, TwoSortsOfLinks
<1>12. Trim[call.password] \in PasswordTexts /\ call.user \in DOMAIN users
  BY <1>0, AuthAssumption DEF Carries, ResetSteps
<1>13. Accounts' = [Accounts EXCEPT ![k.user].password = Trim[call.password]]
  BY <1>2, <1>12, SetPasswordOfAccount DEF Typed
<1>14. Members' = Members
  BY <1>2 DEF Members
<1> HIDE DEF k
<1> QED BY <1>3, <1>10, <1>11, <1>12, <1>13, <1>14, RedeemStep

LEMMA LogoutLeaves ==
    ASSUME Typed, NEW c \in Calls, Logout(c)
    PROVE  PromiseStep
<1> DEFINE over == Answered(calls[c], "ok")
<1>1. ClaimedBy(over) = {} /\ over.step # "resetUpdate"
  BY DEF Answered, NoCall, ClaimedBy
<1>2. Becomes(c, over) /\ calls[c].step = "logout"
  BY DEF Logout, Answer, At
<1>3. sessions' \subseteq sessions /\ UNCHANGED <<users, tokens>>
  BY DEF Logout
<1> HIDE DEF over
<1>4. Claims' = Claims
  BY <1>1, <1>2, SameClaims DEF ClaimedBy
<1>5. CallLinks' = CallLinks
  BY <1>1, <1>2, SameCallLinks DEF At
<1>6. OpenLinks' = OpenLinks /\ Accounts' = Accounts
  BY <1>3, <1>5, TwoSortsOfLinks DEF RowLinks, Accounts
<1>7. Members' \subseteq Members
  BY <1>3 DEF Members
<1> QED BY <1>4, <1>6, <1>7, LeaveStep

LEMMA RevokeSessionsLeaves ==
    ASSUME Typed, NEW c \in Calls, RevokeSessions(c)
    PROVE  PromiseStep
<1> DEFINE call == calls[c]
<1>0. call \in Call /\ call.step = "resetRevoke" /\ calls \in [Calls -> Call]
  BY DEF Typed, TypeOK, RevokeSessions, At
<1>1. sessions' \subseteq sessions /\ UNCHANGED <<users, tokens>>
  BY DEF RevokeSessions
<1>2. ASSUME NEW d \in Calls
      PROVE  /\ Claimed(d)' = Claimed(d)
             /\ At(d, "resetUpdate")' <=> At(d, "resetUpdate")
             /\ At(d, "resetUpdate") => calls'[d].token = calls[d].token
                                        /\ calls'[d].user = calls[d].user
  <2>1. CASE d = c
    <3>1. calls'[d] = [call EXCEPT !.step = "authFind",
                                   !.email = ParsedEmail(users[call.user].email)]
      BY <2>1 DEF RevokeSessions
    <3>2. calls'[d].step = "authFind"
      BY <1>0, <3>1 DEF Call
    <3> QED BY <1>0, <2>1, <3>2 DEF Claimed, At
  <2>2. CASE d # c
    <3>1. calls'[d] = [calls[d] EXCEPT !.raced = @ \/ Verified(d, call.user)]
      BY <2>2 DEF RevokeSessions
    <3>2. calls[d] \in Call
      BY <1>0
    <3>3. /\ calls'[d].step = calls[d].step /\ calls'[d].found = calls[d].found
          /\ calls'[d].password = calls[d].password
          /\ calls'[d].token = calls[d].token /\ calls'[d].user = calls[d].user
      BY <3>1, <3>2 DEF Call
    <3> QED BY <3>3 DEF Claimed, At
  <2> QED BY <2>1, <2>2
<1>3. Claims' = Claims
  BY <1>2 DEF Claims
<1>4. Redeeming' = Redeeming
  BY <1>2 DEF Redeeming
<1>5. CallLinks' = CallLinks
  BY <1>2, <1>4 DEF CallLinks, Redeeming
<1>6. OpenLinks' = OpenLinks /\ Accounts' = Accounts
  BY <1>1, <1>5, TwoSortsOfLinks DEF RowLinks, Accounts
<1>7. Members' \subseteq Members
  BY <1>1 DEF Members
<1> QED BY <1>3, <1>6, <1>7, LeaveStep

\* The account whose password was shown has the address in lower case, the one
\* whose password is set has it in some spelling.
LEMMA ChangePasswordChanges ==
    ASSUME Typed, Known, NEW c \in Calls, ChangePassword(c)
    PROVE  PromiseStep
<1> DEFINE call == calls[c]
           x == [user |-> call.found, password |-> call.password]
<1>0. /\ call \in Call /\ call.step = "changeUpdate" /\ call.kind = "change"
      /\ Carries(call, begun, DOMAIN users) /\ Knows(call, users)
  BY DEF Typed, TypeOK, ChangePassword, At, Known, Knows
<1>1. x \in Claimed(c) /\ x.user = call.found
  BY <1>0 DEF Claimed
<1>2. UNCHANGED <<tokens, sessions>> /\ \E a : Answer(c, a)
  BY DEF ChangePassword
<1>3. PICK a : Answer(c, a)
  BY <1>2
<1> DEFINE over == Answered(call, a)
<1>4. ClaimedBy(over) = {} /\ over.step # "resetUpdate" /\ Becomes(c, over)
  BY <1>3 DEF Answered, NoCall, ClaimedBy, Answer
<1> HIDE DEF over, x
<1>5. Claims' = [Claims EXCEPT ![c] = {}]
  BY <1>4, OneCallClaims
<1>6. CallLinks' = CallLinks
  BY <1>0, <1>4, SameCallLinks DEF At
<1>7. OpenLinks' = OpenLinks /\ Members' = Members
  BY <1>2, <1>6, TwoSortsOfLinks DEF RowLinks, Members
<1>8. CASE call.next = Empty
  <2>1. Accounts' = Accounts
    BY <1>8 DEF ChangePassword, Accounts
  <2> QED BY <1>5, <1>7, <2>1, GiveUpStep
<1>9. CASE call.next # Empty
  <2>1. SetPassword(call.user, call.next, FALSE)
    BY <1>9 DEF ChangePassword
  <2>2. /\ call.user \in DOMAIN users /\ call.found \in DOMAIN users
        /\ call.next \in PasswordTexts
    BY <1>0 DEF Carries, Knows
  <2>3. Accounts' = [Accounts EXCEPT ![call.user].password = call.next]
    BY <2>1, <2>2, SetPasswordOfAccount DEF Typed
  <2>4. users[call.found].email = LowerCase[users[call.user].email]
    BY <1>0 DEF Knows
  <2> QED BY <1>1, <1>5, <1>7, <2>2, <2>3, <2>4, ChangeStep
<1> QED BY <1>8, <1>9

\* All other steps of a call read, or end it: the promise does not see them.
LEMMA OtherStepsStutter ==
    ASSUME Typed, NEW c \in Calls,
           \/ RejectCredentials(c) \/ EmailTaken(c) \/ FindForgetful(c) \/ FindNobody(c)
           \/ SendMail(c) \/ FailToMail(c) \/ FindToken(c) \/ FindNoToken(c)
           \/ DeleteNoToken(c) \/ Return(c)
    PROVE  PromiseStep
<1> DEFINE call == calls[c]
<1>0. call \in Call
  BY DEF Typed, TypeOK
<1>1. CASE \/ RejectCredentials(c) \/ EmailTaken(c) \/ FindNobody(c) \/ SendMail(c)
           \/ FailToMail(c) \/ FindNoToken(c) \/ DeleteNoToken(c)
  <2>1. /\ UNCHANGED <<users, tokens, sessions>> /\ \E a : Answer(c, a)
        /\ call.step \in {"authFind", "signup", "forgotFind", "forgotMail", "resetFind",
                          "resetDelete"}
    BY <1>1
    DEF RejectCredentials, EmailTaken, FindNobody, SendMail, FailToMail, FindNoToken,
        DeleteNoToken, At
  <2> QED BY <2>1, AnswerStutters DEF ClaimedBy, At
<1>2. CASE FindForgetful(c)
  <2>1. PICK u : Becomes(c, [call EXCEPT !.user = u, !.step = "forgotDelete"])
    BY <1>2 DEF FindForgetful
  <2> DEFINE new == [call EXCEPT !.user = u, !.step = "forgotDelete"]
  <2>2. new.step = "forgotDelete" /\ call.step = "forgotFind"
    BY <1>0, <1>2 DEF Call, FindForgetful, At
  <2>3. Becomes(c, new) /\ UNCHANGED <<users, tokens, sessions>>
    BY <1>2, <2>1 DEF FindForgetful
  <2> HIDE DEF new
  <2> QED BY <2>2, <2>3, StutterStep DEF ClaimedBy, At
<1>3. CASE FindToken(c)
  <2>1. PICK r : Becomes(c, [call EXCEPT !.user = r.user, !.step = "resetDelete"])
    BY <1>3 DEF FindToken
  <2> DEFINE new == [call EXCEPT !.user = r.user, !.step = "resetDelete"]
  <2>2. new.step = "resetDelete" /\ call.step = "resetFind"
    BY <1>0, <1>3 DEF Call, FindToken, At
  <2>3. Becomes(c, new) /\ UNCHANGED <<users, tokens, sessions>>
    BY <1>3, <2>1 DEF FindToken
  <2> HIDE DEF new
  <2> QED BY <2>2, <2>3, StutterStep DEF ClaimedBy, At
<1>4. CASE Return(c)
  BY <1>4, StutterStep DEF Return, NoCall, ClaimedBy, At
<1> QED BY <1>1, <1>2, <1>3, <1>4

LEMMA ExpireStutters ==
    ASSUME Typed, NEW r \in tokens, Expire(r)
    PROVE  PromiseStep
<1> DEFINE expired == [r EXCEPT !.expired = TRUE]
<1>1. expired.user = r.user /\ expired.token = r.token
  BY DEF Token, Typed, TypeOK
<1>2. tokens' = (tokens \ {r}) \cup {expired} /\ UNCHANGED <<sessions, users, calls>>
  BY DEF Expire
<1> HIDE DEF expired
<1>3. RowLinks' = RowLinks
  BY <1>1, <1>2 DEF RowLinks
<1>4. CallLinks' = CallLinks /\ Claims' = Claims
  BY <1>2 DEF CallLinks, Redeeming, At, Claims, Claimed
<1>5. Accounts' = Accounts /\ Members' = Members
  BY <1>2 DEF Accounts, Members
<1> QED BY <1>3, <1>4, <1>5, TwoSortsOfLinks DEF PromiseStep

LEMMA NextPromised ==
    ASSUME Typed, Linked, Known, Named, [AnyNext]_vars
    PROVE  [Promise!Next]_(Promise!vars)
<1>1. ASSUME NEW c \in Calls, AnyRequest(c) \/ Step(c) \/ Return(c) PROVE PromiseStep
  BY <1>1, RequestStutters, OtherStepsStutter, AuthenticateShows, RehashStores,
     CreateSessionEnters, CreateUserSignsUp, LogoutLeaves, DeleteTokensWithdraws,
     CreateTokenIssues, DeleteTokenMovesTheLink, ResetPasswordRedeems,
     RevokeSessionsLeaves, ChangePasswordChanges
  DEF Step
<1>2. ASSUME NEW r \in tokens, Expire(r) PROVE PromiseStep
  BY <1>2, ExpireStutters
<1>3. ASSUME UNCHANGED vars PROVE PromiseStep
  <2>1. UNCHANGED <<Accounts, Claims, OpenLinks, Members>>
    BY <1>3 DEF vars, Accounts, Claims, Claimed, OpenLinks, Members, At
  <2> QED BY <2>1 DEF PromiseStep
<1>4. PromiseStep => [Promise!Next]_(Promise!vars)
  BY DEF PromiseStep, Promise!vars, Accounts, Claims, Members
<1> QED BY <1>1, <1>2, <1>3, <1>4 DEF AnyNext

LEMMA AnyMutationsKeepThePromise == AnySpec => ImplementsPromise
<1>1. Typed /\ Linked /\ Known /\ Named /\ [AnyNext]_vars
        => Typed' /\ Linked' /\ Known' /\ Named'
  BY NextTyped, NextLinked, NextKnown, NextNamed
<1>2. AnySpec => [](Typed /\ Linked /\ Known /\ Named)
  BY <1>1, TypedInit, LinkedInit, KnownInit, NamedInit, PTL DEF AnySpec
<1>3. Typed /\ Linked /\ Known /\ Named /\ [AnyNext]_vars => [Promise!Next]_(Promise!vars)
  BY NextPromised
<1> QED BY <1>2, <1>3, InitPromised, PTL DEF AnySpec, ImplementsPromise, Promise!Spec

\* However the calls interleave and however many there are, every step of a mutation
\* is a step of AccountPromise or is not seen there: a session is opened and a
\* password is set only for a shown password or by an open link, which that closes.
THEOREM MutationsKeepThePromise == Spec => ImplementsPromise
BY AnyMutationsKeepThePromise, SpecIsAny, PTL
=============================================================================
