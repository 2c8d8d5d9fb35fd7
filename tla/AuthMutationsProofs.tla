------------------------ MODULE AuthMutationsProofs ------------------------
(***************************************************************************)
(* AuthMutations for any number of calls, any addresses and passwords.  A  *)
(* reset link sets one password, overlapping requests leave a bounded      *)
(* number of links, and sessions outlive a reset only in a race.           *)
(***************************************************************************)
EXTENDS AuthMutations, FiniteSetTheorems, SequenceTheorems, TLAPS

ResetSteps == {"resetFind", "resetDelete", "resetUpdate", "resetRevoke"}

\* What a call has at hand at each of its steps, when the calls up to last have
\* been called and the users are people.
Carries(call, last, people) ==
    /\ call.step # "idle" => call.id \in 1..last
    /\ call.step = "signup" => call.email \in EmailTexts /\ call.password \in PasswordTexts
    /\ call.step \in {"authFind", "rehash"} \cup ResetSteps => call.password \in PasswordTexts
    /\ call.step \in {"rehash", "create"} => call.found \in people
    /\ call.step \in {"forgotDelete", "forgotCreate", "forgotMail", "resetDelete",
                      "resetUpdate", "resetRevoke", "changeUpdate"}
         => call.user \in people
    /\ call.step \in {"authFind", "rehash"} /\ call.kind \in {"change", "reset"}
         => call.user \in people
    /\ call.step \in ResetSteps => call.kind = "reset" /\ call.token \in Ids
    /\ call.step \in {"authFind", "rehash"} /\ call.kind = "change"
         => call.next \in PasswordTexts
    /\ call.step = "changeUpdate" => call.next \in PasswordTexts

RowsHaveUsers ==
    /\ \A t \in tokens : t.user \in DOMAIN users
    /\ \A s \in sessions : s.user \in DOMAIN users

Typed ==
    /\ TypeOK
    /\ \A c \in Calls : Carries(calls[c], begun, DOMAIN users)
    /\ RowsHaveUsers

\* The mutations as anybody may call them: the cookie of a logout or of a reset may
\* be of a session that has ended.
AnyRequest(c) ==
    \/ Request(c)
    \/ \E h \in 0..MaxCalls : StartLogout(c, h)
    \/ \E h \in 0..MaxCalls, t \in {0} \cup Mailed, p, q \in Valid : StartReset(c, h, t, p, q)

AnyNext ==
    \/ \E c \in Calls : AnyRequest(c) \/ Step(c) \/ Return(c)
    \/ \E r \in tokens : Expire(r)

AnySpec == Init /\ [][AnyNext]_vars

LEMMA SpecIsAny == Spec => AnySpec
<1>1. [Next]_vars => [AnyNext]_vars
  BY DEF Next, AnyNext, AnyRequest
<1> QED BY <1>1, PTL DEF Spec, AnySpec

-----------------------------------------------------------------------------

LEMMA TypedInit == Init => Typed
<1> SUFFICES ASSUME Init PROVE Typed
  OBVIOUS
<1>1. PICK n \in 0..Len(OldUsers) :
        users = [u \in 1..n |->
                  [email |-> OldUsers[u].email, password |-> OldUsers[u].password,
                   old |-> TRUE, writes |-> 0, resets |-> 0]]
  BY DEF Init
<1> DEFINE Old == [email : EmailTexts, password : PasswordTexts \ {Empty}]
<1>2. \A u \in 1..n : OldUsers[u] \in Old
  <2>1. OldUsers \in Seq(Old)
    BY AuthAssumption
  <2> HIDE DEF Old
  <2>2. n \in Nat /\ n <= Len(OldUsers) /\ Len(OldUsers) \in Nat
    BY <2>1
  <2> QED BY <2>1, <2>2
<1>3. \A u \in 1..n : users[u] \in User
  BY <1>1, <1>2 DEF User
<1>4. users \in Seq(User)
  <2>1. n \in Nat
    BY AuthAssumption, <1>1
  <2> QED BY <2>1, <1>1, <1>3
<1>5. NoCall \in Call
  BY AuthAssumption DEF NoCall, Call, Kinds, Steps, Answers
<1>6. TypeOK
  BY <1>4, <1>5, AuthAssumption DEF Init, TypeOK
<1>7. \A c \in Calls : Carries(calls[c], begun, DOMAIN users)
  BY DEF Init, NoCall, Carries, ResetSteps
<1> QED BY <1>6, <1>7 DEF Init, Typed, RowsHaveUsers

\* A step that changes one call, keeps the others' users and lets begun not shrink.
LEMMA OneCallTyped ==
    ASSUME Typed, NEW c \in Calls, NEW call \in Call, Becomes(c, call),
           users' \in Seq(User), DOMAIN users \subseteq DOMAIN users',
           begun' \in 0..MaxCalls, begun <= begun',
           tokens' \subseteq Token, sessions' \subseteq Session,
           mail' \subseteq [token : Ids, user : UserIds], redeemed' \subseteq Ids,
           RowsHaveUsers',
           Carries(call, begun', DOMAIN users')
    PROVE  Typed'
<1>1. calls' \in [Calls -> Call]
  BY DEF Typed, TypeOK, Becomes
<1>2. ASSUME NEW d \in Calls PROVE Carries(calls'[d], begun', DOMAIN users')
  <2>1. CASE d = c
    BY <2>1, <1>1 DEF Typed, TypeOK, Becomes
  <2>2. CASE d # c
    <3>1. calls'[d] = calls[d] /\ Carries(calls[d], begun, DOMAIN users)
      BY <2>2 DEF Typed, TypeOK, Becomes
    <3>2. \A i : i \in 1..begun => i \in 1..begun'
      BY DEF Typed, TypeOK
    <3> QED BY <3>1, <3>2 DEF Carries
  <2> QED BY <2>1, <2>2
<1> QED BY <1>1, <1>2 DEF Typed, TypeOK

\* A mutation starts.
LEMMA StartTyped ==
    ASSUME Typed, NEW c \in Calls, NEW call \in Call, Start(c, call), Carries(call, begun', DOMAIN users')
    PROVE  Typed'
<1>1. begun' \in 0..MaxCalls /\ begun <= begun'
  BY AuthAssumption DEF Typed, TypeOK, Start
<1>2. RowsHaveUsers'
  BY DEF Typed, RowsHaveUsers, Start
<1> QED
  BY <1>1, <1>2, OneCallTyped DEF Start, Becomes, Typed, TypeOK

LEMMA RequestTyped ==
    ASSUME Typed, NEW c \in Calls, AnyRequest(c)
    PROVE  Typed'
<1> DEFINE First == begun + 1
<1>1. CASE begun < MaxCalls
  <2> USE <1>1
  <2>0. /\ First \in Ids /\ First \in 0..MaxCalls /\ begun \in 0..MaxCalls
        /\ 0 \in 0..MaxCalls
    BY AuthAssumption DEF Typed, TypeOK, Ids
  <2>1. ASSUME NEW e \in EmailTexts, NEW p \in Valid, StartSignup(c, e, p)
        PROVE  Typed'
    <3> DEFINE call == [Begin(c, "signup", "signup", 0) EXCEPT !.email = e, !.password = p]
    <3>1. call \in Call
      BY <2>0, AuthAssumption DEF Begin, NoCall, Call, Kinds, Steps, Answers
    <3>2. begun' = First /\ DOMAIN users' = DOMAIN users
      BY <2>1 DEF StartSignup, Start
    <3>3. Carries(call, begun', DOMAIN users')
      BY <2>0, <3>2, AuthAssumption DEF Carries, Begin, NoCall, ResetSteps
    <3> QED BY <2>1, <3>1, <3>3, StartTyped DEF StartSignup
  <2>2. ASSUME NEW e \in EmailTexts, NEW p \in PasswordTexts, StartLogin(c, e, p)
        PROVE  Typed'
    <3> DEFINE call == [Begin(c, "login", "authFind", 0) EXCEPT
                          !.email = ParsedEmail(e), !.password = p]
    <3>1. call \in Call
      BY <2>0, AuthAssumption DEF Begin, NoCall, Call, Kinds, Steps, Answers, ParsedEmail
    <3>2. begun' = First /\ DOMAIN users' = DOMAIN users
      BY <2>2 DEF StartLogin, Start
    <3>3. Carries(call, begun', DOMAIN users')
      BY <2>0, <3>2, AuthAssumption DEF Carries, Begin, NoCall, ResetSteps
    <3> QED BY <2>2, <3>1, <3>3, StartTyped DEF StartLogin
  <2>h. {0} \cup Handles \subseteq 0..MaxCalls
    BY <2>0, AuthAssumption DEF Handles, Typed, TypeOK, Session, Ids
  <2>3. ASSUME NEW h \in 0..MaxCalls, StartLogout(c, h)
        PROVE  Typed'
    <3> DEFINE call == Begin(c, "logout", "logout", h)
    <3>1. call \in Call
      BY <2>0, AuthAssumption DEF Begin, NoCall, Call, Kinds, Steps, Answers
    <3>2. begun' = First /\ DOMAIN users' = DOMAIN users
      BY <2>3 DEF StartLogout, Start
    <3>3. Carries(call, begun', DOMAIN users')
      BY <2>0, <3>2, AuthAssumption DEF Carries, Begin, NoCall, ResetSteps
    <3> QED BY <2>3, <3>1, <3>3, StartTyped DEF StartLogout
  <2>4. ASSUME NEW e \in EmailTexts, StartForgot(c, e)
        PROVE  Typed'
    <3> DEFINE call == [Begin(c, "forgot", "forgotFind", 0) EXCEPT !.email = ParsedEmail(e)]
    <3>1. call \in Call
      BY <2>0, AuthAssumption DEF Begin, NoCall, Call, Kinds, Steps, Answers, ParsedEmail
    <3>2. begun' = First /\ DOMAIN users' = DOMAIN users
      BY <2>4 DEF StartForgot, Start
    <3>3. Carries(call, begun', DOMAIN users')
      BY <2>0, <3>2, AuthAssumption DEF Carries, Begin, NoCall, ResetSteps
    <3> QED BY <2>4, <3>1, <3>3, StartTyped DEF StartForgot
  <2>5. ASSUME NEW h \in 0..MaxCalls, NEW t \in {0} \cup Mailed,
               NEW p \in Valid, NEW q \in Valid,
               StartReset(c, h, t, p, q)
        PROVE  Typed'
    <3> DEFINE call == IF t = 0
                       THEN Answered(Begin(c, "reset", "resetFind", h), "link")
                       ELSE [Begin(c, "reset", "resetFind", h) EXCEPT
                               !.token = t, !.password = Parsed(p)]
    <3>0. t \in 0..MaxCalls /\ (t # 0 => t \in Ids)
      BY <2>0, AuthAssumption DEF Mailed, Typed, TypeOK, Ids
    <3>1. call \in Call
      <4>1. CASE t = 0
        BY <4>1, <2>0, AuthAssumption
        DEF Begin, Answered, NoCall, Call, Kinds, Steps, Answers
      <4>2. CASE t # 0
        BY <4>2, <3>0, <2>0, AuthAssumption
        DEF Begin, Parsed, NoCall, Call, Kinds, Steps, Answers
      <4> QED BY <4>1, <4>2
    <3>2. begun' = First /\ DOMAIN users' = DOMAIN users
      BY <2>5 DEF StartReset, Start
    <3>3. Carries(call, begun', DOMAIN users')
      <4>1. CASE t = 0
        BY <4>1, <2>0, <3>2 DEF Carries, Begin, Answered, NoCall, ResetSteps
      <4>2. CASE t # 0
        BY <4>2, <3>0, <2>0, <3>2, AuthAssumption
        DEF Carries, Begin, Parsed, NoCall, ResetSteps
      <4> QED BY <4>1, <4>2
    <3> QED BY <2>5, <3>1, <3>3, StartTyped DEF StartReset
  <2>6. ASSUME NEW h \in {0} \cup Handles, NEW p \in PasswordTexts, NEW q \in Valid,
               StartChange(c, h, p, q)
        PROVE  Typed'
    <3>0. h \in 0..MaxCalls
      BY <2>0, AuthAssumption DEF Handles, Typed, TypeOK, Session, Ids
    <3>1. CASE LiveUser(h) = {}
      <4> DEFINE call == Answered(Begin(c, "change", "authFind", h), "credentials")
      <4>1. call \in Call
        BY <2>0, <3>0, AuthAssumption
        DEF Begin, Answered, NoCall, Call, Kinds, Steps, Answers
      <4>2. begun' = First /\ DOMAIN users' = DOMAIN users
        BY <2>6, <3>1 DEF StartChange, Start
      <4>3. Carries(call, begun', DOMAIN users')
        BY <2>0, <4>2 DEF Carries, Begin, Answered, NoCall, ResetSteps
      <4> QED BY <2>6, <3>1, <4>1, <4>3, StartTyped DEF StartChange
    <3>2. CASE LiveUser(h) # {}
      <4>1. PICK u \in LiveUser(h) :
              Start(c, [Begin(c, "change", "authFind", h) EXCEPT
                          !.user = u, !.email = ParsedEmail(users[u].email),
                          !.password = p, !.next = Trim[Parsed(q)]])
        BY <2>6, <3>2 DEF StartChange
      <4> DEFINE call == [Begin(c, "change", "authFind", h) EXCEPT
                            !.user = u, !.email = ParsedEmail(users[u].email),
                            !.password = p, !.next = Trim[Parsed(q)]]
      <4>2. u \in DOMAIN users /\ u \in UserIds
        BY DEF LiveUser, Typed, RowsHaveUsers, TypeOK, Session
      <4>3. users[u].email \in EmailTexts
        <5>1. users[u] \in User
          BY <4>2 DEF Typed, TypeOK
        <5> QED BY <5>1 DEF User
      <4>4. call \in Call
        BY <2>0, <3>0, <4>2, <4>3, AuthAssumption
        DEF Begin, ParsedEmail, Parsed, NoCall, Call, Kinds, Steps, Answers
      <4>5. begun' = First /\ users' = users
        BY <4>1 DEF Start
      <4>6. Carries(call, begun', DOMAIN users')
        BY <2>0, <4>2, <4>5, AuthAssumption
        DEF Carries, Begin, ParsedEmail, Parsed, NoCall, ResetSteps
      <4> QED BY <4>1, <4>4, <4>6, StartTyped
    <3> QED BY <3>1, <3>2
  <2> QED BY <2>0, <2>h, <2>1, <2>2, <2>3, <2>4, <2>5, <2>6 DEF Request, AnyRequest
<1>2. CASE ~(begun < MaxCalls)
  BY <1>2 DEF Request, AnyRequest, StartSignup, StartLogin, StartLogout, StartForgot, StartReset,
              StartChange, Start
<1> QED BY <1>1, <1>2

LEMMA SetPasswordTyped ==
    ASSUME TypeOK, NEW u, NEW p \in PasswordTexts, NEW byReset \in BOOLEAN,
           SetPassword(u, p, byReset)
    PROVE  users' \in Seq(User) /\ DOMAIN users' = DOMAIN users /\ Len(users') = Len(users)
<1>1. users' = [v \in 1..Len(users) |-> users'[v]]
  <2>1. users \in [1..Len(users) -> User]
    BY DEF TypeOK
  <2> QED BY <2>1 DEF SetPassword
<1>2. \A v \in 1..Len(users) : users'[v] \in User
  <2> SUFFICES ASSUME NEW v \in 1..Len(users) PROVE users'[v] \in User
    OBVIOUS
  <2>1. users[v] \in User /\ v \in DOMAIN users
    BY DEF TypeOK
  <2>2. users[v].writes + 1 \in Nat /\ users[v].resets + (IF byReset THEN 1 ELSE 0) \in Nat
    BY <2>1 DEF User
  <2>3. CASE u = v
    <3>1. users'[v] = [users[v] EXCEPT
             !.password = p, !.old = FALSE, !.writes = users[v].writes + 1,
             !.resets = users[v].resets + (IF byReset THEN 1 ELSE 0)]
      BY <2>1, <2>3 DEF SetPassword
    <3> QED BY <2>1, <2>2, <3>1 DEF User
  <2>4. CASE u # v
    BY <2>1, <2>4 DEF SetPassword
  <2> QED BY <2>3, <2>4
<1> QED BY <1>1, <1>2 DEF TypeOK

\* The call answers, and only tables other than User change, keeping their users.
LEMMA AnswerTyped ==
    ASSUME Typed, NEW c \in Calls, ~At(c, "idle"), NEW a \in Answers, Answer(c, a),
           users' \in Seq(User), DOMAIN users' = DOMAIN users, begun' = begun,
           tokens' \subseteq Token, sessions' \subseteq Session,
           mail' \subseteq [token : Ids, user : UserIds], redeemed' = redeemed,
           RowsHaveUsers'
    PROVE  Typed'
<1>1. calls[c] \in Call /\ Carries(calls[c], begun, DOMAIN users)
  BY DEF Typed, TypeOK
<1>2. Answered(calls[c], a) \in Call
  <2>1. calls[c].id \in 0..MaxCalls /\ calls[c].kind \in Kinds
    BY <1>1 DEF Call
  <2>2. NoCall \in Call
    BY AuthAssumption DEF NoCall, Call, Kinds, Steps, Answers
  <2> QED BY <2>1, <2>2 DEF Answered, Call, Steps
<1>3. Carries(Answered(calls[c], a), begun', DOMAIN users')
  BY <1>1 DEF Answered, NoCall, Carries, ResetSteps, At
<1> QED BY <1>2, <1>3, OneCallTyped DEF Answer, Typed, TypeOK

LEMMA StepTyped ==
    ASSUME Typed, NEW c \in Calls, Step(c)
    PROVE  Typed'
<1> DEFINE call == calls[c]
<1>0. call \in Call /\ Carries(call, begun, DOMAIN users)
  BY DEF Typed, TypeOK
<1>a. \A u \in DOMAIN users : u \in UserIds /\ users[u] \in User
  <2>1. users \in Seq(User)
    BY DEF Typed, TypeOK
  <2> QED BY <2>1 DEF UserIds
<1>i. call.step # "idle" => call.id \in Ids
  BY AuthAssumption, <1>0 DEF Carries, Typed, TypeOK, Ids
<1>s. UNCHANGED <<users, tokens, sessions>> => RowsHaveUsers'
  BY DEF Typed, RowsHaveUsers
<1>1. CASE Authenticate(c)
  <2>1. PICK u \in WithEmail(call.email) :
          Becomes(c, [call EXCEPT !.found = u, !.proof = users[u].resets,
                        !.step = IF users[u].old THEN "rehash" ELSE AfterAuthenticate(c)])
    BY <1>1 DEF Authenticate
  <2> DEFINE new == [call EXCEPT !.found = u, !.proof = users[u].resets,
                       !.step = IF users[u].old THEN "rehash" ELSE AfterAuthenticate(c)]
  <2>2. u \in DOMAIN users
    BY DEF WithEmail
  <2>3. new \in Call
    <3>1. users[u].resets \in Nat /\ u \in UserIds
      BY <1>a, <2>2 DEF User
    <3>2. (IF users[u].old THEN "rehash" ELSE AfterAuthenticate(c)) \in Steps
      BY DEF Steps, AfterAuthenticate
    <3> QED BY <1>0, <3>1, <3>2 DEF Call
  <2>4. Carries(new, begun, DOMAIN users)
    BY <1>0, <1>1, <2>2 DEF Carries, Call, AfterAuthenticate, Authenticate, At, ResetSteps
  <2> QED BY <1>1, <1>s, <2>1, <2>3, <2>4, OneCallTyped DEF Authenticate, Typed, TypeOK
<1>2. CASE RejectCredentials(c)
  BY <1>2, <1>s, AnswerTyped DEF RejectCredentials, Typed, TypeOK, Answers, At
<1>3. CASE Rehash(c)
  <2>1. users' \in Seq(User) /\ DOMAIN users' = DOMAIN users
    BY <1>0, <1>3, SetPasswordTyped DEF Rehash, Carries, At, Typed
  <2> DEFINE new == [call EXCEPT !.step = AfterAuthenticate(c)]
  <2>2. new \in Call
    BY <1>0 DEF Call, Steps, AfterAuthenticate
  <2>3. Carries(new, begun, DOMAIN users)
    BY <1>0, <1>3 DEF Carries, Call, AfterAuthenticate, Rehash, At, ResetSteps
  <2>4. RowsHaveUsers'
    BY <1>3, <2>1 DEF Rehash, Typed, RowsHaveUsers
  <2> QED
    BY <1>3, <2>1, <2>2, <2>3, <2>4, OneCallTyped DEF Rehash, GoTo, Typed, TypeOK
<1>4. CASE CreateSession(c)
  <2>1. call.found \in DOMAIN users /\ call.step # "idle"
    BY <1>0, <1>4 DEF CreateSession, At, Carries
  <2>2. sessions' \subseteq Session
    BY <1>0, <1>a, <1>i, <1>4, <2>1 DEF CreateSession, Session, Call, Typed, TypeOK
  <2>3. RowsHaveUsers'
    BY <1>4, <2>1 DEF CreateSession, Typed, RowsHaveUsers
  <2> QED BY <1>4, <2>2, <2>3, AnswerTyped DEF CreateSession, Typed, TypeOK, Answers, At
<1>5. CASE CreateUser(c)
  <2> DEFINE row == [email |-> call.email, password |-> call.password,
                     old |-> FALSE, writes |-> 0, resets |-> 0]
             new == [call EXCEPT !.found = Len(users) + 1, !.step = "create"]
  <2>1. row \in User /\ call.step # "idle"
    BY <1>0, <1>5 DEF CreateUser, At, Carries, User
  <2>2. users' \in Seq(User) /\ Len(users) \in Nat /\ Len(users') = Len(users) + 1
    BY <1>5, <2>1 DEF CreateUser, Typed, TypeOK
  <2>3. /\ DOMAIN users \subseteq DOMAIN users'
        /\ Len(users) + 1 \in DOMAIN users' /\ Len(users) + 1 \in UserIds
    BY <2>2 DEF UserIds, Typed, TypeOK
  <2>4. new \in Call
    BY <1>0, <2>3 DEF Call, Steps
  <2>5. Carries(new, begun, DOMAIN users')
    BY <1>0, <1>5, <2>3 DEF Carries, Call, CreateUser, At, ResetSteps
  <2>6. RowsHaveUsers'
    BY <1>5, <2>3 DEF CreateUser, Typed, RowsHaveUsers
  <2>7. begun \in 0..MaxCalls /\ begun <= begun
    BY AuthAssumption DEF Typed, TypeOK
  <2>8. Becomes(c, new) /\ UNCHANGED <<tokens, sessions, mail, begun, redeemed>>
    BY <1>5 DEF CreateUser
  <2> HIDE DEF new
  <2> QED
    BY <2>2, <2>3, <2>4, <2>5, <2>6, <2>7, <2>8, OneCallTyped DEF Typed, TypeOK
<1>6. CASE EmailTaken(c)
  BY <1>6, <1>s, AnswerTyped DEF EmailTaken, Typed, TypeOK, Answers, At
<1>7. CASE Logout(c)
  <2>1. sessions' \subseteq Session /\ RowsHaveUsers'
    BY <1>7 DEF Logout, Typed, TypeOK, RowsHaveUsers
  <2> QED BY <1>7, <2>1, AnswerTyped DEF Logout, Typed, TypeOK, Answers, At
<1>8. CASE FindForgetful(c)
  <2>1. PICK u \in WithEmail(call.email) :
          Becomes(c, [call EXCEPT !.user = u, !.step = "forgotDelete"])
    BY <1>8 DEF FindForgetful
  <2> DEFINE new == [call EXCEPT !.user = u, !.step = "forgotDelete"]
  <2>2. u \in DOMAIN users
    BY DEF WithEmail
  <2>3. new \in Call
    BY <1>0, <1>a, <2>2 DEF Call, Steps
  <2>4. Carries(new, begun, DOMAIN users)
    BY <1>0, <1>8, <2>2 DEF Carries, Call, FindForgetful, At, ResetSteps
  <2> QED BY <1>8, <1>s, <2>1, <2>3, <2>4, OneCallTyped DEF FindForgetful, Typed, TypeOK
<1>9. CASE FindNobody(c)
  BY <1>9, <1>s, AnswerTyped DEF FindNobody, Typed, TypeOK, Answers, At
<1>10. CASE DeleteTokens(c)
  <2> DEFINE new == [call EXCEPT !.step = "forgotCreate"]
  <2>1. new \in Call
    BY <1>0 DEF Call, Steps
  <2>2. Carries(new, begun, DOMAIN users)
    BY <1>0, <1>10 DEF Carries, Call, DeleteTokens, At, ResetSteps
  <2>3. tokens' \subseteq Token /\ RowsHaveUsers'
    BY <1>10 DEF DeleteTokens, Typed, TypeOK, RowsHaveUsers
  <2> QED
    BY <1>10, <2>1, <2>2, <2>3, OneCallTyped DEF DeleteTokens, GoTo, Typed, TypeOK
<1>11. CASE CreateToken(c)
  <2> DEFINE new == [call EXCEPT !.step = "forgotMail"]
  <2>0. call.user \in DOMAIN users /\ call.step # "idle"
    BY <1>0, <1>11 DEF Carries, CreateToken, At
  <2>1. new \in Call
    BY <1>0 DEF Call, Steps
  <2>2. Carries(new, begun, DOMAIN users)
    BY <1>0, <1>11 DEF Carries, Call, CreateToken, At, ResetSteps
  <2>3. tokens' \subseteq Token
    <3>1. call.user \in UserIds /\ call.id \in Ids
      BY <1>a, <1>i, <2>0
    <3> DEFINE row == [token |-> call.id, user |-> call.user, expired |-> FALSE]
    <3>2. row \in Token
      BY <3>1 DEF Token
    <3>3. tokens' = tokens \cup {row}
      BY <1>11 DEF CreateToken
    <3> HIDE DEF row
    <3> QED BY <3>2, <3>3 DEF Typed, TypeOK
  <2>4. RowsHaveUsers'
    BY <1>11, <2>0 DEF CreateToken, Typed, RowsHaveUsers
  <2> QED
    BY <1>11, <2>1, <2>2, <2>3, <2>4, OneCallTyped DEF CreateToken, GoTo, Typed, TypeOK
<1>12. CASE SendMail(c)
  <2>1. call.user \in UserIds /\ call.step # "idle"
    BY <1>0, <1>a, <1>12 DEF Carries, SendMail, At
  <2>2. mail' \subseteq [token : Ids, user : UserIds]
    BY <1>i, <1>12, <2>1 DEF SendMail, Typed, TypeOK
  <2> QED BY <1>12, <1>s, <2>2, AnswerTyped DEF SendMail, Typed, TypeOK, Answers, At
<1>13. CASE FailToMail(c)
  BY <1>13, <1>s, AnswerTyped DEF FailToMail, Typed, TypeOK, Answers, At
<1>14. CASE FindToken(c)
  <2>1. PICK r \in Rows(call.token) :
          Becomes(c, [call EXCEPT !.user = r.user, !.step = "resetDelete"])
    BY <1>14 DEF FindToken
  <2> DEFINE new == [call EXCEPT !.user = r.user, !.step = "resetDelete"]
  <2>2. r.user \in DOMAIN users /\ r.user \in UserIds
    BY <1>a DEF Rows, Typed, RowsHaveUsers
  <2>3. new \in Call
    BY <1>0, <2>2 DEF Call, Steps
  <2>4. Carries(new, begun, DOMAIN users)
    BY <1>0, <1>14, <2>2 DEF Carries, Call, FindToken, At, ResetSteps
  <2> QED BY <1>14, <1>s, <2>1, <2>3, <2>4, OneCallTyped DEF FindToken, Typed, TypeOK
<1>15. CASE FindNoToken(c)
  BY <1>15, <1>s, AnswerTyped DEF FindNoToken, Typed, TypeOK, Answers, At
<1>16. CASE DeleteToken(c)
  <2> DEFINE new == [call EXCEPT !.step = "resetUpdate"]
  <2>1. tokens' \subseteq Token /\ RowsHaveUsers'
    BY <1>16 DEF DeleteToken, Typed, TypeOK, RowsHaveUsers
  <2>2. Answer(c, "link") \/ Answer(c, "credentials") \/ Becomes(c, new)
    BY <1>16 DEF DeleteToken, GoTo
  <2>3. CASE Answer(c, "link") \/ Answer(c, "credentials")
    BY <1>16, <2>1, <2>3, AnswerTyped DEF DeleteToken, Typed, TypeOK, Answers, At
  <2>4. CASE Becomes(c, new)
    <3>1. new \in Call
      BY <1>0 DEF Call, Steps
    <3>2. Carries(new, begun, DOMAIN users)
      BY <1>0, <1>16 DEF Carries, Call, DeleteToken, At, ResetSteps
    <3> QED
      BY <1>16, <2>1, <2>4, <3>1, <3>2, OneCallTyped DEF DeleteToken, Typed, TypeOK
  <2> QED BY <2>2, <2>3, <2>4
<1>17. CASE DeleteNoToken(c)
  BY <1>17, <1>s, AnswerTyped DEF DeleteNoToken, Typed, TypeOK, Answers, At
<1>18. CASE ResetPassword(c)
  <2> DEFINE new == [call EXCEPT !.mark = users[call.user].writes + 1, !.step = "resetRevoke"]
  <2>0. /\ call.user \in DOMAIN users /\ call.token \in Ids
        /\ Trim[call.password] \in PasswordTexts
    BY <1>0, <1>18, AuthAssumption DEF Carries, ResetPassword, At, ResetSteps
  <2>1. users' \in Seq(User) /\ DOMAIN users' = DOMAIN users
    BY <1>18, <2>0, SetPasswordTyped DEF ResetPassword, Typed
  <2>2. users[call.user].writes + 1 \in Nat
    BY <1>a, <2>0 DEF User
  <2>3. new \in Call
    BY <1>0, <2>2 DEF Call, Steps
  <2>4. Carries(new, begun, DOMAIN users)
    BY <1>0, <1>18 DEF Carries, Call, ResetPassword, At, ResetSteps
  <2>5. redeemed' \subseteq Ids /\ RowsHaveUsers'
    BY <1>18, <2>0, <2>1 DEF ResetPassword, Typed, TypeOK, RowsHaveUsers
  <2> QED
    BY <1>18, <2>1, <2>3, <2>4, <2>5, OneCallTyped DEF ResetPassword, Typed, TypeOK
<1>19. CASE RevokeSessions(c)
  <2>0. call.user \in DOMAIN users /\ users[call.user].email \in EmailTexts
    BY <1>0, <1>a, <1>19 DEF Carries, RevokeSessions, At, User
  <2>1. ASSUME NEW d \in Calls
        PROVE  calls'[d] \in Call /\ Carries(calls'[d], begun, DOMAIN users)
    <3>1. calls[d] \in Call /\ Carries(calls[d], begun, DOMAIN users)
      BY DEF Typed, TypeOK
    <3>2. CASE d = c
      <4>1. calls'[d] = [call EXCEPT !.step = "authFind",
                                     !.email = ParsedEmail(users[call.user].email)]
        BY <1>19, <3>2 DEF RevokeSessions
      <4>2. calls'[d] \in Call
        <5>1. ParsedEmail(users[call.user].email) \in EmailTexts
          BY <2>0, AuthAssumption DEF ParsedEmail
        <5> QED BY <1>0, <4>1, <5>1 DEF Call, Steps
      <4>3. Carries(calls'[d], begun, DOMAIN users)
        BY <1>0, <1>19, <4>1 DEF Carries, Call, RevokeSessions, At, ResetSteps
      <4> QED BY <4>2, <4>3
    <3>3. CASE d # c
      <4>1. calls'[d] = [calls[d] EXCEPT !.raced = @ \/ Verified(d, call.user)]
        BY <1>19, <3>3 DEF RevokeSessions
      <4>2. calls[d].raced \/ Verified(d, call.user) \in BOOLEAN
        BY <3>1 DEF Verified, Call
      <4>3. calls'[d] \in Call
        <5> DEFINE raced == calls[d].raced \/ Verified(d, call.user)
        <5>1. calls'[d] = [calls[d] EXCEPT !.raced = raced]
          BY <4>1
        <5>2. raced \in BOOLEAN
          BY <4>2
        <5> HIDE DEF raced
        <5> QED BY <3>1, <5>1, <5>2 DEF Call
      <4>4. Carries(calls'[d], begun, DOMAIN users)
        BY <3>1, <4>1 DEF Carries, Call
      <4> QED BY <4>3, <4>4
    <3> QED BY <3>2, <3>3
  <2>2. calls' \in [Calls -> Call]
    BY <1>19, <2>1 DEF RevokeSessions
  <2>3. sessions' \subseteq Session /\ RowsHaveUsers'
    BY <1>19 DEF RevokeSessions, Typed, TypeOK, RowsHaveUsers
  <2> QED BY <1>19, <2>1, <2>2, <2>3 DEF RevokeSessions, Typed, TypeOK
<1>20. CASE ChangePassword(c)
  <2>1. call.next \in PasswordTexts
    BY <1>0, <1>20 DEF Carries, ChangePassword, At
  <2>2. users' \in Seq(User) /\ DOMAIN users' = DOMAIN users
    BY <1>20, <2>1, SetPasswordTyped DEF ChangePassword, Typed, TypeOK
  <2>3. RowsHaveUsers'
    BY <1>20, <2>2 DEF ChangePassword, Typed, RowsHaveUsers
  <2>4. Answer(c, "credentials") \/ Answer(c, "ok")
    BY <1>20 DEF ChangePassword
  <2> QED
    BY <1>20, <2>2, <2>3, <2>4, AnswerTyped DEF ChangePassword, Typed, TypeOK, Answers, At
<1> QED
  BY <1>1, <1>2, <1>3, <1>4, <1>5, <1>6, <1>7, <1>8, <1>9, <1>10, <1>11, <1>12, <1>13,
     <1>14, <1>15, <1>16, <1>17, <1>18, <1>19, <1>20 DEF Step

LEMMA NextTyped ==
    ASSUME Typed, [AnyNext]_vars
    PROVE  Typed'
<1>1. ASSUME NEW c \in Calls, AnyRequest(c) PROVE Typed'
  BY <1>1, RequestTyped
<1>2. ASSUME NEW c \in Calls, Step(c) PROVE Typed'
  BY <1>2, StepTyped
<1>3. ASSUME NEW c \in Calls, Return(c) PROVE Typed'
  <2>1. NoCall \in Call
    BY AuthAssumption DEF NoCall, Call, Kinds, Steps, Answers
  <2>2. Carries(NoCall, begun, DOMAIN users)
    BY DEF NoCall, Carries, ResetSteps
  <2>3. begun \in 0..MaxCalls /\ begun <= begun /\ RowsHaveUsers'
    BY <1>3, AuthAssumption DEF Return, Typed, TypeOK, RowsHaveUsers
  <2> QED BY <1>3, <2>1, <2>2, <2>3, OneCallTyped DEF Return, Typed, TypeOK
<1>4. ASSUME NEW r \in tokens, Expire(r) PROVE Typed'
  <2>1. r \in Token /\ [r EXCEPT !.expired = TRUE] \in Token
        /\ [r EXCEPT !.expired = TRUE].user = r.user
    BY DEF Token, Typed, TypeOK
  <2>2. tokens' \subseteq Token /\ RowsHaveUsers'
    BY <1>4, <2>1 DEF Expire, Typed, TypeOK, RowsHaveUsers
  <2> QED BY <1>4, <2>2 DEF Expire, Typed, TypeOK
<1>5. CASE UNCHANGED vars
  BY <1>5 DEF vars, Typed, TypeOK, RowsHaveUsers
<1> QED BY <1>1, <1>2, <1>3, <1>4, <1>5 DEF AnyNext

LEMMA AnyTypeCorrect == AnySpec => []TypeOK
<1>1. Typed => TypeOK
  BY DEF Typed
<1> QED BY <1>1, TypedInit, NextTyped, PTL DEF AnySpec

\* Accounts, links, sessions and running calls are what the tables and the code
\* make of them, whatever is called in whichever order.
THEOREM TypeCorrect == Spec => []TypeOK
BY AnyTypeCorrect, SpecIsAny, PTL

-----------------------------------------------------------------------------
(***************************************************************************)
(* Links.                                                                  *)
(***************************************************************************)

\* A call for a link that has not made it yet.
Making == {"forgotFind", "forgotDelete", "forgotCreate"}

\* A name is made by one call, and what is used was mailed.
NamesAreFresh ==
    /\ \A c, d \in Calls :
         c # d /\ ~At(c, "idle") /\ ~At(d, "idle") => calls[c].id # calls[d].id
    /\ \A r \in tokens \cup mail :
         /\ r.token \in 1..begun
         /\ \A c \in Calls : calls[c].step \in Making => calls[c].id # r.token
    /\ \A c \in Calls : calls[c].token \in {0} \cup Mailed
    /\ redeemed \subseteq Mailed

\* A name has one row, and none after it has set a password.
RowsAreOpen ==
    /\ \A q, r \in tokens : q.token = r.token => q = r
    /\ \A r \in tokens : r.token \notin redeemed

Linked == NamesAreFresh /\ RowsAreOpen /\ LinkWorksOnce

\* A call goes on, ends or is over without having to do with a link, or with one
\* it deals with already.
Quiet(c) ==
    /\ calls'[c].step = "idle" \/ (calls[c].step # "idle" /\ calls'[c].id = calls[c].id)
    /\ calls'[c].token \in {0, calls[c].token}
    /\ calls'[c].step \in Making => calls[c].step \in Making
    /\ calls'[c].step = "resetUpdate" =>
         calls[c].step = "resetUpdate" /\ calls'[c].token = calls[c].token

LEMMA QuietLinked ==
    ASSUME Linked, \A c \in Calls : Quiet(c), tokens' \subseteq tokens,
           mail' = mail, redeemed' = redeemed, begun' = begun
    PROVE  Linked'
<1>1. NamesAreFresh'
  <2>1. \A c, d \in Calls :
          c # d /\ ~At(c, "idle")' /\ ~At(d, "idle")' => calls'[c].id # calls'[d].id
    BY DEF Linked, NamesAreFresh, Quiet, At
  <2>2. \A r \in tokens' \cup mail :
          /\ r.token \in 1..begun
          /\ \A c \in Calls : calls'[c].step \in Making => calls'[c].id # r.token
    BY DEF Linked, NamesAreFresh, Quiet, Making
  <2>3. Mailed' = Mailed
    BY DEF Mailed
  <2>4. \A c \in Calls : calls'[c].token \in {0} \cup Mailed
    BY DEF Linked, NamesAreFresh, Quiet
  <2>5. redeemed' \subseteq Mailed
    BY DEF Linked, NamesAreFresh
  <2> QED BY <2>1, <2>2, <2>3, <2>4, <2>5 DEF NamesAreFresh
<1>2. RowsAreOpen'
  BY DEF Linked, RowsAreOpen
<1>3. LinkWorksOnce'
  BY DEF Linked, LinkWorksOnce, Quiet, At, Rows
<1> QED BY <1>1, <1>2, <1>3 DEF Linked

\* The same of a step of one call.
LEMMA QuietCall ==
    ASSUME Typed, Linked, NEW c \in Calls, NEW call, Becomes(c, call),
           call.step = "idle" \/ (calls[c].step # "idle" /\ call.id = calls[c].id),
           call.token \in {0, calls[c].token},
           call.step \in Making => calls[c].step \in Making,
           call.step # "resetUpdate",
           tokens' \subseteq tokens, mail' = mail, redeemed' = redeemed, begun' = begun
    PROVE  Linked'
<1>1. ASSUME NEW d \in Calls PROVE Quiet(d)
  <2>1. calls' = [calls EXCEPT ![c] = call] /\ calls \in [Calls -> Call]
    BY DEF Becomes, Typed, TypeOK
  <2>2. CASE d = c
    BY <2>1, <2>2 DEF Quiet
  <2>3. CASE d # c
    BY <2>1, <2>3 DEF Quiet
  <2> QED BY <2>2, <2>3
<1> QED BY <1>1, QuietLinked

LEMMA QuietAnswer ==
    ASSUME Typed, Linked, NEW c \in Calls, ~At(c, "idle"), NEW a, Answer(c, a),
           tokens' \subseteq tokens, mail' = mail, redeemed' = redeemed, begun' = begun
    PROVE  Linked'
BY QuietCall DEF Answer, Answered, NoCall, Making, At

LEMMA StartLinked ==
    ASSUME Typed, Linked, NEW c \in Calls, NEW call, Start(c, call),
           call.id = begun + 1, call.token \in {0} \cup Mailed, call.step # "resetUpdate"
    PROVE  Linked'
<1>1. /\ calls' = [calls EXCEPT ![c] = call] /\ calls \in [Calls -> Call]
      /\ begun \in Nat /\ begun' = begun + 1
      /\ UNCHANGED <<tokens, mail, redeemed>>
  BY AuthAssumption DEF Start, Typed, TypeOK
<1>2. \A d \in Calls : d # c => calls'[d] = calls[d]
  BY <1>1
<1>3. calls'[c] = call
  BY <1>1
<1>4. \A d \in Calls : ~At(d, "idle") => calls[d].id \in 1..begun
  BY DEF Typed, Carries, At
<1>5. NamesAreFresh'
  <2>1. \A d, e \in Calls :
          d # e /\ ~At(d, "idle")' /\ ~At(e, "idle")' => calls'[d].id # calls'[e].id
    BY <1>1, <1>2, <1>3, <1>4 DEF Linked, NamesAreFresh, At
  <2>2. \A r \in tokens \cup mail :
          /\ r.token \in 1..(begun + 1)
          /\ \A d \in Calls : calls'[d].step \in Making => calls'[d].id # r.token
    BY <1>1, <1>2, <1>3 DEF Linked, NamesAreFresh
  <2>3. Mailed' = Mailed
    BY <1>1 DEF Mailed
  <2>4. \A d \in Calls : calls'[d].token \in {0} \cup Mailed
    BY <1>2, <1>3 DEF Linked, NamesAreFresh
  <2> QED BY <1>1, <2>1, <2>2, <2>3, <2>4 DEF Linked, NamesAreFresh
<1>6. RowsAreOpen'
  BY <1>1 DEF Linked, RowsAreOpen
<1>7. LinkWorksOnce'
  BY <1>1, <1>2, <1>3 DEF Linked, LinkWorksOnce, At, Rows
<1> QED BY <1>5, <1>6, <1>7 DEF Linked

LEMMA RequestLinked ==
    ASSUME Typed, Linked, NEW c \in Calls, AnyRequest(c)
    PROVE  Linked'
<1>1. ASSUME NEW e \in EmailTexts, NEW p \in Valid, StartSignup(c, e, p)
      PROVE  Linked'
  BY <1>1, StartLinked DEF StartSignup, Begin, NoCall
<1>2. ASSUME NEW e \in EmailTexts, NEW p \in PasswordTexts, StartLogin(c, e, p)
      PROVE  Linked'
  BY <1>2, StartLinked DEF StartLogin, Begin, NoCall
<1>3. ASSUME NEW h, StartLogout(c, h)
      PROVE  Linked'
  BY <1>3, StartLinked DEF StartLogout, Begin, NoCall
<1>4. ASSUME NEW e \in EmailTexts, StartForgot(c, e)
      PROVE  Linked'
  BY <1>4, StartLinked DEF StartForgot, Begin, NoCall
<1>5. ASSUME NEW h, NEW t \in {0} \cup Mailed, NEW p, NEW q, StartReset(c, h, t, p, q)
      PROVE  Linked'
  <2>1. CASE t = 0
    BY <1>5, <2>1, StartLinked DEF StartReset, Answered, Begin, NoCall
  <2>2. CASE t # 0
    BY <1>5, <2>2, StartLinked DEF StartReset, Begin, NoCall
  <2> QED BY <2>1, <2>2
<1>6. ASSUME NEW h, NEW p, NEW q, StartChange(c, h, p, q)
      PROVE  Linked'
  <2>1. CASE LiveUser(h) = {}
    BY <1>6, <2>1, StartLinked DEF StartChange, Answered, Begin, NoCall
  <2>2. CASE LiveUser(h) # {}
    <3>1. PICK u \in LiveUser(h) :
            Start(c, [Begin(c, "change", "authFind", h) EXCEPT
                        !.user = u, !.email = ParsedEmail(users[u].email),
                        !.password = p, !.next = Trim[Parsed(q)]])
      BY <1>6, <2>2 DEF StartChange
    <3> QED BY <3>1, StartLinked DEF Begin, NoCall
  <2> QED BY <2>1, <2>2
<1> QED BY <1>1, <1>2, <1>3, <1>4, <1>5, <1>6 DEF Request, AnyRequest

LEMMA StepLinked ==
    ASSUME Typed, Linked, NEW c \in Calls, Step(c)
    PROVE  Linked'
<1> DEFINE call == calls[c]
<1>0. call \in Call /\ Carries(call, begun, DOMAIN users)
  BY DEF Typed, TypeOK
<1>1. CASE Authenticate(c)
  <2>1. PICK u \in WithEmail(call.email) :
          Becomes(c, [call EXCEPT !.found = u, !.proof = users[u].resets,
                        !.step = IF users[u].old THEN "rehash" ELSE AfterAuthenticate(c)])
    BY <1>1 DEF Authenticate
  <2> DEFINE new == [call EXCEPT !.found = u, !.proof = users[u].resets,
                       !.step = IF users[u].old THEN "rehash" ELSE AfterAuthenticate(c)]
  <2>2. /\ new.id = call.id /\ new.token = call.token
        /\ new.step \notin Making \cup {"resetUpdate"} /\ call.step # "idle"
    BY <1>0, <1>1 DEF Call, Authenticate, AfterAuthenticate, At, Making
  <2> QED BY <1>1, <2>1, <2>2, QuietCall DEF Authenticate
<1>2. CASE RejectCredentials(c)
  BY <1>2, QuietAnswer DEF RejectCredentials, At
<1>3. CASE Rehash(c)
  <2> DEFINE new == [call EXCEPT !.step = AfterAuthenticate(c)]
  <2>1. /\ new.id = call.id /\ new.token = call.token
        /\ new.step \notin Making \cup {"resetUpdate"} /\ call.step # "idle"
    BY <1>0, <1>3 DEF Call, Rehash, AfterAuthenticate, At, Making
  <2> QED BY <1>3, <2>1, QuietCall DEF Rehash, GoTo
<1>4. CASE CreateSession(c)
  BY <1>4, QuietAnswer DEF CreateSession, At
<1>5. CASE CreateUser(c)
  <2> DEFINE new == [call EXCEPT !.found = Len(users) + 1, !.step = "create"]
  <2>1. /\ new.id = call.id /\ new.token = call.token
        /\ new.step \notin Making \cup {"resetUpdate"} /\ call.step # "idle"
    BY <1>0, <1>5 DEF Call, CreateUser, At, Making
  <2> QED BY <1>5, <2>1, QuietCall DEF CreateUser
<1>6. CASE EmailTaken(c)
  BY <1>6, QuietAnswer DEF EmailTaken, At
<1>7. CASE Logout(c)
  BY <1>7, QuietAnswer DEF Logout, At
<1>8. CASE FindForgetful(c)
  <2>1. PICK u \in WithEmail(call.email) :
          Becomes(c, [call EXCEPT !.user = u, !.step = "forgotDelete"])
    BY <1>8 DEF FindForgetful
  <2> DEFINE new == [call EXCEPT !.user = u, !.step = "forgotDelete"]
  <2>2. /\ new.id = call.id /\ new.token = call.token /\ new.step = "forgotDelete"
        /\ call.step \in Making /\ call.step # "idle"
    BY <1>0, <1>8 DEF Call, FindForgetful, At, Making
  <2> QED BY <1>8, <2>1, <2>2, QuietCall DEF FindForgetful
<1>9. CASE FindNobody(c)
  BY <1>9, QuietAnswer DEF FindNobody, At
<1>10. CASE DeleteTokens(c)
  <2> DEFINE new == [call EXCEPT !.step = "forgotCreate"]
  <2>1. /\ new.id = call.id /\ new.token = call.token /\ new.step = "forgotCreate"
        /\ call.step \in Making /\ call.step # "idle"
    BY <1>0, <1>10 DEF Call, DeleteTokens, At, Making
  <2> QED BY <1>10, <2>1, QuietCall DEF DeleteTokens, GoTo
<1>11. CASE CreateToken(c)
  <2> DEFINE row == [token |-> call.id, user |-> call.user, expired |-> FALSE]
  <2>1. /\ call.step \in Making /\ call.step # "idle" /\ call.id \in 1..begun
        /\ calls \in [Calls -> Call]
    BY <1>0, <1>11 DEF CreateToken, At, Making, Carries, Typed, TypeOK
  <2>2. \A d \in Calls : Quiet(d) /\ (calls'[d].step \in Making => d # c)
    BY <1>11, <2>1 DEF CreateToken, GoTo, Becomes, Call, Quiet, Making
  <2>3. call.id \notin Mailed /\ \A r \in tokens : r.token # call.id
    BY <2>1 DEF Linked, NamesAreFresh, Mailed
  <2>4. tokens' = tokens \cup {row} /\ UNCHANGED <<mail, begun, redeemed>>
    BY <1>11 DEF CreateToken
  <2>5. NamesAreFresh'
    <3>1. \A d, e \in Calls :
            d # e /\ ~At(d, "idle")' /\ ~At(e, "idle")' => calls'[d].id # calls'[e].id
      BY <2>2 DEF Linked, NamesAreFresh, Quiet, At
    <3>2. \A r \in tokens \cup mail :
            /\ r.token \in 1..begun
            /\ \A d \in Calls : calls'[d].step \in Making => calls'[d].id # r.token
      BY <2>2 DEF Linked, NamesAreFresh, Quiet, Making
    <3>3. \A d \in Calls : calls'[d].step \in Making => calls'[d].id # call.id
      BY <2>1, <2>2 DEF Linked, NamesAreFresh, Quiet, At, Making
    <3>4. Mailed' = Mailed
      BY <2>4 DEF Mailed
    <3>5. \A d \in Calls : calls'[d].token \in {0} \cup Mailed
      BY <2>2 DEF Linked, NamesAreFresh, Quiet
    <3> QED BY <2>1, <2>4, <3>1, <3>2, <3>3, <3>4, <3>5 DEF Linked, NamesAreFresh
  <2>6. RowsAreOpen'
    <3> HIDE DEF row
    <3>1. row.token = call.id
      BY DEF row
    <3>2. \A q, r \in tokens' : q.token = r.token => q = r
      BY <2>3, <2>4, <3>1 DEF Linked, RowsAreOpen
    <3>3. call.id \notin redeemed
      BY <2>3 DEF Linked, NamesAreFresh
    <3>4. \A r \in tokens' : r.token \notin redeemed
      BY <2>4, <3>1, <3>3 DEF Linked, RowsAreOpen
    <3> QED BY <2>4, <3>2, <3>4 DEF RowsAreOpen
  <2>7. LinkWorksOnce'
    <3> SUFFICES ASSUME NEW d \in Calls, At(d, "resetUpdate")'
                 PROVE  /\ calls'[d].token \notin redeemed'
                        /\ Rows(calls[d].token)' = {}
                        /\ \A e \in Calls \ {d} :
                             At(e, "resetUpdate")' => calls'[e].token # calls'[d].token
      BY DEF LinkWorksOnce
    <3>1. At(d, "resetUpdate") /\ calls'[d].token = calls[d].token
      BY <2>2 DEF Quiet, At
    <3>2. calls[d].token # call.id
      BY <2>1, <2>3 DEF Linked, NamesAreFresh
    <3>3. Rows(calls[d].token)' = {}
      BY <2>4, <3>1, <3>2 DEF Linked, LinkWorksOnce, Rows
    <3> QED BY <2>2, <2>4, <3>1, <3>3 DEF Linked, LinkWorksOnce, Quiet, At
  <2> QED BY <2>5, <2>6, <2>7 DEF Linked
<1>12. CASE SendMail(c)
  <2>1. /\ call.step = "forgotMail" /\ call.id \in 1..begun /\ calls \in [Calls -> Call]
    BY <1>0, <1>12 DEF SendMail, At, Carries, Typed, TypeOK
  <2>2. calls' = [calls EXCEPT ![c] = Answered(call, "ok")]
    BY <1>12 DEF SendMail, Answer, Becomes
  <2>3. \A d \in Calls : Quiet(d) /\ (calls'[d].step \in Making => d # c)
    BY <2>1, <2>2 DEF Answered, NoCall, Quiet, Making
  <2>4. mail' = mail \cup {[token |-> call.id, user |-> call.user]}
        /\ UNCHANGED <<tokens, begun, redeemed>>
    BY <1>12 DEF SendMail
  <2>5. NamesAreFresh'
    <3>1. \A d, e \in Calls :
            d # e /\ ~At(d, "idle")' /\ ~At(e, "idle")' => calls'[d].id # calls'[e].id
      BY <2>3 DEF Linked, NamesAreFresh, Quiet, At
    <3>2. \A r \in tokens \cup mail :
            /\ r.token \in 1..begun
            /\ \A d \in Calls : calls'[d].step \in Making => calls'[d].id # r.token
      BY <2>3 DEF Linked, NamesAreFresh, Quiet, Making
    <3>3. \A d \in Calls : calls'[d].step \in Making => calls'[d].id # call.id
      BY <2>1, <2>3 DEF Linked, NamesAreFresh, Quiet, At, Making
    <3>4. Mailed \subseteq Mailed'
      BY <2>4 DEF Mailed
    <3>5. \A d \in Calls : calls'[d].token \in {0} \cup Mailed
      BY <2>3 DEF Linked, NamesAreFresh, Quiet
    <3> QED BY <2>1, <2>4, <3>1, <3>2, <3>3, <3>4, <3>5 DEF Linked, NamesAreFresh
  <2>6. RowsAreOpen' /\ LinkWorksOnce'
    BY <2>3, <2>4 DEF Linked, RowsAreOpen, LinkWorksOnce, Quiet, At, Rows
  <2> QED BY <2>5, <2>6 DEF Linked
<1>13. CASE FailToMail(c)
  BY <1>13, QuietAnswer DEF FailToMail, At
<1>14. CASE FindToken(c)
  <2>1. PICK r \in Rows(call.token) :
          Becomes(c, [call EXCEPT !.user = r.user, !.step = "resetDelete"])
    BY <1>14 DEF FindToken
  <2> DEFINE new == [call EXCEPT !.user = r.user, !.step = "resetDelete"]
  <2>2. /\ new.id = call.id /\ new.token = call.token
        /\ new.step \notin Making \cup {"resetUpdate"} /\ call.step # "idle"
    BY <1>0, <1>14 DEF Call, FindToken, At, Making
  <2> QED BY <1>14, <2>1, <2>2, QuietCall DEF FindToken
<1>15. CASE FindNoToken(c)
  BY <1>15, QuietAnswer DEF FindNoToken, At
<1>16. CASE DeleteToken(c)
  <2> DEFINE new == [call EXCEPT !.step = "resetUpdate"]
  <2>1. PICK r \in Rows(call.token) : tokens' = tokens \ {r}
    BY <1>16 DEF DeleteToken
  <2>2. Answer(c, "link") \/ Answer(c, "credentials") \/ Becomes(c, new)
    BY <1>16 DEF DeleteToken, GoTo
  <2>3. CASE Answer(c, "link") \/ Answer(c, "credentials")
    BY <1>16, <2>1, <2>3, QuietAnswer DEF DeleteToken, At
  <2>4. CASE Becomes(c, new)
    <3>1. /\ call.step = "resetDelete" /\ calls \in [Calls -> Call]
          /\ UNCHANGED <<mail, begun, redeemed>>
      BY <1>16 DEF DeleteToken, At, Typed, TypeOK
    <3>2. \A d \in Calls \ {c} : calls'[d] = calls[d]
      BY <2>4, <3>1 DEF Becomes
    <3>3. calls'[c].id = call.id /\ calls'[c].token = call.token
          /\ calls'[c].step = "resetUpdate"
      BY <1>0, <2>4, <3>1 DEF Becomes, Call
    <3>4. r \in tokens /\ r.token = call.token
          /\ \A q \in tokens : q.token = call.token => q = r
      BY DEF Rows, Linked, RowsAreOpen
    <3>5. NamesAreFresh'
      <4>1. \A d, e \in Calls :
              d # e /\ ~At(d, "idle")' /\ ~At(e, "idle")' => calls'[d].id # calls'[e].id
        BY <3>1, <3>2, <3>3 DEF Linked, NamesAreFresh, At
      <4>2. \A q \in tokens' \cup mail :
              /\ q.token \in 1..begun
              /\ \A d \in Calls : calls'[d].step \in Making => calls'[d].id # q.token
        BY <2>1, <3>2, <3>3 DEF Linked, NamesAreFresh, Making
      <4>3. Mailed' = Mailed
        BY <3>1 DEF Mailed
      <4>4. \A d \in Calls : calls'[d].token \in {0} \cup Mailed
        BY <3>2, <3>3 DEF Linked, NamesAreFresh
      <4> QED BY <3>1, <4>1, <4>2, <4>3, <4>4 DEF Linked, NamesAreFresh
    <3>6. RowsAreOpen'
      BY <2>1, <3>1 DEF Linked, RowsAreOpen
    <3>7. LinkWorksOnce'
      <4>1. \A d \in Calls \ {c} :
              At(d, "resetUpdate")' =>
                /\ At(d, "resetUpdate") /\ calls'[d].token = calls[d].token
                /\ calls[d].token # call.token
        BY <3>2, <3>4 DEF Linked, LinkWorksOnce, At, Rows
      <4>2. call.token \notin redeemed /\ \A q \in tokens' : q.token # call.token
        BY <2>1, <3>4 DEF Linked, RowsAreOpen
      <4>3. \A d \in Calls : At(d, "resetUpdate")' =>
              /\ calls'[d].token \notin redeemed'
              /\ \A q \in tokens' : q.token # calls'[d].token
        BY <2>1, <3>1, <3>3, <4>1, <4>2 DEF Linked, LinkWorksOnce, Rows
      <4>4. \A d \in Calls, e \in Calls :
              d # e /\ At(d, "resetUpdate")' /\ At(e, "resetUpdate")'
                => calls'[e].token # calls'[d].token
        BY <3>3, <4>1 DEF Linked, LinkWorksOnce
      <4> QED BY <4>3, <4>4 DEF LinkWorksOnce, Rows
    <3> QED BY <3>5, <3>6, <3>7 DEF Linked
  <2> QED BY <2>2, <2>3, <2>4
<1>17. CASE DeleteNoToken(c)
  BY <1>17, QuietAnswer DEF DeleteNoToken, At
<1>18. CASE ResetPassword(c)
  <2>1. /\ call.step = "resetUpdate" /\ calls \in [Calls -> Call]
        /\ redeemed' = redeemed \cup {call.token} /\ UNCHANGED <<tokens, mail, begun>>
    BY <1>18 DEF ResetPassword, At, Typed, TypeOK
  <2>2. \A d \in Calls \ {c} : calls'[d] = calls[d]
    BY <1>18, <2>1 DEF ResetPassword, Becomes
  <2>3. calls'[c].id = call.id /\ calls'[c].token = call.token
        /\ calls'[c].step = "resetRevoke"
    BY <1>0, <1>18, <2>1 DEF ResetPassword, Becomes, Call
  <2>4. call.token \in Mailed
    BY <1>0, <2>1 DEF Carries, ResetSteps, Ids, Linked, NamesAreFresh
  <2>5. NamesAreFresh'
    <3>1. \A d, e \in Calls :
            d # e /\ ~At(d, "idle")' /\ ~At(e, "idle")' => calls'[d].id # calls'[e].id
      BY <2>1, <2>2, <2>3 DEF Linked, NamesAreFresh, At
    <3>2. \A q \in tokens \cup mail :
            /\ q.token \in 1..begun
            /\ \A d \in Calls : calls'[d].step \in Making => calls'[d].id # q.token
      BY <2>2, <2>3 DEF Linked, NamesAreFresh, Making
    <3>3. Mailed' = Mailed
      BY <2>1 DEF Mailed
    <3>4. \A d \in Calls : calls'[d].token \in {0} \cup Mailed
      BY <2>2, <2>3 DEF Linked, NamesAreFresh
    <3> QED BY <2>1, <2>4, <3>1, <3>2, <3>3, <3>4 DEF Linked, NamesAreFresh
  <2>6. RowsAreOpen'
    BY <2>1 DEF Linked, RowsAreOpen, LinkWorksOnce, Rows, At
  <2>7. LinkWorksOnce'
    <3>1. \A d \in Calls : At(d, "resetUpdate")' =>
            d # c /\ At(d, "resetUpdate") /\ calls'[d].token = calls[d].token
      BY <2>2, <2>3 DEF At
    <3>2. \A d \in Calls : At(d, "resetUpdate")' => calls'[d].token # call.token
      BY <2>1, <3>1 DEF Linked, LinkWorksOnce, At
    <3> QED BY <2>1, <3>1, <3>2 DEF Linked, LinkWorksOnce, Rows
  <2> QED BY <2>5, <2>6, <2>7 DEF Linked
<1>19. CASE RevokeSessions(c)
  <2>1. ASSUME NEW d \in Calls PROVE Quiet(d)
    <3>1. calls[d] \in Call
      BY DEF Typed, TypeOK
    <3> QED BY <1>19, <3>1 DEF RevokeSessions, Quiet, Call, Making, At
  <2> QED BY <1>19, <2>1, QuietLinked DEF RevokeSessions
<1>20. CASE ChangePassword(c)
  BY <1>20, QuietAnswer DEF ChangePassword, At
<1> QED
  BY <1>1, <1>2, <1>3, <1>4, <1>5, <1>6, <1>7, <1>8, <1>9, <1>10, <1>11, <1>12, <1>13,
     <1>14, <1>15, <1>16, <1>17, <1>18, <1>19, <1>20 DEF Step

LEMMA NextLinked ==
    ASSUME Typed, Linked, [AnyNext]_vars
    PROVE  Linked'
<1>1. ASSUME NEW c \in Calls, Return(c) PROVE Linked'
  BY <1>1, QuietCall DEF Return, NoCall, Making
<1>2. ASSUME NEW r \in tokens, Expire(r) PROVE Linked'
  <2>1. [r EXCEPT !.expired = TRUE].token = r.token
    BY DEF Token, Typed, TypeOK
  <2>2. /\ tokens' = (tokens \ {r}) \cup {[r EXCEPT !.expired = TRUE]}
        /\ UNCHANGED <<mail, calls, begun, redeemed>>
    BY <1>2 DEF Expire
  <2> DEFINE expired == [r EXCEPT !.expired = TRUE]
  <2> HIDE DEF expired
  <2>3. expired.token = r.token /\ tokens' = (tokens \ {r}) \cup {expired}
    BY <2>1, <2>2 DEF expired
  <2>4. NamesAreFresh'
    <3>1. Mailed' = Mailed
      BY <2>2 DEF Mailed
    <3>2. \A q \in tokens' \cup mail :
            /\ q.token \in 1..begun
            /\ \A d \in Calls : calls[d].step \in Making => calls[d].id # q.token
      BY <2>3 DEF Linked, NamesAreFresh
    <3> QED BY <2>2, <3>1, <3>2 DEF Linked, NamesAreFresh, At
  <2>5. RowsAreOpen'
    BY <2>2, <2>3 DEF Linked, RowsAreOpen
  <2>6. LinkWorksOnce'
    BY <2>2, <2>3 DEF Linked, LinkWorksOnce, Rows, At
  <2> QED BY <2>4, <2>5, <2>6 DEF Linked
<1>3. CASE UNCHANGED vars
  BY <1>3 DEF vars, Linked, NamesAreFresh, RowsAreOpen, LinkWorksOnce, Mailed, Rows, At
<1> QED BY <1>1, <1>2, <1>3, RequestLinked, StepLinked DEF AnyNext

LEMMA LinkedInit == Init => Linked
BY DEF Init, NoCall, Linked, NamesAreFresh, RowsAreOpen, LinkWorksOnce, Mailed, Rows, At,
       Making

LEMMA AnyLinksWorkOnce == AnySpec => []LinkWorksOnce
<1>1. Linked => LinkWorksOnce
  BY DEF Linked
<1>2. Typed /\ Linked /\ [AnyNext]_vars => Typed' /\ Linked'
  BY NextTyped, NextLinked
<1> QED BY <1>1, <1>2, TypedInit, LinkedInit, PTL DEF AnySpec

\* A reset link sets one password, however many calls bring it and however they
\* overlap: the name of a link is fresh, its row is deleted before the password is
\* set, and the row is there once.
THEOREM LinksWorkOnce == Spec => []LinkWorksOnce
BY AnyLinksWorkOnce, SpecIsAny, PTL

-----------------------------------------------------------------------------
(***************************************************************************)
(* How many links there are.                                               *)
(***************************************************************************)

\* The calls that are about to add a link of user u.
Adding(u) == {c \in Calls : At(c, "forgotCreate") /\ calls[c].user = u}

Bounded(u) == Cardinality(TokensOf(u)) + Cardinality(Adding(u)) <= Cardinality(Calls)

Counted == IsFiniteSet(tokens) /\ \A u \in DOMAIN users : Bounded(u)

LEMMA FiniteCounts ==
    ASSUME IsFiniteSet(tokens), NEW u
    PROVE  /\ IsFiniteSet(Calls) /\ Cardinality(Calls) \in Nat
           /\ IsFiniteSet(TokensOf(u)) /\ Cardinality(TokensOf(u)) \in Nat
           /\ IsFiniteSet(Adding(u)) /\ Cardinality(Adding(u)) \in Nat
           /\ Cardinality(Adding(u)) <= Cardinality(Calls)
<1>1. IsFiniteSet(Calls)
  BY AuthAssumption
<1>2. TokensOf(u) \subseteq tokens /\ Adding(u) \subseteq Calls
  BY DEF TokensOf, Adding
<1> QED BY <1>1, <1>2, FS_Subset, FS_CardinalityType

LEMMA AtMostOneMore ==
    ASSUME NEW S, IsFiniteSet(S), NEW x
    PROVE  /\ IsFiniteSet(S \cup {x}) /\ Cardinality(S \cup {x}) \in Nat
           /\ Cardinality(S) \in Nat /\ Cardinality(S \cup {x}) <= Cardinality(S) + 1
<1>1. Cardinality(S) \in Nat
  BY FS_CardinalityType
<1>2. /\ IsFiniteSet(S \cup {x})
      /\ Cardinality(S \cup {x}) = Cardinality(S) \/ Cardinality(S \cup {x}) = Cardinality(S) + 1
  BY FS_AddElement
<1> QED BY <1>1, <1>2

\* No link is added, and no call has come to be about to.
LEMMA FewerLinks ==
    ASSUME IsFiniteSet(tokens), NEW u, Bounded(u),
           TokensOf(u)' \subseteq TokensOf(u), Adding(u)' \subseteq Adding(u)
    PROVE  Bounded(u)'
<1>1. /\ Cardinality(TokensOf(u)') <= Cardinality(TokensOf(u))
      /\ Cardinality(Adding(u)') <= Cardinality(Adding(u))
      /\ IsFiniteSet(TokensOf(u)') /\ IsFiniteSet(Adding(u)')
  BY FiniteCounts, FS_Subset
<1>2. Cardinality(TokensOf(u)') \in Nat /\ Cardinality(Adding(u)') \in Nat
  BY <1>1, FS_CardinalityType
<1> QED BY <1>1, <1>2, FiniteCounts DEF Bounded

LEMMA QuietCounted ==
    ASSUME Typed, Counted, tokens' \subseteq tokens, DOMAIN users' = DOMAIN users,
           \A c \in Calls : At(c, "forgotCreate")' =>
             At(c, "forgotCreate") /\ calls'[c].user = calls[c].user
    PROVE  Counted'
<1>1. IsFiniteSet(tokens')
  BY FS_Subset DEF Counted
<1>2. ASSUME NEW u \in DOMAIN users PROVE Bounded(u)'
  BY FewerLinks DEF Counted, TokensOf, Adding
<1> QED BY <1>1, <1>2 DEF Counted

LEMMA QuietCallCounted ==
    ASSUME Typed, Counted, NEW c \in Calls, NEW call, Becomes(c, call),
           call.step # "forgotCreate", tokens' \subseteq tokens,
           DOMAIN users' = DOMAIN users
    PROVE  Counted'
BY QuietCounted DEF Becomes, At, Typed, TypeOK

LEMMA CreateUserCounted ==
    ASSUME Typed, Counted, NEW c \in Calls, CreateUser(c)
    PROVE  Counted'
<1>1. /\ users \in Seq(User) /\ calls \in [Calls -> Call]
      /\ \A t \in tokens : t.user \in DOMAIN users
      /\ \A d \in Calls : At(d, "forgotCreate") => calls[d].user \in DOMAIN users
  BY DEF Typed, TypeOK, RowsHaveUsers, Carries, At
<1>2. DOMAIN users' = DOMAIN users \cup {Len(users) + 1} /\ Len(users) + 1 \notin DOMAIN users
  BY <1>1 DEF CreateUser
<1>3. tokens' = tokens
      /\ \A d \in Calls : At(d, "forgotCreate")' =>
           At(d, "forgotCreate") /\ calls'[d].user = calls[d].user
  BY <1>1 DEF CreateUser, Becomes, At, Call
<1>4. ASSUME NEW u \in DOMAIN users PROVE Bounded(u)'
  BY <1>3, FewerLinks DEF Counted, TokensOf, Adding
<1>5. ASSUME NEW u, u = Len(users) + 1 PROVE Bounded(u)'
  <2>1. TokensOf(u) = {} /\ Adding(u) = {}
    BY <1>1, <1>2, <1>5 DEF TokensOf, Adding
  <2>2. Bounded(u)
    <3>1. Cardinality({}) = 0
      BY FS_EmptySet
    <3> QED BY <2>1, <3>1, FiniteCounts DEF Bounded, Counted
  <2>3. TokensOf(u)' \subseteq TokensOf(u) /\ Adding(u)' \subseteq Adding(u)
    BY <1>3 DEF TokensOf, Adding
  <2> QED BY <2>2, <2>3, FewerLinks DEF Counted
<1>6. \A u \in DOMAIN users' : u \in DOMAIN users \/ u = Len(users) + 1
  BY <1>2
<1> QED BY <1>3, <1>4, <1>5, <1>6 DEF Counted

\* The links of the user go, so that it does not matter how many are to come.
LEMMA DeleteTokensCounted ==
    ASSUME Typed, Counted, NEW c \in Calls, DeleteTokens(c)
    PROVE  Counted'
<1>1. /\ tokens' \subseteq tokens /\ calls \in [Calls -> Call]
      /\ DOMAIN users' = DOMAIN users
      /\ \A d \in Calls \ {c} : calls'[d] = calls[d]
      /\ calls'[c].user = calls[c].user
  BY DEF DeleteTokens, GoTo, Becomes, Typed, TypeOK, Call
<1>2. IsFiniteSet(tokens')
  BY <1>1, FS_Subset DEF Counted
<1>3. ASSUME NEW u \in DOMAIN users, u = calls[c].user PROVE Bounded(u)'
  <2>1. TokensOf(u)' = {}
    BY <1>3 DEF DeleteTokens, TokensOf
  <2>2. Adding(u)' \subseteq Calls
    BY DEF Adding
  <2>3. /\ Cardinality(Adding(u)') <= Cardinality(Calls)
        /\ Cardinality(Adding(u)') \in Nat /\ Cardinality(Calls) \in Nat
    BY <2>2, AuthAssumption, FS_Subset, FS_CardinalityType
  <2>4. Cardinality({}) = 0
    BY FS_EmptySet
  <2> QED BY <2>1, <2>3, <2>4 DEF Bounded
<1>4. ASSUME NEW u \in DOMAIN users, u # calls[c].user PROVE Bounded(u)'
  <2>1. TokensOf(u)' \subseteq TokensOf(u) /\ Adding(u)' \subseteq Adding(u)
    BY <1>1, <1>4 DEF TokensOf, Adding, At
  <2> QED BY <2>1, FewerLinks DEF Counted
<1> QED BY <1>1, <1>2, <1>3, <1>4 DEF Counted

\* One link more, one call less that is about to add one.
LEMMA CreateTokenCounted ==
    ASSUME Typed, Counted, NEW c \in Calls, CreateToken(c)
    PROVE  Counted'
<1> DEFINE row == [token |-> calls[c].id, user |-> calls[c].user, expired |-> FALSE]
<1>1. /\ calls \in [Calls -> Call] /\ DOMAIN users' = DOMAIN users
      /\ \A d \in Calls \ {c} : calls'[d] = calls[d]
      /\ ~At(c, "forgotCreate")' /\ At(c, "forgotCreate")
      /\ tokens' = tokens \cup {row}
  BY DEF CreateToken, GoTo, Becomes, Typed, TypeOK, Call, At
<1>2. IsFiniteSet(tokens')
  BY <1>1, FS_AddElement DEF Counted
<1>3. ASSUME NEW u \in DOMAIN users, u = calls[c].user PROVE Bounded(u)'
  <2>1. Adding(u)' = Adding(u) \ {c} /\ c \in Adding(u)
    BY <1>1, <1>3 DEF Adding, At
  <2>2. TokensOf(u)' = TokensOf(u) \cup {row}
    BY <1>1, <1>3 DEF TokensOf
  <2>3. Cardinality(Adding(u)') = Cardinality(Adding(u)) - 1
    BY <2>1, FiniteCounts, FS_RemoveElement DEF Counted
  <2>4. /\ Cardinality(TokensOf(u)') <= Cardinality(TokensOf(u)) + 1
        /\ Cardinality(TokensOf(u)') \in Nat
    <3> HIDE DEF row
    <3>1. IsFiniteSet(TokensOf(u))
      BY FiniteCounts DEF Counted
    <3> QED BY <2>2, <3>1, AtMostOneMore
  <2> QED BY <2>3, <2>4, FiniteCounts DEF Counted, Bounded
<1>4. ASSUME NEW u \in DOMAIN users, u # calls[c].user PROVE Bounded(u)'
  <2>1. TokensOf(u)' \subseteq TokensOf(u) /\ Adding(u)' \subseteq Adding(u)
    BY <1>1, <1>4 DEF TokensOf, Adding, At
  <2> QED BY <2>1, FewerLinks DEF Counted
<1> QED BY <1>1, <1>2, <1>3, <1>4 DEF Counted

LEMMA ExpireCounted ==
    ASSUME Typed, Counted, NEW r \in tokens, Expire(r)
    PROVE  Counted'
<1> DEFINE expired == [r EXCEPT !.expired = TRUE]
<1>1. /\ expired.user = r.user /\ tokens' = (tokens \ {r}) \cup {expired}
      /\ UNCHANGED <<users, calls>>
  BY DEF Expire, Token, Typed, TypeOK
<1> HIDE DEF expired
<1>2. IsFiniteSet(tokens')
  BY <1>1, FS_RemoveElement, FS_AddElement DEF Counted
<1>3. ASSUME NEW u \in DOMAIN users, u = r.user PROVE Bounded(u)'
  <2>1. TokensOf(u)' = (TokensOf(u) \ {r}) \cup {expired} /\ r \in TokensOf(u)
    BY <1>1, <1>3 DEF TokensOf
  <2>2. Adding(u)' = Adding(u)
    BY <1>1 DEF Adding, At
  <2>3. /\ IsFiniteSet(TokensOf(u) \ {r})
        /\ Cardinality(TokensOf(u) \ {r}) = Cardinality(TokensOf(u)) - 1
    BY <2>1, FiniteCounts, FS_RemoveElement DEF Counted
  <2>4. /\ Cardinality(TokensOf(u)') <= Cardinality(TokensOf(u) \ {r}) + 1
        /\ Cardinality(TokensOf(u)') \in Nat
        /\ Cardinality(TokensOf(u) \ {r}) \in Nat
    BY <2>1, <2>3, AtMostOneMore
  <2> QED BY <2>2, <2>3, <2>4, FiniteCounts DEF Counted, Bounded
<1>4. ASSUME NEW u \in DOMAIN users, u # r.user PROVE Bounded(u)'
  <2>1. TokensOf(u)' \subseteq TokensOf(u) /\ Adding(u)' \subseteq Adding(u)
    BY <1>1, <1>4 DEF TokensOf, Adding, At
  <2> QED BY <2>1, FewerLinks DEF Counted
<1> QED BY <1>1, <1>2, <1>3, <1>4 DEF Counted

\* The steps that add no link and prepare none.
LEMMA OtherStepsCounted ==
    ASSUME Typed, Counted, NEW c \in Calls, Step(c),
           ~CreateUser(c), ~DeleteTokens(c), ~CreateToken(c)
    PROVE  Counted'
<1> DEFINE call == calls[c]
<1>0. /\ call \in Call /\ Carries(call, begun, DOMAIN users)
      /\ calls \in [Calls -> Call]
  BY DEF Typed, TypeOK
<1>1. \A u, p, r : SetPassword(u, p, r) => DOMAIN users' = DOMAIN users
  BY DEF SetPassword
<1>2. ASSUME NEW a, Answer(c, a), tokens' \subseteq tokens, DOMAIN users' = DOMAIN users
      PROVE  Counted'
  BY <1>2, QuietCallCounted DEF Answer, Answered, NoCall
<1>3. CASE \/ RejectCredentials(c) \/ EmailTaken(c) \/ Logout(c) \/ FindNobody(c)
           \/ SendMail(c) \/ FailToMail(c) \/ FindNoToken(c) \/ DeleteNoToken(c)
           \/ CreateSession(c)
  BY <1>2, <1>3
  DEF RejectCredentials, EmailTaken, Logout, FindNobody, SendMail, FailToMail, FindNoToken,
      DeleteNoToken, CreateSession
<1>4. CASE Authenticate(c)
  <2>1. PICK u \in WithEmail(call.email) : Becomes(c, [call EXCEPT !.found = u, !.proof = users[u].resets,
                       !.step = IF users[u].old THEN "rehash" ELSE AfterAuthenticate(c)])
    BY <1>4 DEF Authenticate
  <2> DEFINE new == [call EXCEPT !.found = u, !.proof = users[u].resets,
                       !.step = IF users[u].old THEN "rehash" ELSE AfterAuthenticate(c)]
  <2>2. new.step # "forgotCreate"
    BY <1>0 DEF Call, AfterAuthenticate
  <2>3. tokens' \subseteq tokens /\ DOMAIN users' = DOMAIN users
    BY <1>1, <1>4 DEF Authenticate
  <2> HIDE DEF new
  <2>4. Becomes(c, new)
    BY <2>1 DEF new
  <2> QED BY <2>2, <2>3, <2>4, QuietCallCounted
<1>5. CASE FindForgetful(c)
  <2>1. PICK u : Becomes(c, [call EXCEPT !.user = u, !.step = "forgotDelete"])
    BY <1>5 DEF FindForgetful
  <2> DEFINE new == [call EXCEPT !.user = u, !.step = "forgotDelete"]
  <2>2. new.step # "forgotCreate"
    BY <1>0 DEF Call, AfterAuthenticate
  <2>3. tokens' \subseteq tokens /\ DOMAIN users' = DOMAIN users
    BY <1>1, <1>5 DEF FindForgetful
  <2> HIDE DEF new
  <2>4. Becomes(c, new)
    BY <2>1 DEF new
  <2> QED BY <2>2, <2>3, <2>4, QuietCallCounted
<1>6. CASE FindToken(c)
  <2>1. PICK r : Becomes(c, [call EXCEPT !.user = r.user, !.step = "resetDelete"])
    BY <1>6 DEF FindToken
  <2> DEFINE new == [call EXCEPT !.user = r.user, !.step = "resetDelete"]
  <2>2. new.step # "forgotCreate"
    BY <1>0 DEF Call, AfterAuthenticate
  <2>3. tokens' \subseteq tokens /\ DOMAIN users' = DOMAIN users
    BY <1>1, <1>6 DEF FindToken
  <2> HIDE DEF new
  <2>4. Becomes(c, new)
    BY <2>1 DEF new
  <2> QED BY <2>2, <2>3, <2>4, QuietCallCounted
<1>9. CASE Rehash(c)
  <2>1. Becomes(c, [call EXCEPT !.step = AfterAuthenticate(c)])
    BY <1>9 DEF Rehash, GoTo
  <2> DEFINE new == [call EXCEPT !.step = AfterAuthenticate(c)]
  <2>2. new.step # "forgotCreate"
    BY <1>0 DEF Call, AfterAuthenticate
  <2>3. tokens' \subseteq tokens /\ DOMAIN users' = DOMAIN users
    BY <1>1, <1>9 DEF Rehash
  <2> HIDE DEF new
  <2>4. Becomes(c, new)
    BY <2>1 DEF new
  <2> QED BY <2>2, <2>3, <2>4, QuietCallCounted
<1>10. CASE ResetPassword(c)
  <2>1. Becomes(c, [call EXCEPT !.mark = users[call.user].writes + 1, !.step = "resetRevoke"])
    BY <1>10 DEF ResetPassword, GoTo
  <2> DEFINE new == [call EXCEPT !.mark = users[call.user].writes + 1, !.step = "resetRevoke"]
  <2>2. new.step # "forgotCreate"
    BY <1>0 DEF Call, AfterAuthenticate
  <2>3. tokens' \subseteq tokens /\ DOMAIN users' = DOMAIN users
    BY <1>1, <1>10 DEF ResetPassword
  <2> HIDE DEF new
  <2>4. Becomes(c, new)
    BY <2>1 DEF new
  <2> QED BY <2>2, <2>3, <2>4, QuietCallCounted
<1>11. CASE DeleteToken(c)
  <2>1. tokens' \subseteq tokens /\ DOMAIN users' = DOMAIN users
    BY <1>11 DEF DeleteToken
  <2> DEFINE new == [call EXCEPT !.step = "resetUpdate"]
  <2>2. new.step # "forgotCreate"
    BY <1>0 DEF Call
  <2>3. Answer(c, "link") \/ Answer(c, "credentials") \/ Becomes(c, new)
    BY <1>11 DEF DeleteToken, GoTo
  <2> HIDE DEF new
  <2> QED BY <1>2, <2>1, <2>2, <2>3, QuietCallCounted
<1>7. CASE RevokeSessions(c)
  <2>1. \A d \in Calls : At(d, "forgotCreate")' =>
          At(d, "forgotCreate") /\ calls'[d].user = calls[d].user
    BY <1>0, <1>7 DEF RevokeSessions, At, Call
  <2> QED BY <1>7, <2>1, QuietCounted DEF RevokeSessions
<1>8. CASE ChangePassword(c)
  <2>1. DOMAIN users' = DOMAIN users
    BY <1>1, <1>8 DEF ChangePassword
  <2> QED BY <1>2, <1>8, <2>1 DEF ChangePassword
<1> QED BY <1>3, <1>4, <1>5, <1>6, <1>7, <1>8, <1>9, <1>10, <1>11 DEF Step

LEMMA RequestCounted ==
    ASSUME Typed, Counted, NEW c \in Calls, AnyRequest(c)
    PROVE  Counted'
<1>1. ASSUME NEW call, Start(c, call), call.step # "forgotCreate"
      PROVE  Counted'
  BY <1>1, QuietCallCounted DEF Start, Becomes
<1>2. ASSUME NEW h, NEW p, NEW q, StartChange(c, h, p, q)
      PROVE  Counted'
  <2>1. CASE LiveUser(h) = {}
    BY <1>1, <1>2, <2>1 DEF StartChange, Answered, Begin, NoCall
  <2>2. CASE LiveUser(h) # {}
    <3>1. PICK u \in LiveUser(h) :
            Start(c, [Begin(c, "change", "authFind", h) EXCEPT
                        !.user = u, !.email = ParsedEmail(users[u].email),
                        !.password = p, !.next = Trim[Parsed(q)]])
      BY <1>2, <2>2 DEF StartChange
    <3> QED BY <1>1, <3>1 DEF Begin, NoCall
  <2> QED BY <2>1, <2>2
<1>3. ASSUME NEW h, NEW t, NEW p, NEW q, StartReset(c, h, t, p, q)
      PROVE  Counted'
  <2>1. CASE t = 0
    BY <1>1, <1>3, <2>1 DEF StartReset, Answered, Begin, NoCall
  <2>2. CASE t # 0
    BY <1>1, <1>3, <2>2 DEF StartReset, Begin, NoCall
  <2> QED BY <2>1, <2>2
<1>4. ASSUME NEW e, NEW p, StartSignup(c, e, p) \/ StartLogin(c, e, p)
      PROVE  Counted'
  BY <1>1, <1>4 DEF StartSignup, StartLogin, Begin, NoCall
<1>5. ASSUME NEW x, StartLogout(c, x) \/ StartForgot(c, x)
      PROVE  Counted'
  BY <1>1, <1>5 DEF StartLogout, StartForgot, Begin, NoCall
<1> QED BY <1>2, <1>3, <1>4, <1>5 DEF Request, AnyRequest

LEMMA NextCounted ==
    ASSUME Typed, Counted, [AnyNext]_vars
    PROVE  Counted'
<1>1. ASSUME NEW c \in Calls, Step(c) PROVE Counted'
  BY <1>1, CreateUserCounted, DeleteTokensCounted, CreateTokenCounted, OtherStepsCounted
<1>2. ASSUME NEW c \in Calls, Return(c) PROVE Counted'
  BY <1>2, QuietCallCounted DEF Return, NoCall
<1>3. CASE UNCHANGED vars
  BY <1>3, QuietCounted DEF vars, At
<1> QED BY <1>1, <1>2, <1>3, RequestCounted, ExpireCounted DEF AnyNext

LEMMA CountedInit == Init => Counted
<1> SUFFICES ASSUME Init PROVE Counted
  OBVIOUS
<1>1. IsFiniteSet({}) /\ Cardinality({}) = 0
  BY FS_EmptySet
<1>2. Cardinality(Calls) \in Nat
  BY AuthAssumption, FS_CardinalityType
<1>3. ASSUME NEW u PROVE TokensOf(u) = {} /\ Adding(u) = {}
  BY DEF Init, TokensOf, Adding, At, NoCall
<1>4. IsFiniteSet(tokens)
  BY <1>1 DEF Init
<1>5. \A u : Bounded(u)
  BY <1>1, <1>2, <1>3 DEF Bounded
<1> QED BY <1>4, <1>5 DEF Counted

LEMMA AnyLinksAreBounded == AnySpec => []LinksBounded
<1>1. Counted => LinksBounded
  BY DEF Counted, Bounded, LinksBounded, TokensOf, Adding
<1>2. Typed /\ Counted /\ [AnyNext]_vars => Typed' /\ Counted'
  BY NextTyped, NextCounted
<1> QED BY <1>1, <1>2, TypedInit, CountedInit, PTL DEF AnySpec

\* There are never more links of an account than calls that can overlap, with the
\* links to be made counted, although the deletion and the insert of a request are
\* two database calls.
THEOREM LinksAreBounded == Spec => []LinksBounded
BY AnyLinksAreBounded, SpecIsAny, PTL
=============================================================================
