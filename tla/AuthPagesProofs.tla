--------------------------- MODULE AuthPagesProofs ---------------------------
(***************************************************************************)
(* AuthPages for any tabs, browsers and calls.  What the mutations promise *)
(* holds below the pages; a success that is shown is one, a browser leaves *)
(* no session behind unless an answer was lost or a page outdated, and the *)
(* home page keeps up with its tab.                                        *)
(***************************************************************************)
EXTENDS AuthPages, AuthPromiseProofs

(***************************************************************************)
(* What the pages and the running calls have to do with each other.        *)
(***************************************************************************)

\* The steps of a mutation of each kind, before its answer.
Fits(kind, step) ==
    \/ kind = "signup" /\ step \in {"signup", "create"}
    \/ kind = "login" /\ step \in {"authFind", "rehash", "create"}
    \/ kind = "logout" /\ step = "logout"
    \/ kind = "forgot" /\ step \in {"forgotFind", "forgotDelete", "forgotCreate", "forgotMail"}
    \/ kind = "reset" /\ step \in ResetSteps \cup {"authFind", "rehash", "create"}
    \/ kind = "change" /\ step \in {"authFind", "rehash", "changeUpdate"}

Kinded ==
    \A c \in Calls :
        /\ calls[c].step \notin Over => Fits(calls[c].kind, calls[c].step)
        /\ calls[c].step = "idle" => calls[c].id = 0

\* A tab hears calls that are under way, and waits for one of the kind of its form.
Hearing ==
    /\ \A c \in Calls : sender[c].tab # Nobody => calls[c].step # "idle"
    /\ \A t \in Tabs : pages[t].waiting # Nobody =>
         /\ calls[pages[t].waiting].step # "idle"
         /\ calls[pages[t].waiting].kind = pages[t].at
    /\ \A t \in Tabs : pages[t].success => pages[t].waiting = Nobody

\* A page for a reset is left by a new page or by its success: it is never on its way
\* out while it is there, and hears nothing but its own call.
ResetsAreAlone ==
    /\ \A t \in Tabs : pages[t].at = "reset" =>
         /\ pages[t].moving = "none"
         /\ \A c \in Calls : sender[c].tab = t => pages[t].waiting = c
    /\ \A c \in Calls : sender[c].tab # Nobody /\ calls[c].kind = "reset"
         => pages[sender[c].tab].at = "reset"

Early == {"resetFind", "resetDelete", "resetUpdate"}
Late == {"resetRevoke", "authFind", "rehash", "create"}

\* What a call has to do with the link it was made for.
Brings(call, link, used) ==
    \/ call.step \in Early /\ call.token = link
    \/ call.step \in Late /\ link \in used
    \/ call.step = "answered" /\ (call.answer = "ok" => link \in used)

LinksAreBrought ==
    \A t \in Tabs : pages[t].at = "reset" =>
        /\ pages[t].link \in {0} \cup Mailed
        /\ pages[t].waiting # Nobody => Brings(calls[pages[t].waiting], pages[t].link, redeemed)
        /\ pages[t].success => pages[t].link \in redeemed

\* A session has a name of its own; the call that has opened it has said so.
HandlesAreAnswered ==
    /\ \A r, s \in sessions : r.handle = s.handle => r = s
    /\ \A s \in sessions : s.handle \in 1..begun
    /\ \A s \in sessions, c \in Calls : calls[c].id = s.handle =>
         calls[c].step = "answered" /\ calls[c].answer = "ok" /\ calls[c].kind \in SignIns

\* No call is under way that opens a session with this name.
Past(h) == h \in 0..begun /\ \A c \in Calls : calls[c].step # "idle" => calls[c].id # h

CookiesArePast ==
    /\ \A b \in Browsers : Past(jar[b])
    /\ \A t \in Tabs : Past(pages[t].base) /\ Past(pages[t].seen)
    /\ \A c \in Calls : Past(sender[c].base)

\* A form was rendered for a browser without a session.
FormsAreForNobody ==
    /\ \A t \in Tabs : pages[t].at # "home" => pages[t].base \notin Handles
    /\ \A c \in Calls : sender[c].tab # Nobody /\ calls[c].kind # "logout"
         => sender[c].base \notin Handles

\* A logout ends the session that its page was rendered for, if the cookie is still
\* the same.
LogoutsEndTheirs ==
    \A c \in Calls :
        (/\ sender[c].tab # Nobody /\ calls[c].kind = "logout"
         /\ jar[BrowserOf[sender[c].tab]] = sender[c].base /\ sender[c].base # 0)
          => \/ calls[c].step = "logout" /\ calls[c].session = sender[c].base
             \/ calls[c].step = "answered" /\ sender[c].base \notin Handles

UnheardAreLost ==
    \A c \in Calls :
        calls[c].step # "idle" /\ calls[c].kind \in SignIns /\ sender[c].tab = Nobody
          => calls[c].id \in lost

HomeShows ==
    \A t \in Tabs : pages[t].at = "home" /\ pages[t].moving = "none" =>
        /\ pages[t].seen = 0 => pages[t].shown = 0
        /\ \A s \in sessions : s.handle = pages[t].seen => s.user = pages[t].shown

-----------------------------------------------------------------------------
(***************************************************************************)
(* What a step of a mutation does to its call and to the tables.           *)
(***************************************************************************)

\* The call goes on: it keeps its name and kind, and a reset its link until it has
\* set the password.
GoesOn(old, new) ==
    /\ old.step \notin Over /\ new.step # "idle"
    /\ new.id = old.id /\ new.kind = old.kind
    /\ new.step = "answered" \/ Fits(new.kind, new.step)
    /\ new.step \in Early => old.step \in Early /\ new.token = old.token
    /\ new.kind = "reset" /\ new.step \in Late =>
         \/ old.step \in Late
         \/ old.step = "resetUpdate" /\ old.token \in redeemed'
    /\ new.kind = "reset" /\ new.step = "answered" /\ new.answer = "ok" => old.step = "create"
    /\ new.kind = "logout" => new.step = "answered" /\ \A s \in sessions' : s.handle # old.session

Opens(new) ==
    \E row : /\ row.handle = new.id /\ sessions' = sessions \cup {row}
            /\ new.step = "answered" /\ new.answer = "ok" /\ new.kind \in SignIns

Tables(new) ==
    /\ sessions' \subseteq sessions \/ Opens(new)
    /\ redeemed \subseteq redeemed' /\ mail \subseteq mail' /\ begun' = begun

SameCall(old, new) ==
    /\ new.id = old.id /\ new.kind = old.kind /\ new.step = old.step
    /\ new.answer = old.answer /\ new.token = old.token /\ new.session = old.session

Progress(c) ==
    /\ GoesOn(calls[c], calls'[c]) /\ Tables(calls'[c])
    /\ \A d \in Calls \ {c} : SameCall(calls[d], calls'[d])

LEMMA OneCallGoesOn ==
    ASSUME Typed, NEW c \in Calls, NEW call, Becomes(c, call),
           GoesOn(calls[c], call), Tables(call)
    PROVE  Progress(c)
<1>1. calls' = [calls EXCEPT ![c] = call] /\ calls \in [Calls -> Call]
  BY DEF Becomes, Typed, TypeOK
<1>2. calls'[c] = call /\ \A d \in Calls \ {c} : calls'[d] = calls[d]
  BY <1>1
<1> QED BY <1>2 DEF Progress, SameCall

LEMMA AnswerGoesOn ==
    ASSUME Typed, NEW c \in Calls, calls[c].step \notin Over, NEW a, Answer(c, a),
           a # "ok" \/ calls[c].kind # "reset", calls[c].kind # "logout",
           sessions' \subseteq sessions, redeemed' = redeemed, mail \subseteq mail',
           begun' = begun
    PROVE  Progress(c)
<1> DEFINE new == Answered(calls[c], a)
<1>1. /\ new.id = calls[c].id /\ new.kind = calls[c].kind /\ new.step = "answered"
      /\ new.answer = a
  BY DEF Answered, NoCall
<1>2. Becomes(c, new)
  BY DEF Answer
<1> HIDE DEF new
<1>3. GoesOn(calls[c], new) /\ Tables(new)
  BY <1>1 DEF GoesOn, Tables, Early, Late
<1> QED BY <1>2, <1>3, OneCallGoesOn

LEMMA StepGoesOn ==
    ASSUME Typed, Kinded, NEW c \in Calls, Step(c)
    PROVE  Progress(c)
<1> DEFINE call == calls[c]
<1>0. /\ call \in Call /\ Carries(call, begun, DOMAIN users) /\ calls \in [Calls -> Call]
      /\ call.step \notin Over => Fits(call.kind, call.step)
  BY DEF Typed, TypeOK, Kinded
<1>1. CASE Authenticate(c)
  <2>1. PICK u \in WithEmail(call.email) :
          Becomes(c, [call EXCEPT !.found = u, !.proof = users[u].resets,
                        !.step = IF users[u].old THEN "rehash" ELSE AfterAuthenticate(c)])
    BY <1>1 DEF Authenticate
  <2> DEFINE new == [call EXCEPT !.found = u, !.proof = users[u].resets,
                       !.step = IF users[u].old THEN "rehash" ELSE AfterAuthenticate(c)]
  <2>2. /\ new.id = call.id /\ new.kind = call.kind /\ new.token = call.token
        /\ new.step \in {"rehash", AfterAuthenticate(c)} /\ call.step = "authFind"
    BY <1>0, <1>1 DEF Call, Authenticate, At
  <2>3. Becomes(c, new) /\ UNCHANGED <<sessions, redeemed, mail, begun>>
    BY <1>1, <2>1 DEF Authenticate
  <2> HIDE DEF new
  <2>4. GoesOn(call, new) /\ Tables(new)
    BY <1>0, <2>2, <2>3 DEF GoesOn, Tables, AfterAuthenticate, Fits, Over, Early, Late
  <2> QED BY <2>3, <2>4, OneCallGoesOn
<1>2. CASE Rehash(c)
  <2> DEFINE new == [call EXCEPT !.step = AfterAuthenticate(c)]
  <2>1. /\ new.id = call.id /\ new.kind = call.kind /\ new.token = call.token
        /\ new.step = AfterAuthenticate(c) /\ call.step = "rehash"
    BY <1>0, <1>2 DEF Call, Rehash, At
  <2>2. Becomes(c, new) /\ UNCHANGED <<sessions, redeemed, mail, begun>>
    BY <1>2 DEF Rehash, GoTo
  <2> HIDE DEF new
  <2>3. GoesOn(call, new) /\ Tables(new)
    BY <1>0, <2>1, <2>2 DEF GoesOn, Tables, AfterAuthenticate, Fits, Over, Early, Late
  <2> QED BY <2>2, <2>3, OneCallGoesOn
<1>3. CASE CreateUser(c)
  <2> DEFINE new == [call EXCEPT !.found = Len(users) + 1, !.step = "create"]
  <2>1. /\ new.id = call.id /\ new.kind = call.kind /\ new.token = call.token
        /\ new.step = "create" /\ call.step = "signup"
    BY <1>0, <1>3 DEF Call, CreateUser, At
  <2>2. Becomes(c, new) /\ UNCHANGED <<sessions, redeemed, mail, begun>>
    BY <1>3 DEF CreateUser
  <2> HIDE DEF new
  <2>3. GoesOn(call, new) /\ Tables(new)
    BY <1>0, <2>1, <2>2 DEF GoesOn, Tables, Fits, Over, Early, Late, ResetSteps
  <2> QED BY <2>2, <2>3, OneCallGoesOn
<1>4. CASE CreateSession(c)
  <2> DEFINE row == [handle |-> call.id, user |-> call.found, proof |-> call.proof,
                     raced |-> call.raced]
             new == Answered(call, "ok")
  <2>1. /\ row.handle = call.id /\ call.step = "create" /\ new.id = call.id
        /\ new.kind = call.kind /\ new.step = "answered" /\ new.answer = "ok"
    BY <1>4 DEF CreateSession, At, Answered, NoCall
  <2>2. /\ Becomes(c, new) /\ UNCHANGED <<redeemed, mail, begun>>
        /\ sessions' = sessions \cup {row}
    BY <1>4 DEF CreateSession, Answer
  <2> HIDE DEF new, row
  <2>3. call.kind \in SignIns
    BY <1>0, <2>1 DEF Fits, Over, SignIns, ResetSteps
  <2>4. GoesOn(call, new)
    BY <2>1, <2>3 DEF GoesOn, Over, Early, Late, SignIns
  <2>5. Tables(new)
    BY <2>1, <2>2, <2>3 DEF Tables, Opens
  <2> QED BY <2>2, <2>4, <2>5, OneCallGoesOn
<1>5. CASE \/ RejectCredentials(c) \/ EmailTaken(c) \/ FindNobody(c) \/ SendMail(c)
           \/ FailToMail(c) \/ FindNoToken(c) \/ DeleteNoToken(c) \/ ChangePassword(c)
  <2>1. PICK a : /\ Answer(c, a)
                 /\ a # "ok" \/ call.kind # "reset"
                 /\ call.step \notin Over /\ call.kind # "logout"
                 /\ sessions' \subseteq sessions /\ redeemed' = redeemed
                 /\ begun' = begun /\ mail \subseteq mail'
    <3>1. \/ Answer(c, "credentials") \/ Answer(c, "taken") \/ Answer(c, "error")
          \/ Answer(c, "link")
          \/ Answer(c, "ok") /\ call.step \in {"forgotFind", "forgotMail", "changeUpdate"}
      BY <1>5
      DEF RejectCredentials, EmailTaken, FindNobody, SendMail, FailToMail, FindNoToken,
          DeleteNoToken, ChangePassword, At
    <3>2. call.step \notin Over \cup {"logout"}
      BY <1>5
      DEF RejectCredentials, EmailTaken, FindNobody, SendMail, FailToMail, FindNoToken,
          DeleteNoToken, ChangePassword, At, Over
    <3>3. UNCHANGED <<sessions, redeemed, begun>> /\ mail \subseteq mail'
      BY <1>5
      DEF RejectCredentials, EmailTaken, FindNobody, SendMail, FailToMail, FindNoToken,
          DeleteNoToken, ChangePassword
    <3>4. call.step \in {"forgotFind", "forgotMail", "changeUpdate"} => call.kind # "reset"
      BY <1>0 DEF Fits, Over, ResetSteps
    <3>5. call.kind # "logout"
      BY <1>0, <3>2 DEF Fits
    <3> QED BY <3>1, <3>2, <3>3, <3>4, <3>5
  <2> QED BY <2>1, AnswerGoesOn
<1>6. CASE Logout(c)
  <2> DEFINE new == Answered(call, "ok")
  <2>1. /\ call.step = "logout" /\ new.id = call.id
        /\ new.kind = call.kind /\ new.step = "answered" /\ new.answer = "ok"
    BY <1>6 DEF Logout, At, Answered, NoCall
  <2>2. /\ Becomes(c, new) /\ UNCHANGED <<redeemed, mail, begun>>
        /\ sessions' = {s \in sessions : s.handle # call.session}
    BY <1>6 DEF Logout, Answer
  <2> HIDE DEF new
  <2>3. GoesOn(call, new) /\ Tables(new)
    BY <1>0, <2>1, <2>2 DEF GoesOn, Tables, Fits, Over, Early, Late, ResetSteps
  <2> QED BY <2>2, <2>3, OneCallGoesOn
<1>7. CASE FindForgetful(c)
  <2>1. PICK u : Becomes(c, [call EXCEPT !.user = u, !.step = "forgotDelete"])
    BY <1>7 DEF FindForgetful
  <2> DEFINE new == [call EXCEPT !.user = u, !.step = "forgotDelete"]
  <2>2. /\ new.id = call.id /\ new.kind = call.kind
        /\ new.step = "forgotDelete" /\ call.step = "forgotFind"
    BY <1>0, <1>7 DEF Call, FindForgetful, At
  <2>3. Becomes(c, new) /\ UNCHANGED <<sessions, redeemed, mail, begun>>
    BY <1>7, <2>1 DEF FindForgetful
  <2> HIDE DEF new
  <2>4. GoesOn(call, new) /\ Tables(new)
    BY <1>0, <2>2, <2>3 DEF GoesOn, Tables, Fits, Over, Early, Late, ResetSteps
  <2> QED BY <2>3, <2>4, OneCallGoesOn
<1>8. CASE DeleteTokens(c) \/ CreateToken(c)
  <2>1. PICK step \in {"forgotCreate", "forgotMail"} : GoTo(c, step)
    BY <1>8 DEF DeleteTokens, CreateToken
  <2> DEFINE new == [call EXCEPT !.step = step]
  <2>2. /\ new.id = call.id /\ new.kind = call.kind /\ new.step = step
        /\ call.step \in {"forgotDelete", "forgotCreate"}
    BY <1>0, <1>8 DEF Call, DeleteTokens, CreateToken, At
  <2>3. Becomes(c, new) /\ UNCHANGED <<sessions, redeemed, mail, begun>>
    BY <1>8, <2>1 DEF DeleteTokens, CreateToken, GoTo
  <2> HIDE DEF new
  <2>4. GoesOn(call, new) /\ Tables(new)
    BY <1>0, <2>2, <2>3 DEF GoesOn, Tables, Fits, Over, Early, Late, ResetSteps
  <2> QED BY <2>3, <2>4, OneCallGoesOn
<1>9. CASE FindToken(c)
  <2>1. PICK r : Becomes(c, [call EXCEPT !.user = r.user, !.step = "resetDelete"])
    BY <1>9 DEF FindToken
  <2> DEFINE new == [call EXCEPT !.user = r.user, !.step = "resetDelete"]
  <2>2. /\ new.id = call.id /\ new.kind = call.kind /\ new.token = call.token
        /\ new.step = "resetDelete" /\ call.step = "resetFind"
    BY <1>0, <1>9 DEF Call, FindToken, At
  <2>3. Becomes(c, new) /\ UNCHANGED <<sessions, redeemed, mail, begun>>
    BY <1>9, <2>1 DEF FindToken
  <2> HIDE DEF new
  <2>4. GoesOn(call, new) /\ Tables(new)
    BY <1>0, <2>2, <2>3 DEF GoesOn, Tables, Fits, Over, Early, Late, ResetSteps
  <2> QED BY <2>3, <2>4, OneCallGoesOn
<1>10. CASE DeleteToken(c)
  <2> DEFINE new == [call EXCEPT !.step = "resetUpdate"]
  <2>1. /\ new.id = call.id /\ new.kind = call.kind /\ new.token = call.token
        /\ new.step = "resetUpdate" /\ call.step = "resetDelete"
        /\ UNCHANGED <<sessions, redeemed, mail, begun>>
    BY <1>0, <1>10 DEF Call, DeleteToken, At
  <2>2. Answer(c, "link") \/ Answer(c, "credentials") \/ Becomes(c, new)
    BY <1>10 DEF DeleteToken, GoTo
  <2> HIDE DEF new
  <2>3. call.kind = "reset" /\ call.step \notin Over
    BY <1>0, <2>1 DEF Fits, Over, ResetSteps
  <2>4. GoesOn(call, new) /\ Tables(new)
    BY <2>1, <2>3 DEF GoesOn, Tables, Fits, Over, Early, Late, ResetSteps
  <2> QED BY <2>1, <2>2, <2>3, <2>4, OneCallGoesOn, AnswerGoesOn
<1>11. CASE ResetPassword(c)
  <2> DEFINE new == [call EXCEPT !.mark = users[call.user].writes + 1, !.step = "resetRevoke"]
  <2>1. /\ new.id = call.id /\ new.kind = call.kind /\ new.step = "resetRevoke"
        /\ call.step = "resetUpdate" /\ call.token \in redeemed'
        /\ redeemed \subseteq redeemed' /\ UNCHANGED <<sessions, mail, begun>>
    BY <1>0, <1>11 DEF Call, ResetPassword, At
  <2>2. Becomes(c, new)
    BY <1>11 DEF ResetPassword
  <2> HIDE DEF new
  <2>3. GoesOn(call, new) /\ Tables(new)
    BY <1>0, <2>1 DEF GoesOn, Tables, Fits, Over, Early, Late, ResetSteps
  <2> QED BY <2>2, <2>3, OneCallGoesOn
<1>12. CASE RevokeSessions(c)
  <2>1. /\ call.step = "resetRevoke" /\ sessions' \subseteq sessions
        /\ UNCHANGED <<redeemed, mail, begun>>
    BY <1>12 DEF RevokeSessions, At
  <2>2. /\ calls'[c].id = call.id /\ calls'[c].kind = call.kind
        /\ calls'[c].token = call.token /\ calls'[c].step = "authFind"
    BY <1>0, <1>12 DEF RevokeSessions, Call
  <2>3. \A d \in Calls \ {c} : SameCall(calls[d], calls'[d])
    BY <1>0, <1>12 DEF RevokeSessions, Call, SameCall
  <2>4. GoesOn(call, calls'[c]) /\ Tables(calls'[c])
    BY <1>0, <2>1, <2>2 DEF GoesOn, Tables, Fits, Over, Early, Late, ResetSteps
  <2> QED BY <2>3, <2>4 DEF Progress
<1> QED
  BY <1>1, <1>2, <1>3, <1>4, <1>5, <1>6, <1>7, <1>8, <1>9, <1>10, <1>11, <1>12 DEF Step

-----------------------------------------------------------------------------
(***************************************************************************)
(* The invariant.                                                          *)
(***************************************************************************)

Below == Typed /\ Linked /\ Kinded

Together ==
    /\ PagesTypeOK /\ Hearing /\ ResetsAreAlone /\ LinksAreBrought
    /\ HandlesAreAnswered /\ CookiesArePast /\ FormsAreForNobody /\ LogoutsEndTheirs
    /\ UnheardAreLost /\ HomeShows /\ OrphansAreStale

\* Another session has another name than the calls under way, but for the one that
\* has just opened it.
LEMMA OpenedByTheCall ==
    ASSUME Below, HandlesAreAnswered, NEW c \in Calls, calls[c].step \notin Over,
           NEW call, call.id = calls[c].id, Opens(call)
    PROVE  \E row : /\ row.handle = calls[c].id /\ sessions' = sessions \cup {row}
                   /\ calls[c].id \notin Handles /\ Handles' = Handles \cup {calls[c].id}
<1>1. PICK row : row.handle = calls[c].id /\ sessions' = sessions \cup {row}
  BY DEF Opens
<1>2. calls[c].id \notin Handles
  BY DEF HandlesAreAnswered, Handles, Over
<1>3. Handles' = Handles \cup {calls[c].id}
  BY <1>1 DEF Handles
<1> QED BY <1>1, <1>2, <1>3

LEMMA ServerKeeps ==
    ASSUME Below, Together, NEW c \in Calls, ServerStep(c)
    PROVE  Kinded' /\ Together'
<1>1. Progress(c)
  BY StepGoesOn DEF Below, ServerStep
<1>2. /\ jar' = jar /\ pages' = pages /\ sender' = sender /\ lost' = lost
      /\ replaced' = replaced
  BY DEF ServerStep, pageVars
<1>3. /\ GoesOn(calls[c], calls'[c]) /\ calls[c].step \notin Over /\ calls'[c].step # "idle"
      /\ calls'[c].id = calls[c].id /\ calls'[c].kind = calls[c].kind
  BY <1>1 DEF Progress, GoesOn
<1>4. \A d \in Calls \ {c} : SameCall(calls[d], calls'[d])
  BY <1>1 DEF Progress
<1>5. \A d \in Calls : /\ calls'[d].id = calls[d].id /\ calls'[d].kind = calls[d].kind
                       /\ (calls'[d].step = "idle") <=> (calls[d].step = "idle")
  BY <1>3, <1>4 DEF SameCall, Over
<1>6. /\ redeemed \subseteq redeemed' /\ begun' = begun /\ Mailed \subseteq Mailed'
      /\ sessions' \subseteq sessions \/ Opens(calls'[c])
  BY <1>1 DEF Progress, Tables, Mailed
<1>7. Handles' \subseteq Handles \cup {calls[c].id}
  BY <1>3, <1>6, OpenedByTheCall DEF Together, Handles
<1>8. Kinded'
  BY <1>3, <1>4 DEF Kinded, Below, GoesOn, SameCall, Over
<1>9. PagesTypeOK'
  BY <1>2 DEF Together, PagesTypeOK
<1>10. Hearing' /\ ResetsAreAlone'
  <2>1. Hearing'
    <3>1. \A t \in Tabs : pages[t].waiting # Nobody => pages[t].waiting \in Calls
      BY DEF Together, PagesTypeOK, Page
    <3> QED BY <1>2, <1>5, <3>1 DEF Together, Hearing
  <2>2. ResetsAreAlone'
    BY <1>2, <1>5 DEF Together, ResetsAreAlone
  <2> QED BY <2>1, <2>2
<1>11. LinksAreBrought'
  <2> SUFFICES ASSUME NEW t \in Tabs, pages[t].at = "reset"
               PROVE  /\ pages[t].link \in {0} \cup Mailed'
                      /\ pages[t].waiting # Nobody =>
                           Brings(calls'[pages[t].waiting], pages[t].link, redeemed')
                      /\ pages[t].success => pages[t].link \in redeemed'
    BY <1>2 DEF LinksAreBrought
  <2>1. /\ pages[t].link \in {0} \cup Mailed'
        /\ pages[t].success => pages[t].link \in redeemed'
    BY <1>6 DEF Together, LinksAreBrought
  <2>2. ASSUME pages[t].waiting # Nobody
        PROVE  Brings(calls'[pages[t].waiting], pages[t].link, redeemed')
    <3>0. PICK d : d = pages[t].waiting
      OBVIOUS
    <3>1. d \in Calls /\ calls[d].kind = "reset" /\ Brings(calls[d], pages[t].link, redeemed)
      BY <2>2, <3>0 DEF Together, PagesTypeOK, Page, Hearing, LinksAreBrought
    <3>2. ASSUME d = c PROVE Brings(calls'[d], pages[t].link, redeemed')
      BY <1>3, <1>6, <3>1, <3>2 DEF Brings, GoesOn, Fits, Early, Late, Over, ResetSteps
    <3>3. ASSUME d # c PROVE Brings(calls'[d], pages[t].link, redeemed')
      BY <1>4, <1>6, <3>1, <3>3 DEF Brings, SameCall
    <3> QED BY <3>0, <3>2, <3>3
  <2> QED BY <2>1, <2>2
<1>12. HandlesAreAnswered'
  <2>1. \A s \in sessions, d \in Calls : calls'[d].id = s.handle =>
          /\ calls'[d].step = "answered" /\ calls'[d].answer = "ok"
          /\ calls'[d].kind \in SignIns
    BY <1>3, <1>4, <1>5 DEF Together, HandlesAreAnswered, SameCall, Over
  <2>2. CASE sessions' \subseteq sessions
    BY <1>6, <2>1, <2>2 DEF Together, HandlesAreAnswered
  <2>3. CASE Opens(calls'[c])
    <3>1. PICK row : /\ row.handle = calls[c].id /\ sessions' = sessions \cup {row}
                     /\ calls[c].id \notin Handles
      BY <1>3, <2>3, OpenedByTheCall DEF Together
    <3>2. \A d \in Calls : calls[d].id = calls[c].id => d = c
      BY <1>3 DEF Below, Typed, Carries, Kinded, Linked, NamesAreFresh, At, Over
    <3>3. /\ calls'[c].step = "answered" /\ calls'[c].answer = "ok"
          /\ calls'[c].kind \in SignIns
      BY <2>3 DEF Opens
    <3>4. \A s \in sessions : s.handle # row.handle
      BY <3>1 DEF Handles
    <3>5. row.handle \in 1..begun
      BY <1>3, <3>1 DEF Below, Typed, Carries, Over
    <3>6. \A s \in sessions' : s.handle \in 1..begun'
      BY <1>6, <3>1, <3>5 DEF Together, HandlesAreAnswered
    <3> QED
      BY <1>5, <2>1, <3>1, <3>2, <3>3, <3>4, <3>6 DEF Together, HandlesAreAnswered
  <2> QED BY <1>6, <2>2, <2>3
<1>13. ASSUME NEW h, Past(h) PROVE Past(h)' /\ (h \notin Handles => h \notin Handles')
  <2>1. h # calls[c].id
    BY <1>3, <1>13 DEF Past, Over
  <2> QED BY <1>5, <1>6, <1>7, <1>13, <2>1 DEF Past
<1>14. CookiesArePast'
  BY <1>2, <1>13 DEF Together, CookiesArePast
<1>15. FormsAreForNobody'
  BY <1>2, <1>5, <1>13 DEF Together, CookiesArePast, FormsAreForNobody
<1>16. LogoutsEndTheirs'
  <2> SUFFICES ASSUME NEW d \in Calls, sender[d].tab # Nobody, calls[d].kind = "logout",
                      jar[BrowserOf[sender[d].tab]] = sender[d].base, sender[d].base # 0
               PROVE  \/ calls'[d].step = "logout" /\ calls'[d].session = sender[d].base
                      \/ calls'[d].step = "answered" /\ sender[d].base \notin Handles'
    BY <1>2, <1>5 DEF LogoutsEndTheirs
  <2>1. \/ calls[d].step = "logout" /\ calls[d].session = sender[d].base
        \/ calls[d].step = "answered" /\ sender[d].base \notin Handles
    BY DEF Together, LogoutsEndTheirs
  <2>2. CASE d = c
    BY <1>3, <2>1, <2>2 DEF GoesOn, Over, Handles
  <2>3. CASE d # c
    BY <1>4, <1>13, <2>1, <2>3 DEF SameCall, Together, CookiesArePast
  <2> QED BY <2>2, <2>3
<1>17. UnheardAreLost'
  BY <1>2, <1>5 DEF Together, UnheardAreLost
<1>18. HomeShows'
  <2> SUFFICES ASSUME NEW t \in Tabs, pages[t].at = "home", pages[t].moving = "none",
                      NEW s \in sessions', s.handle = pages[t].seen
               PROVE  s.user = pages[t].shown
    BY <1>2 DEF Together, HomeShows
  <2>1. s.handle # calls[c].id
    BY <1>3 DEF Together, CookiesArePast, Past, Over
  <2>2. s \in sessions
    BY <1>3, <1>6, <2>1, OpenedByTheCall DEF Together
  <2> QED BY <2>2 DEF Together, HomeShows
<1>19. OrphansAreStale'
  <2> SUFFICES ASSUME NEW h \in Handles'
               PROVE  \/ \E b \in Browsers : jar[b] = h
                      \/ \E d \in Calls : calls[d].id = h /\ sender[d].tab # Nobody
                      \/ h \in lost \cup replaced
    BY <1>2, <1>5 DEF OrphansAreStale
  <2>1. CASE h \in Handles
    BY <2>1 DEF Together, OrphansAreStale
  <2>2. CASE h \notin Handles
    <3>1. h = calls[c].id
      BY <1>7, <2>2
    <3>2. ~(sessions' \subseteq sessions)
      BY <2>2 DEF Handles
    <3>3. calls[c].kind \in SignIns
      BY <1>3, <1>6, <3>2 DEF Opens
    <3> QED BY <1>3, <3>1, <3>3 DEF Together, UnheardAreLost, Over
  <2> QED BY <2>1, <2>2
<1> QED BY <1>8, <1>9, <1>10, <1>11, <1>12, <1>14, <1>15, <1>16, <1>17, <1>18, <1>19
        DEF Together

LEMMA EndedKeeps ==
    ASSUME Below, Together, NEW c \in Calls, DropAnswer(c)
    PROVE  Kinded' /\ Together'
<1>1. /\ jar' = jar /\ pages' = pages /\ sender' = sender /\ lost' = lost
      /\ replaced' = replaced /\ sender[c].tab = Nobody
      /\ begun' = begun /\ sessions' = sessions /\ redeemed' = redeemed /\ mail' = mail
      /\ calls' = [calls EXCEPT ![c] = NoCall] /\ calls \in [Calls -> Call]
  BY DEF DropAnswer, pageVars, Return, Becomes, Below, Typed, TypeOK
<1>2. /\ \A d \in Calls \ {c} : calls'[d] = calls[d]
      /\ calls'[c].id = 0 /\ calls'[c].step = "idle"
  BY <1>1 DEF NoCall
<1>3. Kinded'
  BY <1>2 DEF Below, Kinded, Over
<1>4. PagesTypeOK'
  BY <1>1 DEF Together, PagesTypeOK
<1>5. \A t \in Tabs : pages[t].waiting # Nobody => pages[t].waiting \in Calls \ {c}
  BY <1>1, PagesAssumption DEF Together, PagesTypeOK, Page
<1>6. Hearing' /\ ResetsAreAlone'
  <2>1. Hearing'
    BY <1>1, <1>2, <1>5 DEF Together, Hearing
  <2>2. ResetsAreAlone'
    BY <1>1, <1>2 DEF Together, ResetsAreAlone
  <2> QED BY <2>1, <2>2
<1>7. LinksAreBrought'
  BY <1>1, <1>2, <1>5 DEF Together, LinksAreBrought, Mailed
<1>8. HandlesAreAnswered'
  BY <1>1, <1>2 DEF Together, HandlesAreAnswered
<1>9. Handles' = Handles /\ \A h : Past(h) => Past(h)'
  BY <1>1, <1>2 DEF Handles, Past
<1>10. CookiesArePast'
  BY <1>1, <1>9 DEF Together, CookiesArePast
<1>11. FormsAreForNobody' /\ LogoutsEndTheirs' /\ UnheardAreLost'
  BY <1>1, <1>2, <1>9
  DEF Together, FormsAreForNobody, LogoutsEndTheirs, UnheardAreLost
<1>12. HomeShows'
  BY <1>1 DEF Together, HomeShows
<1>13. OrphansAreStale'
  BY <1>1, <1>2, <1>9 DEF Together, OrphansAreStale
<1> QED BY <1>3, <1>4, <1>6, <1>7, <1>8, <1>10, <1>11, <1>12, <1>13 DEF Together

\* Time passes, or nothing happens.
LEMMA TimeKeeps ==
    ASSUME Below, Together, UNCHANGED pageVars,
           UNCHANGED <<sessions, mail, calls, begun, redeemed>>
    PROVE  Kinded' /\ Together'
<1>1. Handles' = Handles /\ Mailed' = Mailed
  BY DEF Handles, Mailed
<1>2. \A h : Past(h) => Past(h)'
  BY DEF Past
<1>3. Kinded' /\ PagesTypeOK' /\ Hearing' /\ ResetsAreAlone'
  BY DEF Below, Together, Kinded, PagesTypeOK, Hearing, ResetsAreAlone, pageVars
<1>4. LinksAreBrought' /\ HandlesAreAnswered' /\ FormsAreForNobody' /\ LogoutsEndTheirs'
  BY <1>1 DEF Together, LinksAreBrought, HandlesAreAnswered, FormsAreForNobody,
              LogoutsEndTheirs, pageVars
<1>5. CookiesArePast' /\ UnheardAreLost' /\ HomeShows' /\ OrphansAreStale'
  BY <1>1, <1>2 DEF Together, CookiesArePast, UnheardAreLost, HomeShows, OrphansAreStale,
                    pageVars
<1> QED BY <1>3, <1>4, <1>5 DEF Together

-----------------------------------------------------------------------------
(***************************************************************************)
(* A tab shows another page, or its page something else.                   *)
(***************************************************************************)

\* Some of the calls that tab t hears are not heard any more.
Quieter(t) ==
    /\ sender' \in [Calls -> [tab : Tabs \cup {Nobody}, base : 0..MaxCalls]]
    /\ lost \subseteq lost' /\ lost' \subseteq Ids
    /\ \A c \in Calls :
         /\ sender'[c].base = sender[c].base
         /\ \/ sender'[c].tab = sender[c].tab
            \/ /\ sender[c].tab = t /\ sender'[c].tab = Nobody
               /\ calls[c].kind \in SignIns => calls[c].id \in lost'

LEMMA AbandonedAreQuiet ==
    ASSUME Below, Together, NEW t \in Tabs, NEW cs, cs \subseteq Heard(t), Abandon(cs)
    PROVE  Quieter(t) /\ \A c \in cs : sender'[c].tab = Nobody
<1>1. \A c \in cs : c \in Calls /\ sender[c].tab = t
  BY DEF Heard
<1>2. sender \in [Calls -> [tab : Tabs \cup {Nobody}, base : 0..MaxCalls]]
  BY DEF Together, PagesTypeOK
<1>3. \A c \in cs : calls[c].id \in Ids
  <2> SUFFICES ASSUME NEW c \in cs PROVE calls[c].id \in Ids
    OBVIOUS
  <2>1. calls[c].step # "idle"
    BY <1>1, PagesAssumption DEF Together, Hearing
  <2>2. calls[c].id \in 1..begun /\ begun \in 0..MaxCalls
    BY <1>1, <2>1 DEF Below, Typed, TypeOK, Carries
  <2> QED BY <2>2, AuthAssumption DEF Ids
<1>4. lost' = lost \cup {calls[c].id : c \in {c \in cs : calls[c].kind \in SignIns}}
  BY DEF Abandon
<1>5. lost \subseteq lost' /\ lost' \subseteq Ids
  BY <1>3, <1>4 DEF Together, PagesTypeOK
<1>6. \A c \in cs : calls[c].kind \in SignIns => calls[c].id \in lost'
  BY <1>4
<1>7. \A c \in Calls :
        sender'[c] = IF c \in cs THEN [sender[c] EXCEPT !.tab = Nobody] ELSE sender[c]
  BY DEF Abandon
<1>8. \A c \in Calls :
        /\ sender'[c].base = sender[c].base
        /\ sender'[c].tab = IF c \in cs THEN Nobody ELSE sender[c].tab
  BY <1>2, <1>7
<1>9. sender' \in [Calls -> [tab : Tabs \cup {Nobody}, base : 0..MaxCalls]]
  <2>1. \A c \in Calls :
          [sender[c] EXCEPT !.tab = Nobody] \in [tab : Tabs \cup {Nobody}, base : 0..MaxCalls]
    BY <1>2
  <2> QED BY <1>2, <2>1 DEF Abandon
<1> QED BY <1>1, <1>5, <1>6, <1>8, <1>9 DEF Quieter

\* A page that tab t may show, when it hears the calls in heard.
Showable(page, heard) ==
    /\ page \in Page /\ Past(page.base) /\ Past(page.seen)
    /\ page.waiting # Nobody => page.waiting \in heard /\ calls[page.waiting].kind = page.at
    /\ page.success => page.at \in {"forgot", "reset"} /\ page.waiting = Nobody
    /\ page.taken => page.at = "signup"
    /\ page.alert = "credentials" => page.at = "login"
    /\ page.at = "home" => page.alert = "none" /\ page.waiting = Nobody
    /\ page.at # "home" => page.base \notin Handles
    /\ page.at = "reset" =>
         /\ page.moving = "none" /\ heard \subseteq {page.waiting}
         /\ page.link \in {0} \cup Mailed
         /\ page.waiting # Nobody => Brings(calls[page.waiting], page.link, redeemed)
         /\ page.success => page.link \in redeemed
    /\ page.at # "reset" => \A c \in heard : calls[c].kind # "reset"
    /\ page.at = "home" /\ page.moving = "none" =>
         /\ page.seen = 0 => page.shown = 0
         /\ \A s \in sessions : s.handle = page.seen => s.user = page.shown

LEMMA TabKeeps ==
    ASSUME Below, Together, UNCHANGED <<vars, jar, replaced>>, NEW t \in Tabs, NEW page,
           pages' = [pages EXCEPT ![t] = page], Quieter(t),
           Showable(page, {c \in Calls : sender'[c].tab = t})
    PROVE  Kinded' /\ Together'
<1>1. /\ jar' = jar /\ replaced' = replaced /\ calls' = calls /\ sessions' = sessions
      /\ begun' = begun /\ mail' = mail /\ redeemed' = redeemed
      /\ pages \in [Tabs -> Page]
      /\ Mailed' = Mailed /\ Handles' = Handles /\ Kinded'
  BY DEF vars, Together, PagesTypeOK, Mailed, Handles, Below, Kinded
<1>2. /\ pages'[t] = page /\ \A u \in Tabs \ {t} : pages'[u] = pages[u]
      /\ pages' \in [Tabs -> Page] /\ Nobody \notin Tabs
  BY <1>1, PagesAssumption DEF Showable
<1>3. \A c \in Calls, u \in Tabs : sender'[c].tab = u => sender[c].tab = u
  BY <1>2 DEF Quieter
<1>4. \A c \in Calls, u \in Tabs \ {t} : sender[c].tab = u => sender'[c].tab = u
  BY <1>2 DEF Quieter
<1>5. \A u \in Tabs \ {t} : pages[u].waiting # Nobody => pages[u].waiting \in Calls
  BY DEF Together, PagesTypeOK, Page
<1>6. page.waiting # Nobody => page.waiting \in Calls /\ sender'[page.waiting].tab = t
  BY DEF Showable
<1>7. \A h : Past(h) => Past(h)'
  BY <1>1 DEF Past
<1>8. PagesTypeOK'
  <2>1. \A u \in Tabs :
          /\ pages'[u].waiting # Nobody => sender'[pages'[u].waiting].tab = u
          /\ pages'[u].success => pages'[u].at \in {"forgot", "reset"}
          /\ pages'[u].taken => pages'[u].at = "signup"
          /\ pages'[u].alert = "credentials" => pages'[u].at = "login"
          /\ pages'[u].at = "home" => pages'[u].alert = "none" /\ pages'[u].waiting = Nobody
    BY <1>2, <1>4, <1>5, <1>6 DEF Together, PagesTypeOK, Showable
  <2> QED BY <1>1, <1>2, <2>1 DEF Together, PagesTypeOK, Quieter
<1>9. Hearing'
  BY <1>1, <1>2, <1>3, <1>6 DEF Together, Hearing, Quieter, Showable
<1>10. ResetsAreAlone'
  <2>1. \A u \in Tabs : pages'[u].at = "reset" =>
          /\ pages'[u].moving = "none"
          /\ \A c \in Calls : sender'[c].tab = u => pages'[u].waiting = c
    BY <1>2, <1>3 DEF Together, ResetsAreAlone, Showable
  <2>2. ASSUME NEW c \in Calls, sender'[c].tab # Nobody, calls[c].kind = "reset"
        PROVE  pages'[sender'[c].tab].at = "reset"
    <3>1. sender'[c].tab \in Tabs /\ sender'[c].tab = sender[c].tab
      BY <2>2 DEF Quieter
    <3> QED BY <1>2, <2>2, <3>1 DEF Together, ResetsAreAlone, Showable
  <2> QED BY <1>1, <2>1, <2>2 DEF ResetsAreAlone
<1>11. LinksAreBrought'
  BY <1>1, <1>2 DEF Together, LinksAreBrought, Showable
<1>12. HandlesAreAnswered'
  BY <1>1 DEF Together, HandlesAreAnswered
<1>13. CookiesArePast'
  BY <1>1, <1>2, <1>7 DEF Together, CookiesArePast, Showable, Quieter
<1>14. FormsAreForNobody' /\ LogoutsEndTheirs'
  BY <1>1, <1>2, <1>3 DEF Together, FormsAreForNobody, LogoutsEndTheirs, Showable, Quieter
<1>15. UnheardAreLost'
  BY <1>1 DEF Together, UnheardAreLost, Quieter
<1>16. HomeShows'
  BY <1>1, <1>2 DEF Together, HomeShows, Showable
<1>17. OrphansAreStale'
  <2> SUFFICES ASSUME NEW h \in Handles
               PROVE  \/ \E b \in Browsers : jar[b] = h
                      \/ \E d \in Calls : calls[d].id = h /\ sender'[d].tab # Nobody
                      \/ h \in lost' \cup replaced
    BY <1>1 DEF OrphansAreStale
  <2>1. ASSUME NEW d \in Calls, calls[d].id = h, sender[d].tab # Nobody,
               sender'[d].tab = Nobody
        PROVE  h \in lost'
    <3>1. calls[d].kind \in SignIns
      BY <2>1 DEF Together, HandlesAreAnswered, Handles
    <3> QED BY <2>1, <3>1 DEF Quieter
  <2> QED BY <2>1 DEF Together, OrphansAreStale, Quieter
<1> QED BY <1>1, <1>8, <1>9, <1>10, <1>11, <1>12, <1>13, <1>14, <1>15, <1>16, <1>17
        DEF Together

\* A page as the server renders it for cookie h.
New(page) ==
    /\ page \in Page /\ Past(page.base) /\ Past(page.seen)
    /\ page.waiting = Nobody /\ page.moving = "none" /\ ~page.success /\ ~page.taken
    /\ page.alert = "none" /\ page.link \in {0} \cup Mailed
    /\ page.at # "home" => page.base \notin Handles
    /\ page.at = "home" =>
         /\ page.seen = 0 => page.shown = 0
         /\ \A s \in sessions : s.handle = page.seen => s.user = page.shown

LEMMA RenderedIsNew ==
    ASSUME Below, HandlesAreAnswered, NEW h, Past(h), NEW at \in Forms \cup {"home"},
           NEW link \in {0} \cup Mailed, at # "home" => h \notin Handles
    PROVE  New(Rendered(at, link, h)) /\ Rendered(at, link, h).at = at
<1> DEFINE page == Rendered(at, link, h)
<1>1. h \in 0..MaxCalls /\ link \in 0..MaxCalls
  <2>1. begun \in 0..MaxCalls /\ Mailed \subseteq Ids
    BY DEF Below, Typed, TypeOK, Mailed
  <2> QED BY <2>1, AuthAssumption DEF Past, Ids
<1>2. LiveUser(h) \subseteq UserIds
  BY DEF LiveUser, Below, Typed, TypeOK, Session
<1>3. CurrentUser(h) \in {0} \cup UserIds
  BY <1>2 DEF CurrentUser
<1>4. \A s \in sessions : s.handle = h => s.user = CurrentUser(h)
  <2> SUFFICES ASSUME NEW s \in sessions, s.handle = h PROVE s.user = CurrentUser(h)
    OBVIOUS
  <2>1. s.user \in LiveUser(h)
    BY DEF LiveUser
  <2>2. \A u \in LiveUser(h) : u = s.user
    BY DEF LiveUser, HandlesAreAnswered
  <2>3. CurrentUser(h) \in LiveUser(h)
    BY <2>1 DEF CurrentUser
  <2> QED BY <2>2, <2>3
<1>5. h = 0 => CurrentUser(h) = 0
  <2> SUFFICES ASSUME h = 0 PROVE LiveUser(h) = {}
    BY DEF CurrentUser
  <2>1. \A s \in sessions : s.handle \in 1..begun
    BY DEF HandlesAreAnswered
  <2>2. 0 \notin 1..begun
    OBVIOUS
  <2> QED BY <2>1, <2>2 DEF LiveUser
<1>6. /\ page.at = at /\ page.link = link /\ page.base = h /\ page.seen = h
      /\ page.shown = (IF at = "home" THEN CurrentUser(h) ELSE 0)
      /\ page.waiting = Nobody /\ page.moving = "none" /\ page.success = FALSE
      /\ page.taken = FALSE /\ page.alert = "none"
  BY DEF Rendered
<1>7. page \in Page
  BY <1>1, <1>3 DEF Rendered, Page, Alerts, Ways
<1> HIDE DEF page
<1>8. New(page)
  BY <1>4, <1>5, <1>6, <1>7 DEF New
<1> QED BY <1>6, <1>8 DEF page

LEMMA AuthLayoutIsNew ==
    ASSUME Below, HandlesAreAnswered, NEW h, Past(h), NEW at \in Forms \cup {"home"},
           NEW link \in {0} \cup Mailed
    PROVE  New(AuthLayout(at, link, h)) /\ AuthLayout(at, link, h).at \in {at, "home"}
<1>1. CASE at # "home" /\ LiveUser(h) # {}
  BY <1>1, RenderedIsNew DEF AuthLayout, Forms
<1>2. CASE at = "home" \/ LiveUser(h) = {}
  <2>1. at # "home" => h \notin Handles
    BY <1>2 DEF LiveUser, Handles
  <2> QED BY <1>2, <2>1, RenderedIsNew DEF AuthLayout
<1> QED BY <1>1, <1>2

LEMMA NewKeeps ==
    ASSUME Below, Together, UNCHANGED <<vars, jar, replaced>>, NEW t \in Tabs, NEW page,
           New(page), pages' = [pages EXCEPT ![t] = page], Quieter(t),
           \A c \in Calls : sender'[c].tab = t => page.at # "reset" /\ calls[c].kind # "reset"
    PROVE  Kinded' /\ Together'
<1>1. Showable(page, {c \in Calls : sender'[c].tab = t})
  BY DEF Showable, New
<1> QED BY <1>1, TabKeeps

\* A call for a reset is heard by its own page, which waits for it.
LEMMA NoResetElsewhere ==
    ASSUME Together, NEW t \in Tabs, pages[t].at # "reset" \/ pages[t].waiting = Nobody,
           NEW c \in Calls, sender[c].tab = t
    PROVE  calls[c].kind # "reset"
BY PagesAssumption DEF Together, ResetsAreAlone

LEMMA LooksKeep ==
    ASSUME Below, Together, NEW t \in Tabs, Load(t) \/ Follow(t) \/ Arrive(t)
    PROVE  Kinded' /\ Together'
<1>0. /\ Past(Cookie(t)) /\ Past(pages[t].base) /\ HandlesAreAnswered
      /\ Visited[t] \subseteq Forms \cup {"home"}
      /\ pages[t] \in Page
  BY PagesAssumption DEF Together, CookiesArePast, Cookie, PagesTypeOK
<1>1. CASE Load(t)
  <2>1. PICK page : New(page) /\ pages' = [pages EXCEPT ![t] = page]
    <3>1. ASSUME NEW at \in Visited[t] \ {"reset"},
                 pages' = [pages EXCEPT ![t] = AuthLayout(at, 0, Cookie(t))]
          PROVE  \E page : New(page) /\ pages' = [pages EXCEPT ![t] = page]
      BY <1>0, <3>1, AuthLayoutIsNew
    <3>2. ASSUME NEW link \in {0} \cup Mailed,
                 pages' = [pages EXCEPT ![t] = AuthLayout("reset", link, Cookie(t))]
          PROVE  \E page : New(page) /\ pages' = [pages EXCEPT ![t] = page]
      <4>1. "reset" \in Forms \cup {"home"}
        BY DEF Forms
      <4> QED BY <1>0, <3>2, <4>1, AuthLayoutIsNew
    <3> QED BY <1>1, <3>1, <3>2 DEF Load
  <2>2. Abandon(Heard(t)) /\ UNCHANGED <<vars, jar, replaced>>
    BY <1>1 DEF Load
  <2>3. Quieter(t) /\ \A c \in Heard(t) : sender'[c].tab = Nobody
    BY <2>2, AbandonedAreQuiet
  <2>4. \A c \in Calls : sender'[c].tab # t
    BY <2>3, PagesAssumption DEF Quieter, Heard
  <2> QED BY <2>1, <2>2, <2>3, <2>4, NewKeeps
<1>2. ASSUME UNCHANGED <<vars, jar, sender, lost, replaced>>, NEW page, New(page),
             page.at # "reset", pages' = [pages EXCEPT ![t] = page],
             pages[t].at # "reset" \/ pages[t].waiting = Nobody
      PROVE  Kinded' /\ Together'
  <2>1. Quieter(t)
    BY <1>2 DEF Together, PagesTypeOK, Quieter
  <2>2. \A c \in Calls :
          sender'[c].tab = t => page.at # "reset" /\ calls[c].kind # "reset"
    BY <1>2, NoResetElsewhere
  <2> QED BY <1>2, <2>1, <2>2, NewKeeps
<1>3. CASE Follow(t)
  <2>1. PICK at \in Links(pages[t]) \cap Visited[t] :
          pages' = [pages EXCEPT ![t] =
            IF pages[t].at = "login" THEN Rendered(at, 0, pages[t].base)
            ELSE AuthLayout(at, 0, Cookie(t))]
    BY <1>0, <1>3 DEF Follow, Together, PagesTypeOK
  <2>2. /\ at \in Forms \cup {"home"} /\ at # "reset"
        /\ pages[t].at = "reset" => pages[t].success
    BY <1>0, <2>1 DEF Links, Page, Forms
  <2>3. pages[t].at # "reset" \/ pages[t].waiting = Nobody
    BY <2>2 DEF Together, Hearing
  <2>4. UNCHANGED <<vars, jar, sender, lost, replaced>>
    BY <1>3 DEF Follow
  <2>5. CASE pages[t].at = "login"
    <3>1. pages[t].base \notin Handles
      BY <2>5 DEF Together, FormsAreForNobody
    <3> QED BY <1>0, <1>2, <2>1, <2>2, <2>3, <2>4, <2>5, <3>1, RenderedIsNew
  <2>6. CASE pages[t].at # "login"
    <3>1. New(AuthLayout(at, 0, Cookie(t))) /\ AuthLayout(at, 0, Cookie(t)).at # "reset"
      BY <1>0, <2>2, AuthLayoutIsNew
    <3> QED BY <1>2, <2>1, <2>3, <2>4, <2>6, <3>1
  <2> QED BY <2>5, <2>6
<1>4. CASE Arrive(t)
  <2>1. UNCHANGED <<vars, jar, sender, lost, replaced>> /\ pages[t].at # "reset"
    BY <1>4 DEF Arrive, Together, ResetsAreAlone
  <2>2. CASE pages' = [pages EXCEPT ![t] = Rendered("home", 0, Cookie(t))]
    <3>1. New(Rendered("home", 0, Cookie(t))) /\ Rendered("home", 0, Cookie(t)).at = "home"
      BY <1>0, RenderedIsNew
    <3> QED BY <1>2, <2>1, <2>2, <3>1
  <2>3. CASE /\ pages' = [pages EXCEPT ![t] =
                   [pages[t] EXCEPT !.base = Cookie(t), !.moving = "none"]]
             /\ pages[t].at # "home" /\ LiveUser(Cookie(t)) = {}
    <3> DEFINE page == [pages[t] EXCEPT !.base = Cookie(t), !.moving = "none"]
               heard == {c \in Calls : sender'[c].tab = t}
    <3>1. /\ page \in Page /\ page.base = Cookie(t) /\ page.seen = pages[t].seen
          /\ page.at = pages[t].at /\ page.waiting = pages[t].waiting
          /\ page.success = pages[t].success /\ page.taken = pages[t].taken
          /\ page.alert = pages[t].alert
      <4>1. Cookie(t) \in 0..MaxCalls /\ "none" \in Ways
        BY PagesAssumption DEF Together, PagesTypeOK, Cookie, Ways
      <4> QED BY <1>0, <4>1 DEF Page
    <3> HIDE DEF page
    <3>2. Cookie(t) \notin Handles
      BY <2>3 DEF LiveUser, Handles
    <3>3. /\ page.waiting # Nobody =>
               page.waiting \in heard /\ calls[page.waiting].kind = page.at
          /\ page.success => page.at \in {"forgot", "reset"} /\ page.waiting = Nobody
          /\ page.taken => page.at = "signup"
          /\ page.alert = "credentials" => page.at = "login"
      <4>1. page.waiting # Nobody => page.waiting \in Calls
        BY <1>0, <3>1 DEF Page
      <4> QED BY <2>1, <3>1, <4>1 DEF Together, PagesTypeOK, Hearing
    <3>4. \A c \in heard : calls[c].kind # "reset"
      BY <2>1, NoResetElsewhere
    <3>5. Past(page.seen)
      BY <3>1 DEF Together, CookiesArePast
    <3>6. Showable(page, heard)
      BY <1>0, <2>1, <2>3, <3>1, <3>2, <3>3, <3>4, <3>5 DEF Showable
    <3>7. Quieter(t)
      BY <2>1 DEF Together, PagesTypeOK, Quieter
    <3>8. pages' = [pages EXCEPT ![t] = page]
      BY <2>3 DEF page
    <3> QED BY <2>1, <3>6, <3>7, <3>8, TabKeeps
  <2>4. pages' = [pages EXCEPT ![t] =
          IF pages[t].moving = "home" THEN Rendered("home", 0, Cookie(t))
          ELSE Refreshed(pages[t], Cookie(t))]
    BY <1>4 DEF Arrive, Together, PagesTypeOK
  <2> QED BY <2>2, <2>3, <2>4 DEF Refreshed
<1> QED BY <1>1, <1>3, <1>4

-----------------------------------------------------------------------------
(***************************************************************************)
(* Answers, and what a tab takes for one.                                  *)
(***************************************************************************)

LEMMA SettledPage ==
    ASSUME NEW page \in Page, NEW kind, NEW answer, NEW form,
           form = Settled(page, kind, answer)
    PROVE  /\ form \in Page /\ form.at = page.at /\ form.link = page.link
           /\ form.shown = page.shown /\ form.base = page.base /\ form.seen = page.seen
           /\ form.moving = page.moving /\ form.waiting = Nobody
           /\ form.success => answer = "ok" /\ kind \in {"forgot", "reset"}
           /\ form.taken => kind = "signup"
           /\ form.alert = "credentials" => kind = "login" \/ page.alert = "credentials"
<1>1. AlertOf(kind, answer) \in Alerts /\ (AlertOf(kind, answer) = "credentials" => kind = "login")
  BY DEF AlertOf, Alerts, LoginAlert, SignupAlert, ForgotAlert, ResetAlert
<1>2. Succeeds(kind, answer) \in BOOLEAN
  BY DEF Succeeds
<1>3. PICK success : success = Succeeds(kind, answer)
  OBVIOUS
<1>4. PICK alert : alert = AlertOf(kind, answer)
  OBVIOUS
<1>5. PICK taken \in BOOLEAN : taken = (kind = "signup" /\ answer = "taken")
  OBVIOUS
<1>6. form = [page EXCEPT !.waiting = Nobody, !.success = success, !.taken = taken,
                          !.alert = IF alert = "none" THEN page.alert ELSE alert]
  BY <1>3, <1>4, <1>5 DEF Settled, Page
<1>7. /\ form \in Page /\ form.at = page.at /\ form.link = page.link
      /\ form.shown = page.shown /\ form.base = page.base /\ form.seen = page.seen
      /\ form.moving = page.moving /\ form.waiting = Nobody
      /\ form.success = success /\ form.taken = taken
      /\ form.alert \in {page.alert, alert}
  BY <1>1, <1>2, <1>3, <1>4, <1>6 DEF Page
<1> QED BY <1>1, <1>3, <1>4, <1>5, <1>7 DEF Succeeds

LEMMA LostConnectionKeeps ==
    ASSUME Below, Together, NEW t \in Tabs, NEW c \in Calls, LoseConnection(t, c)
    PROVE  Kinded' /\ Together'
<1>1. UNCHANGED <<vars, jar, replaced>> /\ sender[c].tab = t /\ Abandon({c})
  BY DEF LoseConnection
<1>2. pages[t] \in Page /\ pages \in [Tabs -> Page]
  BY DEF Together, PagesTypeOK
<1>3. Quieter(t) /\ sender'[c].tab = Nobody
  BY <1>1, AbandonedAreQuiet DEF Heard
<1> DEFINE heard == {d \in Calls : sender'[d].tab = t}
<1>4. heard \subseteq {d \in Calls : sender[d].tab = t} \ {c}
  BY <1>3, PagesAssumption DEF Quieter
<1>5. \A d \in Calls \ {c} : sender[d].tab = t => d \in heard
  <2>1. \A d \in Calls \ {c} : sender'[d].tab = sender[d].tab
    BY <1>1, <1>2 DEF Abandon
  <2> QED BY <2>1
<1>6. PICK page : page = IF pages[t].waiting = c
                         THEN Settled(pages[t], calls[c].kind, "error") ELSE pages[t]
  OBVIOUS
<1>7. pages' = [pages EXCEPT ![t] = page]
  BY <1>2, <1>6 DEF LoseConnection
<1>8. pages[t].at # "reset" => \A d \in heard : calls[d].kind # "reset"
  BY <1>4, NoResetElsewhere
<1>9. pages[t].at = "reset" => heard = {} /\ pages[t].waiting = c
  BY <1>1, <1>4 DEF Together, ResetsAreAlone
<1> HIDE DEF heard
<1>10. CASE pages[t].waiting = c
  <2>1. /\ page \in Page /\ page.at = pages[t].at /\ page.link = pages[t].link
        /\ page.base = pages[t].base /\ page.seen = pages[t].seen
        /\ page.moving = pages[t].moving /\ page.waiting = Nobody
        /\ ~page.success /\ (page.taken => calls[c].kind = "signup")
        /\ page.alert = "credentials" => calls[c].kind = "login" \/ pages[t].alert = "credentials"
    BY <1>2, <1>6, <1>10, SettledPage
  <2>2. calls[c].kind = pages[t].at /\ c # Nobody
    BY <1>10, PagesAssumption DEF Together, Hearing
  <2>3. pages[t].at # "home"
    BY <1>10, <2>2 DEF Together, PagesTypeOK
  <2>4. /\ Past(page.base) /\ Past(page.seen) /\ page.base \notin Handles
        /\ page.taken => page.at = "signup"
        /\ page.alert = "credentials" => page.at = "login"
    BY <2>1, <2>2, <2>3 DEF Together, CookiesArePast, FormsAreForNobody, PagesTypeOK
  <2>5. page.at = "reset" => /\ page.moving = "none" /\ heard \subseteq {page.waiting}
                            /\ page.link \in {0} \cup Mailed
    BY <1>9, <2>1 DEF Together, ResetsAreAlone, LinksAreBrought
  <2>6. Showable(page, heard)
    BY <1>8, <2>1, <2>3, <2>4, <2>5 DEF Showable
  <2> QED BY <1>1, <1>3, <1>7, <2>6, TabKeeps DEF heard
<1>11. CASE pages[t].waiting # c
  <2>1. page = pages[t] /\ page.at # "reset"
    BY <1>6, <1>9, <1>11
  <2>2. page.waiting # Nobody => page.waiting \in heard /\ calls[page.waiting].kind = page.at
    <3>1. page.waiting # Nobody => page.waiting \in Calls /\ sender[page.waiting].tab = t
      BY <1>2, <2>1 DEF Together, PagesTypeOK, Page
    <3> QED BY <1>5, <1>11, <2>1, <3>1 DEF Together, Hearing
  <2>3. Showable(page, heard)
    BY <1>2, <1>8, <2>1, <2>2
    DEF Showable, Together, PagesTypeOK, Hearing, CookiesArePast, FormsAreForNobody, HomeShows
  <2> QED BY <1>1, <1>3, <1>7, <2>3, TabKeeps DEF heard
<1> QED BY <1>10, <1>11

-----------------------------------------------------------------------------
(***************************************************************************)
(* A call begins.                                                          *)
(***************************************************************************)

\* What a form begins with, and what the logout button does.
FormBegins(t, c, call) ==
    /\ pages[t].at = call.kind /\ call.kind \in Forms
    /\ pages[t].waiting = Nobody /\ ~pages[t].success
    /\ pages' = [pages EXCEPT ![t].waiting = c, ![t].taken = FALSE]
    /\ call.kind = "reset" => Brings(call, pages[t].link, redeemed)

ButtonBegins(t, call) ==
    /\ pages[t].at = "home" /\ pages' = pages
    /\ call.kind = "logout" /\ call.step = "logout" /\ call.session = Cookie(t)

LEMMA BeginKeeps ==
    ASSUME Below, Together, NEW t \in Tabs, NEW c \in Calls, NEW call, Start(c, call),
           call.id = begun + 1, call.step # "idle",
           call.step \notin Over => Fits(call.kind, call.step),
           sender' = [sender EXCEPT ![c] = [tab |-> t, base |-> pages[t].base]],
           UNCHANGED <<jar, lost, replaced>>,
           FormBegins(t, c, call) \/ ButtonBegins(t, call)
    PROVE  Kinded' /\ Together'
<1>1. /\ jar' = jar /\ lost' = lost /\ replaced' = replaced /\ sessions' = sessions
      /\ redeemed' = redeemed /\ Mailed' = Mailed /\ Handles' = Handles
      /\ calls[c].step = "idle" /\ begun' = begun + 1 /\ begun \in Nat
  BY AuthAssumption DEF Start, Mailed, Handles, Below, Typed, TypeOK
<1>2. calls' = [calls EXCEPT ![c] = call] /\ calls \in [Calls -> Call]
  BY DEF Start, Below, Typed, TypeOK
<1>3. calls'[c] = call /\ \A d \in Calls \ {c} : calls'[d] = calls[d]
  BY <1>2
<1>4. sender \in [Calls -> [tab : Tabs \cup {Nobody}, base : 0..MaxCalls]]
  BY DEF Together, PagesTypeOK
<1>5. /\ sender'[c].tab = t /\ sender'[c].base = pages[t].base
      /\ \A d \in Calls \ {c} : sender'[d] = sender[d]
  BY <1>4
<1>6. sender[c].tab = Nobody /\ Nobody \notin Tabs /\ Nobody \notin Calls
  BY <1>1, PagesAssumption DEF Together, Hearing
<1>7. \A u \in Tabs : /\ pages[u] \in Page
                      /\ pages[u].waiting # Nobody => pages[u].waiting \in Calls \ {c}
  BY <1>6 DEF Together, PagesTypeOK, Page
<1>8. /\ pages' \in [Tabs -> Page] /\ \A u \in Tabs \ {t} : pages'[u] = pages[u]
      /\ \A u \in Tabs :
           /\ pages'[u].at = pages[u].at /\ pages'[u].link = pages[u].link
           /\ pages'[u].base = pages[u].base /\ pages'[u].seen = pages[u].seen
           /\ pages'[u].shown = pages[u].shown /\ pages'[u].moving = pages[u].moving
           /\ pages'[u].success = pages[u].success /\ pages'[u].alert = pages[u].alert
           /\ pages'[u].taken => pages[u].taken
  <2>1. pages \in [Tabs -> Page]
    BY DEF Together, PagesTypeOK
  <2>2. CASE FormBegins(t, c, call)
    <3>1. pages' = [pages EXCEPT ![t] = [pages[t] EXCEPT !.waiting = c, !.taken = FALSE]]
      BY <2>1, <2>2 DEF FormBegins, Page
    <3>2. [pages[t] EXCEPT !.waiting = c, !.taken = FALSE] \in Page
      BY <1>7 DEF Page
    <3> QED BY <2>1, <3>1, <3>2 DEF Page
  <2>3. CASE ButtonBegins(t, call)
    BY <2>1, <2>3 DEF ButtonBegins
  <2> QED BY <2>2, <2>3
<1>9. \/ /\ pages'[t].waiting = c /\ pages[t].waiting = Nobody /\ ~pages[t].success
         /\ pages[t].at = call.kind /\ call.kind \in Forms
         /\ call.kind = "reset" => Brings(call, pages[t].link, redeemed)
      \/ /\ pages'[t].waiting = pages[t].waiting /\ pages[t].at = "home"
         /\ call.kind = "logout" /\ call.step = "logout" /\ call.session = Cookie(t)
  BY <1>7 DEF FormBegins, ButtonBegins, Together, PagesTypeOK, Page
<1>10. call.kind # "logout" => pages[t].at = call.kind /\ pages[t].at # "home"
  BY <1>9 DEF Forms
<1>11. Kinded'
  BY <1>3 DEF Below, Kinded
<1>12. PagesTypeOK'
  <2>1. sender' \in [Calls -> [tab : Tabs \cup {Nobody}, base : 0..MaxCalls]]
    BY <1>4, <1>7 DEF Page
  <2>2. \A u \in Tabs : pages'[u].waiting # Nobody => sender'[pages'[u].waiting].tab = u
    BY <1>5, <1>7, <1>8, <1>9 DEF Together, PagesTypeOK
  <2>3. \A u \in Tabs : pages'[u].at = "home" => pages'[u].waiting = Nobody
    BY <1>8, <1>9 DEF Together, PagesTypeOK, Forms
  <2> QED BY <1>1, <1>8, <2>1, <2>2, <2>3 DEF Together, PagesTypeOK
<1>13. Hearing'
  BY <1>3, <1>5, <1>7, <1>8, <1>9 DEF Together, Hearing
<1>14. ResetsAreAlone'
  <2>1. \A d \in Calls : sender[d].tab = t /\ pages[t].at = "reset" => pages[t].waiting = d
    BY DEF Together, ResetsAreAlone
  <2>2. \A u \in Tabs : pages'[u].at = "reset" =>
          /\ pages'[u].moving = "none"
          /\ \A d \in Calls : sender'[d].tab = u => pages'[u].waiting = d
    BY <1>5, <1>6, <1>8, <1>9, <2>1 DEF Together, ResetsAreAlone
  <2>3. ASSUME NEW d \in Calls, sender'[d].tab # Nobody, calls'[d].kind = "reset"
        PROVE  pages'[sender'[d].tab].at = "reset"
    <3>1. sender'[d].tab \in Tabs
      BY <1>4, <1>5, <2>3
    <3> QED BY <1>3, <1>5, <1>8, <1>10, <2>3, <3>1 DEF Together, ResetsAreAlone
  <2> QED BY <2>2, <2>3 DEF ResetsAreAlone
<1>15. LinksAreBrought'
  BY <1>1, <1>3, <1>7, <1>8, <1>9 DEF Together, LinksAreBrought
<1>16. HandlesAreAnswered'
  <2>1. \A s \in sessions : s.handle \in 1..begun' /\ s.handle # call.id
    BY <1>1 DEF Together, HandlesAreAnswered
  <2> QED BY <1>1, <1>3, <2>1 DEF Together, HandlesAreAnswered
<1>17. ASSUME NEW h, Past(h) PROVE Past(h)'
  BY <1>1, <1>3, <1>17 DEF Past
<1>18. CookiesArePast'
  BY <1>1, <1>5, <1>8, <1>17 DEF Together, CookiesArePast
<1>19. FormsAreForNobody'
  BY <1>1, <1>3, <1>5, <1>8, <1>10 DEF Together, FormsAreForNobody
<1>20. LogoutsEndTheirs'
  <2>1. call.kind = "logout" => call.step = "logout" /\ call.session = Cookie(t)
    BY <1>9 DEF Forms
  <2> QED BY <1>1, <1>3, <1>5, <2>1 DEF Together, LogoutsEndTheirs, Cookie
<1>21. UnheardAreLost'
  BY <1>1, <1>3, <1>5, <1>6 DEF Together, UnheardAreLost
<1>22. HomeShows'
  BY <1>1, <1>8 DEF Together, HomeShows
<1>23. OrphansAreStale'
  BY <1>1, <1>3, <1>5, <1>6 DEF Together, OrphansAreStale
<1> QED BY <1>11, <1>12, <1>13, <1>14, <1>15, <1>16, <1>18, <1>19, <1>20, <1>21, <1>22, <1>23
        DEF Together

LEMMA SubmitsKeep ==
    ASSUME Below, Together, NEW t \in Tabs, NEW c \in Calls,
           \/ SubmitLogin(t, c) \/ SubmitSignup(t, c) \/ SubmitForgot(t, c)
           \/ SubmitReset(t, c) \/ ClickLogout(t, c)
    PROVE  Kinded' /\ Together'
<1>1. CASE SubmitLogin(t, c)
  <2>1. PICK e \in EmailTexts, p \in PasswordTexts : StartLogin(c, e, p)
    BY <1>1 DEF SubmitLogin
  <2>2. PICK call : call = [Begin(c, "login", "authFind", 0) EXCEPT
                             !.email = ParsedEmail(e), !.password = p]
    OBVIOUS
  <2>3. call.id = begun + 1 /\ call.kind = "login" /\ call.step = "authFind"
    BY <2>2 DEF Begin, NoCall
  <2>4. Start(c, call) /\ FormBegins(t, c, call)
    BY <1>1, <2>1, <2>2, <2>3 DEF StartLogin, SubmitLogin, Submitting, FormBegins, Forms
  <2> QED BY <1>1, <2>3, <2>4, BeginKeeps DEF SubmitLogin, Submitting, Fits
<1>2. CASE SubmitSignup(t, c)
  <2>1. PICK e \in EmailTexts, p \in Valid : StartSignup(c, e, p)
    BY <1>2 DEF SubmitSignup
  <2>2. PICK call : call = [Begin(c, "signup", "signup", 0) EXCEPT
                             !.email = e, !.password = p]
    OBVIOUS
  <2>3. call.id = begun + 1 /\ call.kind = "signup" /\ call.step = "signup"
    BY <2>2 DEF Begin, NoCall
  <2>4. Start(c, call) /\ FormBegins(t, c, call)
    BY <1>2, <2>1, <2>2, <2>3 DEF StartSignup, SubmitSignup, Submitting, FormBegins, Forms
  <2> QED BY <1>2, <2>3, <2>4, BeginKeeps DEF SubmitSignup, Submitting, Fits
<1>3. CASE SubmitForgot(t, c)
  <2>1. PICK e \in EmailTexts : StartForgot(c, e)
    BY <1>3 DEF SubmitForgot
  <2>2. PICK call : call = [Begin(c, "forgot", "forgotFind", 0) EXCEPT !.email = ParsedEmail(e)]
    OBVIOUS
  <2>3. call.id = begun + 1 /\ call.kind = "forgot" /\ call.step = "forgotFind"
    BY <2>2 DEF Begin, NoCall
  <2>4. Start(c, call) /\ FormBegins(t, c, call)
    BY <1>3, <2>1, <2>2, <2>3 DEF StartForgot, SubmitForgot, Submitting, FormBegins, Forms
  <2> QED BY <1>3, <2>3, <2>4, BeginKeeps DEF SubmitForgot, Submitting, Fits
<1>4. CASE SubmitReset(t, c)
  <2>1. PICK p \in Valid, q \in Valid : StartReset(c, Cookie(t), pages[t].link, p, q)
    BY <1>4 DEF SubmitReset
  <2>2. PICK call : call = IF pages[t].link = 0
                           THEN Answered(Begin(c, "reset", "resetFind", Cookie(t)), "link")
                           ELSE [Begin(c, "reset", "resetFind", Cookie(t)) EXCEPT
                                   !.token = pages[t].link, !.password = Parsed(p)]
    OBVIOUS
  <2>3. /\ call.id = begun + 1 /\ call.kind = "reset"
        /\ \/ call.step = "resetFind" /\ call.token = pages[t].link
           \/ call.step = "answered" /\ call.answer = "link"
    BY <2>2 DEF Begin, Answered, NoCall
  <2>4. Start(c, call) /\ FormBegins(t, c, call)
    BY <1>4, <2>1, <2>2, <2>3
    DEF StartReset, SubmitReset, Submitting, FormBegins, Forms, Brings, Early
  <2> QED BY <1>4, <2>3, <2>4, BeginKeeps DEF SubmitReset, Submitting, Fits, ResetSteps, Over
<1>5. CASE ClickLogout(t, c)
  <2>1. PICK call : call = Begin(c, "logout", "logout", Cookie(t))
    OBVIOUS
  <2>2. /\ call.id = begun + 1 /\ call.kind = "logout" /\ call.step = "logout"
        /\ call.session = Cookie(t)
    BY <2>1 DEF Begin, NoCall
  <2>3. Start(c, call) /\ ButtonBegins(t, call)
    BY <1>5, <2>1, <2>2 DEF StartLogout, ClickLogout, ButtonBegins
  <2> QED BY <1>5, <2>2, <2>3, BeginKeeps DEF ClickLogout, Fits
<1> QED BY <1>1, <1>2, <1>3, <1>4, <1>5

-----------------------------------------------------------------------------
(***************************************************************************)
(* A tab receives an answer.                                               *)
(***************************************************************************)

LEMMA ReceiveKeeps ==
    ASSUME Below, Together, NEW t \in Tabs, NEW c \in Calls, Receive(t, c)
    PROVE  Kinded' /\ Together'
<1>0. PICK call : call = calls[c]
  OBVIOUS
<1>1. /\ sender[c].tab = t /\ call.step = "answered" /\ lost' = lost
      /\ begun' = begun /\ sessions' = sessions /\ redeemed' = redeemed /\ mail' = mail
      /\ calls' = [calls EXCEPT ![c] = NoCall] /\ calls \in [Calls -> Call]
  BY <1>0 DEF Receive, Becomes, At, Below, Typed, TypeOK
<1>2. /\ \A d \in Calls \ {c} : calls'[d] = calls[d]
      /\ calls'[c].id = 0 /\ calls'[c].step = "idle"
  BY <1>1 DEF NoCall
<1>3. /\ sender \in [Calls -> [tab : Tabs \cup {Nobody}, base : 0..MaxCalls]]
      /\ sender' = [sender EXCEPT ![c].tab = Nobody]
      /\ jar \in [Browsers -> 0..MaxCalls] /\ pages \in [Tabs -> Page]
      /\ BrowserOf \in [Tabs -> Browsers] /\ Nobody \notin Tabs /\ Nobody \notin Calls
  BY PagesAssumption DEF Receive, Together, PagesTypeOK
<1>4. /\ sender' \in [Calls -> [tab : Tabs \cup {Nobody}, base : 0..MaxCalls]]
      /\ sender'[c].tab = Nobody /\ sender'[c].base = sender[c].base
      /\ \A d \in Calls \ {c} : sender'[d] = sender[d]
  BY <1>3
<1>5. /\ call.id \in 1..begun /\ call.id \in Ids /\ begun \in 0..MaxCalls
      /\ \A d \in Calls \ {c} : calls[d].step # "idle" => calls[d].id # call.id
      /\ \A d \in Calls : calls[d].step # "idle" => calls[d].id # 0
  BY <1>0, <1>1, AuthAssumption
  DEF Below, Typed, TypeOK, Carries, Linked, NamesAreFresh, At, Ids
<1>6. ASSUME NEW h, Past(h) PROVE Past(h)' /\ h # call.id
  BY <1>0, <1>1, <1>2, <1>6 DEF Past
<1>7. PICK cookie : cookie = IF SetsCookie(call) THEN NewCookie(call) ELSE Cookie(t)
  OBVIOUS
<1>8. /\ Past(cookie)' /\ cookie \in 0..MaxCalls
      /\ SetsCookie(call) => cookie \in {0, call.id}
      /\ ~SetsCookie(call) => cookie = Cookie(t)
  <2>1. Past(call.id)' /\ Past(0)'
    BY <1>1, <1>2, <1>5 DEF Past
  <2>2. Past(Cookie(t)) /\ Cookie(t) \in 0..MaxCalls
    BY <1>3 DEF Together, CookiesArePast, Cookie
  <2>3. 0 \in 0..MaxCalls /\ Ids \subseteq 0..MaxCalls
    BY AuthAssumption DEF Ids
  <2>4. CASE SetsCookie(call)
    BY <1>5, <1>7, <2>1, <2>3, <2>4 DEF NewCookie
  <2>5. CASE ~SetsCookie(call)
    BY <1>6, <1>7, <2>2, <2>5
  <2> QED BY <2>4, <2>5
<1>9. /\ jar' = [jar EXCEPT ![BrowserOf[t]] = cookie]
      /\ replaced' = IF SetsCookie(call) THEN replaced \cup ({Cookie(t)} \ {sender[c].base, 0})
                                         ELSE replaced
  BY <1>0, <1>3, <1>7 DEF Receive, Cookie
<1>10. /\ jar' \in [Browsers -> 0..MaxCalls] /\ jar'[BrowserOf[t]] = cookie
       /\ \A b \in Browsers \ {BrowserOf[t]} : jar'[b] = jar[b]
       /\ replaced \subseteq replaced' /\ replaced' \subseteq Ids
  BY <1>3, <1>8, <1>9 DEF Together, PagesTypeOK, Cookie, Ids
<1>11. PICK form : form = IF pages[t].waiting = c
                          THEN Settled(pages[t], call.kind, call.answer) ELSE pages[t]
  OBVIOUS
<1>12. /\ form \in Page /\ form.at = pages[t].at /\ form.link = pages[t].link
       /\ form.shown = pages[t].shown /\ form.base = pages[t].base
       /\ form.seen = pages[t].seen /\ form.moving = pages[t].moving
       /\ pages[t].waiting = c =>
            /\ form.waiting = Nobody
            /\ form.success => call.answer = "ok" /\ call.kind \in {"forgot", "reset"}
            /\ form.taken => call.kind = "signup"
            /\ form.alert = "credentials" =>
                 call.kind = "login" \/ pages[t].alert = "credentials"
       /\ pages[t].waiting # c => form = pages[t]
  BY <1>3, <1>11, SettledPage
<1>13. PICK seen \in 0..MaxCalls :
         seen = IF SetsCookie(call) /\ form.at = "home" THEN cookie ELSE form.seen
  BY <1>8, <1>12 DEF Page
<1>14. PICK moving \in Ways : moving = Moves(form.moving, call.kind, call.answer)
  <2>1. form.moving \in Ways
    BY <1>12 DEF Page
  <2> QED BY <2>1 DEF Moves, Ways
<1>15. PICK page : page = [form EXCEPT !.moving = moving, !.seen = seen]
  OBVIOUS
<1>16. /\ page \in Page /\ page.at = form.at /\ page.link = form.link /\ page.shown = form.shown
       /\ page.base = form.base /\ page.seen = seen /\ page.moving = moving
       /\ page.waiting = form.waiting /\ page.success = form.success
       /\ page.taken = form.taken /\ page.alert = form.alert
  BY <1>12, <1>15 DEF Page
<1>17. pages' = [pages EXCEPT ![t] = page]
  <2>1. CASE SetsCookie(call)
    <3>1. pages' = [pages EXCEPT ![t] =
            [[form EXCEPT !.moving = Moves(form.moving, call.kind, call.answer)]
              EXCEPT !.seen = IF form.at = "home" THEN NewCookie(call) ELSE form.seen]]
      BY <1>0, <1>11, <1>12, <2>1 DEF Receive, Page
    <3> QED BY <1>7, <1>12, <1>13, <1>14, <1>15, <2>1, <3>1 DEF Page
  <2>2. CASE ~SetsCookie(call)
    <3>1. pages' = [pages EXCEPT ![t] =
            [form EXCEPT !.moving = Moves(form.moving, call.kind, call.answer)]]
      BY <1>0, <1>11, <1>12, <2>2 DEF Receive, Page
    <3> QED BY <1>12, <1>13, <1>14, <1>15, <2>2, <3>1 DEF Page
  <2> QED BY <2>1, <2>2
<1>18. /\ pages' \in [Tabs -> Page] /\ pages'[t] = page
       /\ \A u \in Tabs \ {t} : pages'[u] = pages[u]
  BY <1>3, <1>16, <1>17
<1>19. /\ pages[t].waiting = c => call.kind = pages[t].at
       /\ pages[t].at = "reset" => pages[t].waiting = c
       /\ call.kind = "reset" => pages[t].at = "reset"
       /\ pages[t].at = "home" => pages[t].waiting = Nobody
  BY <1>0, <1>1, <1>3 DEF Together, Hearing, ResetsAreAlone, PagesTypeOK
<1>20. \A u \in Tabs : pages[u].waiting # Nobody =>
         /\ pages[u].waiting \in Calls
         /\ u # t => pages[u].waiting # c
  BY <1>1, <1>3 DEF Together, PagesTypeOK, Page
<1>21. page.waiting # Nobody => page.waiting \in Calls \ {c} /\ page.waiting = pages[t].waiting
  BY <1>12, <1>16, <1>20
<1>22. Kinded'
  BY <1>2 DEF Below, Kinded, Over
<1>23. PagesTypeOK'
  <2>1. \A u \in Tabs : pages'[u].waiting # Nobody => sender'[pages'[u].waiting].tab = u
    BY <1>4, <1>18, <1>20, <1>21 DEF Together, PagesTypeOK
  <2>2. /\ page.success => page.at \in {"forgot", "reset"}
        /\ page.taken => page.at = "signup"
        /\ page.alert = "credentials" => page.at = "login"
        /\ page.at = "home" => page.alert = "none" /\ page.waiting = Nobody
    BY <1>3, <1>12, <1>16, <1>19 DEF Together, PagesTypeOK
  <2>3. \A u \in Tabs :
          /\ pages'[u].success => pages'[u].at \in {"forgot", "reset"}
          /\ pages'[u].taken => pages'[u].at = "signup"
          /\ pages'[u].alert = "credentials" => pages'[u].at = "login"
          /\ pages'[u].at = "home" => pages'[u].alert = "none" /\ pages'[u].waiting = Nobody
    BY <1>18, <2>2 DEF Together, PagesTypeOK
  <2>4. lost' \subseteq Ids
    BY <1>1 DEF Together, PagesTypeOK
  <2> QED BY <1>4, <1>10, <1>18, <2>1, <2>3, <2>4 DEF PagesTypeOK
<1>24. Hearing'
  <2>1. \A d \in Calls : sender'[d].tab # Nobody => calls'[d].step # "idle"
    BY <1>2, <1>4 DEF Together, Hearing
  <2>2. \A u \in Tabs : pages'[u].waiting # Nobody =>
          /\ calls'[pages'[u].waiting].step # "idle"
          /\ calls'[pages'[u].waiting].kind = pages'[u].at
    BY <1>2, <1>12, <1>16, <1>18, <1>20, <1>21 DEF Together, Hearing
  <2>3. \A u \in Tabs : pages'[u].success => pages'[u].waiting = Nobody
    BY <1>12, <1>16, <1>18 DEF Together, Hearing
  <2> QED BY <2>1, <2>2, <2>3 DEF Hearing
<1>25. ResetsAreAlone'
  <2>1. page.at = "reset" => page.moving = "none"
    BY <1>12, <1>14, <1>16, <1>19 DEF Together, ResetsAreAlone, Moves
  <2>2. page.at = "reset" => \A d \in Calls : sender'[d].tab # t
    <3> SUFFICES ASSUME page.at = "reset", NEW d \in Calls PROVE sender'[d].tab # t
      OBVIOUS
    <3>1. sender[d].tab = t => d = c
      BY <1>12, <1>16, <1>19 DEF Together, ResetsAreAlone
    <3>2. d # c => sender'[d].tab = sender[d].tab
      BY <1>4
    <3>3. t # Nobody
      BY <1>3
    <3> QED BY <1>4, <3>1, <3>2, <3>3
  <2>3. \A u \in Tabs : pages'[u].at = "reset" =>
          /\ pages'[u].moving = "none"
          /\ \A d \in Calls : sender'[d].tab = u => pages'[u].waiting = d
    BY <1>3, <1>4, <1>18, <2>1, <2>2 DEF Together, ResetsAreAlone
  <2>4. ASSUME NEW d \in Calls, sender'[d].tab # Nobody, calls'[d].kind = "reset"
        PROVE  pages'[sender'[d].tab].at = "reset"
    <3>1. sender'[d].tab \in Tabs /\ d # c
      BY <1>4, <2>4
    <3> QED BY <1>2, <1>4, <1>12, <1>16, <1>18, <2>4, <3>1 DEF Together, ResetsAreAlone
  <2> QED BY <2>3, <2>4 DEF ResetsAreAlone
<1>26. LinksAreBrought'
  <2>1. page.at = "reset" /\ page.success => page.link \in redeemed
    <3> SUFFICES ASSUME page.at = "reset", page.success PROVE page.link \in redeemed
      OBVIOUS
    <3>1. /\ pages[t].at = "reset" /\ pages[t].waiting = c /\ call.answer = "ok"
          /\ page.link = pages[t].link
      BY <1>12, <1>16, <1>19
    <3>2. Brings(call, page.link, redeemed)
      BY <1>0, <1>3, <3>1 DEF Together, LinksAreBrought
    <3> QED BY <1>1, <3>1, <3>2 DEF Brings, Early, Late
  <2>2. page.at = "reset" => page.link \in {0} \cup Mailed /\ page.waiting = Nobody
    BY <1>12, <1>16, <1>19 DEF Together, LinksAreBrought
  <2>3. Mailed' = Mailed
    BY <1>1 DEF Mailed
  <2>4. \A u \in Tabs \ {t} : pages[u].waiting # Nobody =>
          calls'[pages[u].waiting] = calls[pages[u].waiting]
    BY <1>2, <1>20
  <2> QED BY <1>1, <1>18, <2>1, <2>2, <2>3, <2>4 DEF Together, LinksAreBrought
<1>27. HandlesAreAnswered'
  BY <1>1, <1>2 DEF Together, HandlesAreAnswered
<1>28. CookiesArePast'
  <2>1. Past(page.base)' /\ Past(page.seen)'
    BY <1>6, <1>8, <1>12, <1>13, <1>16 DEF Together, CookiesArePast
  <2> QED BY <1>4, <1>6, <1>8, <1>10, <1>18, <2>1 DEF Together, CookiesArePast
<1>29. Handles' = Handles
  BY <1>1 DEF Handles
<1>30. FormsAreForNobody'
  BY <1>2, <1>4, <1>12, <1>16, <1>18, <1>29 DEF Together, FormsAreForNobody
<1>31. LogoutsEndTheirs'
  <2> SUFFICES ASSUME NEW d \in Calls, sender'[d].tab # Nobody, calls'[d].kind = "logout",
                      jar'[BrowserOf[sender'[d].tab]] = sender'[d].base, sender'[d].base # 0
               PROVE  \/ calls'[d].step = "logout" /\ calls'[d].session = sender'[d].base
                      \/ calls'[d].step = "answered" /\ sender'[d].base \notin Handles'
    BY DEF LogoutsEndTheirs
  <2>1. d # c /\ sender'[d] = sender[d] /\ calls'[d] = calls[d] /\ sender[d].tab \in Tabs
    BY <1>2, <1>3, <1>4
  <2>2. sender[d].base # call.id
    BY <1>6 DEF Together, CookiesArePast
  <2>3. jar[BrowserOf[sender[d].tab]] = sender[d].base
    BY <1>3, <1>8, <1>10, <2>1, <2>2 DEF Cookie
  <2> QED BY <1>29, <2>1, <2>3 DEF Together, LogoutsEndTheirs
<1>32. UnheardAreLost'
  BY <1>1, <1>2, <1>4 DEF Together, UnheardAreLost
<1>33. HomeShows'
  <2>1. page.at = "home" /\ page.moving = "none" => ~SetsCookie(call)
    BY <1>14, <1>12, <1>16, <1>19 DEF SetsCookie, SignIns, Moves
  <2>2. page.at = "home" /\ page.moving = "none" =>
          /\ pages[t].at = "home" /\ pages[t].moving = "none"
          /\ page.seen = pages[t].seen /\ page.shown = pages[t].shown
    BY <1>12, <1>13, <1>14, <1>16, <2>1 DEF Moves
  <2> QED BY <1>1, <1>18, <2>2 DEF Together, HomeShows
<1>34. OrphansAreStale'
  <2> SUFFICES ASSUME NEW h \in Handles
               PROVE  \/ \E b \in Browsers : jar'[b] = h
                      \/ \E d \in Calls : calls'[d].id = h /\ sender'[d].tab # Nobody
                      \/ h \in lost \cup replaced'
    BY <1>1, <1>29 DEF OrphansAreStale
  <2>1. ASSUME jar[BrowserOf[t]] = h, jar'[BrowserOf[t]] # h
        PROVE  h \in replaced'
    <3>1. SetsCookie(call) /\ Cookie(t) = h
      BY <1>8, <1>10, <2>1 DEF Cookie
    <3>2. h # 0
      BY DEF Handles, Together, HandlesAreAnswered
    <3>3. h # sender[c].base
      <4>1. CASE call.kind = "logout"
        BY <1>0, <1>1, <1>3, <2>1, <3>2, <4>1 DEF Together, LogoutsEndTheirs
      <4>2. CASE call.kind # "logout"
        BY <1>0, <1>1, <1>3, <4>2 DEF Together, FormsAreForNobody
      <4> QED BY <4>1, <4>2
    <3> QED BY <1>9, <3>1, <3>2, <3>3
  <2>2. ASSUME call.id = h PROVE jar'[BrowserOf[t]] = h
    <3>1. call.answer = "ok" /\ call.kind \in SignIns
      BY <1>0, <2>2 DEF Together, HandlesAreAnswered, Handles
    <3>2. SetsCookie(call) /\ NewCookie(call) = call.id
      BY <3>1 DEF SetsCookie, NewCookie, SignIns
    <3> QED BY <1>7, <1>10, <2>2, <3>2
  <2>3. CASE \E b \in Browsers : jar[b] = h
    BY <1>3, <1>10, <2>1, <2>3
  <2>4. CASE \E d \in Calls : calls[d].id = h /\ sender[d].tab # Nobody
    BY <1>0, <1>2, <1>3, <1>4, <2>2, <2>4
  <2>5. CASE h \in lost \cup replaced
    BY <1>10, <2>5
  <2> QED BY <2>3, <2>4, <2>5 DEF Together, OrphansAreStale
<1> QED BY <1>22, <1>23, <1>24, <1>25, <1>26, <1>27, <1>28, <1>30, <1>31, <1>32, <1>33, <1>34
        DEF Together

-----------------------------------------------------------------------------
(***************************************************************************)
(* The pages only use the mutations as anybody may.                        *)
(***************************************************************************)

LEMMA PagesAreAnybody ==
    ASSUME Below, Together, [PagesNext]_allVars
    PROVE  [AnyNext]_vars
<1>1. ASSUME NEW t \in Tabs, NEW c \in Calls,
             \/ SubmitLogin(t, c) \/ SubmitSignup(t, c) \/ SubmitForgot(t, c)
             \/ SubmitReset(t, c) \/ ClickLogout(t, c)
      PROVE  AnyRequest(c)
  <2>0. Valid \subseteq PasswordTexts
    BY AuthAssumption
  <2>1. Cookie(t) \in 0..MaxCalls
    BY PagesAssumption DEF Together, PagesTypeOK, Cookie
  <2>2. SubmitReset(t, c) => pages[t].link \in {0} \cup Mailed
    BY DEF SubmitReset, Submitting, Together, LinksAreBrought
  <2>3. CASE SubmitLogin(t, c) \/ SubmitSignup(t, c) \/ SubmitForgot(t, c)
    BY <2>3 DEF SubmitLogin, SubmitSignup, SubmitForgot, AnyRequest, Request
  <2>4. CASE SubmitReset(t, c)
    BY <2>1, <2>2, <2>4 DEF SubmitReset, AnyRequest
  <2>5. CASE ClickLogout(t, c)
    BY <2>1, <2>5 DEF ClickLogout, AnyRequest
  <2> QED BY <1>1, <2>3, <2>4, <2>5
<1>2. ASSUME NEW t \in Tabs, NEW c \in Calls, Receive(t, c) PROVE Return(c)
  BY <1>2 DEF Receive, Return
<1>3. ASSUME NEW t \in Tabs, TabStep(t) PROVE [AnyNext]_vars
  <2>1. CASE Load(t) \/ Follow(t) \/ Arrive(t) \/ \E c \in Calls : LoseConnection(t, c)
    BY <2>1 DEF Load, Follow, Arrive, LoseConnection, vars
  <2>2. CASE \E c \in Calls :
               \/ SubmitLogin(t, c) \/ SubmitSignup(t, c) \/ SubmitForgot(t, c)
               \/ SubmitReset(t, c) \/ ClickLogout(t, c) \/ Receive(t, c)
    BY <1>1, <1>2, <2>2 DEF AnyNext
  <2> QED BY <1>3, <2>1, <2>2 DEF TabStep
<1>4. ASSUME NEW c \in Calls, ServerStep(c) \/ DropAnswer(c) PROVE [AnyNext]_vars
  BY <1>4 DEF ServerStep, DropAnswer, AnyNext
<1>5. ASSUME NEW r \in tokens, Expire(r) PROVE [AnyNext]_vars
  BY <1>5 DEF AnyNext
<1>6. ASSUME UNCHANGED allVars PROVE [AnyNext]_vars
  BY <1>6 DEF allVars
<1> QED BY <1>3, <1>4, <1>5, <1>6 DEF PagesNext

LEMMA PagesKeep ==
    ASSUME Below, Together, [PagesNext]_allVars
    PROVE  Below' /\ Together'
<1>1. Typed' /\ Linked'
  BY PagesAreAnybody, NextTyped, NextLinked DEF Below
<1>2. ASSUME NEW t \in Tabs, TabStep(t) PROVE Kinded' /\ Together'
  BY <1>2, LooksKeep, SubmitsKeep, ReceiveKeeps, LostConnectionKeeps DEF TabStep
<1>3. ASSUME NEW c \in Calls, ServerStep(c) \/ DropAnswer(c) PROVE Kinded' /\ Together'
  BY <1>3, ServerKeeps, EndedKeeps
<1>4. ASSUME NEW r \in tokens, Expire(r), UNCHANGED pageVars PROVE Kinded' /\ Together'
  BY <1>4, TimeKeeps DEF Expire
<1>5. ASSUME UNCHANGED allVars PROVE Kinded' /\ Together'
  BY <1>5, TimeKeeps DEF allVars, vars
<1>6. Kinded' /\ Together'
  BY <1>2, <1>3, <1>4, <1>5 DEF PagesNext
<1> QED BY <1>1, <1>6 DEF Below

LEMMA PagesBegin ==
    ASSUME PagesInitAll
    PROVE  Below /\ Together
<1>1. Typed /\ Linked
  BY TypedInit, LinkedInit DEF PagesInitAll
<1>2. /\ \A c \in Calls : /\ calls[c].id = 0 /\ calls[c].step = "idle"
                            /\ sender[c] = [tab |-> Nobody, base |-> 0]
      /\ sessions = {} /\ lost = {} /\ replaced = {}
      /\ begun = 0 /\ jar = [b \in Browsers |-> 0]
  BY DEF PagesInitAll, Init, PagesInit, NoCall
<1>3. Kinded
  BY <1>2 DEF Kinded, Over
<1>4. Past(0)
  BY <1>2 DEF Past
<1>5. \A t \in Tabs : New(pages[t]) /\ pages[t].at = "home"
  <2>1. HandlesAreAnswered /\ Below
    BY <1>1, <1>2, <1>3 DEF HandlesAreAnswered, Below
  <2>2. New(Rendered("home", 0, 0)) /\ Rendered("home", 0, 0).at = "home"
    BY <1>4, <2>1, RenderedIsNew
  <2> QED BY <2>2 DEF PagesInitAll, PagesInit
<1>6. PagesTypeOK
  <2>1. pages \in [Tabs -> Page]
    <3>1. pages = [t \in Tabs |-> Rendered("home", 0, 0)]
      BY DEF PagesInitAll, PagesInit
    <3>2. \A t \in Tabs : pages[t] \in Page
      BY <1>5 DEF New
    <3> QED BY <3>1, <3>2
  <2>2. 0 \in 0..MaxCalls
    BY AuthAssumption
  <2>3. sender \in [Calls -> [tab : Tabs \cup {Nobody}, base : 0..MaxCalls]]
    BY <2>2 DEF PagesInitAll, PagesInit
  <2>4. \A t \in Tabs : /\ pages[t].waiting = Nobody /\ ~pages[t].success
                         /\ ~pages[t].taken /\ pages[t].alert = "none"
    BY <1>5 DEF New
  <2> QED BY <1>2, <2>1, <2>2, <2>3, <2>4 DEF PagesTypeOK
<1>7. Hearing /\ ResetsAreAlone /\ LinksAreBrought /\ FormsAreForNobody /\ LogoutsEndTheirs
  BY <1>2, <1>5
  DEF New, Hearing, ResetsAreAlone, LinksAreBrought, FormsAreForNobody, LogoutsEndTheirs
<1>8. HandlesAreAnswered /\ UnheardAreLost /\ OrphansAreStale
  BY <1>2 DEF HandlesAreAnswered, UnheardAreLost, OrphansAreStale, Handles
<1>9. CookiesArePast /\ HomeShows
  BY <1>2, <1>4, <1>5 DEF New, CookiesArePast, HomeShows
<1> QED BY <1>1, <1>3, <1>6, <1>7, <1>8, <1>9 DEF Below, Together

\* What holds below the pages and between the pages and the calls, always.
THEOREM PagesInvariance == PagesSpec => [](Below /\ Together)
<1>1. Below /\ Together /\ [PagesNext]_allVars => (Below /\ Together)'
  BY PagesKeep
<1> QED BY <1>1, PagesBegin, PTL DEF PagesSpec

\* A page shows nothing that it cannot: a waiting form is the one that hears the
\* answer, a success is of a form that stays, an e-mail in use of a signup, wrong
\* credentials of a login.
THEOREM PagesTypeCorrect == PagesSpec => []PagesTypeOK
<1>1. Together => PagesTypeOK
  BY DEF Together
<1> QED BY <1>1, PagesInvariance, PTL

\* "Password Reset Successfully" is shown only for a link that has set a password,
\* whatever was retried, lost or answered late.
THEOREM SuccessIsRealHolds == PagesSpec => []SuccessIsReal
<1>1. Together => SuccessIsReal
  BY DEF Together, LinksAreBrought, SuccessIsReal
<1> QED BY <1>1, PagesInvariance, PTL

\* A session is in a jar or on its way to one, unless its answer was lost or its
\* cookie replaced by the answer to an outdated page: the forms never drop one.
THEOREM OrphansAreStaleHolds == PagesSpec => []OrphansAreStale
<1>1. Together => OrphansAreStale
  BY DEF Together
<1> QED BY <1>1, PagesInvariance, PTL

\* The home page keeps up with its own tab, in any number of tabs.
THEOREM HomeIsCurrentHolds == PagesSpec => []HomeIsCurrent
<1>1. Together => HomeIsCurrent
  <2> SUFFICES ASSUME Together, NEW t \in Tabs, pages[t].at = "home", pages[t].moving = "none",
                      pages[t].seen = Cookie(t)
               PROVE  /\ Cookie(t) = 0 => pages[t].shown = 0
                      /\ LiveUser(Cookie(t)) # {} => pages[t].shown \in LiveUser(Cookie(t))
    BY DEF HomeIsCurrent
  <2> QED BY DEF Together, HomeShows, LiveUser
<1> QED BY <1>1, PagesInvariance, PTL

-----------------------------------------------------------------------------
(***************************************************************************)
(* What is proved about the mutations holds under the pages.               *)
(***************************************************************************)

LEMMA PagesSpecIsAny == PagesSpec => AnySpec
<1>1. Below /\ Together /\ [PagesNext]_allVars => [AnyNext]_vars
  BY PagesAreAnybody
<1>2. PagesInitAll => Init
  BY DEF PagesInitAll
<1> QED BY <1>1, <1>2, PagesInvariance, PTL DEF PagesSpec, AnySpec

\* Under the pages, which send cookies of ended sessions and links of old mails too,
\* a link sets one password, links stay few, a session outlives a reset only in a
\* race and a reset can log in.
THEOREM PagesKeepTheMutations ==
    PagesSpec => [](LinkWorksOnce /\ LinksBounded /\ StaleSessionsRaced /\ ResetCanLogIn)
BY PagesSpecIsAny, AnyLinksWorkOnce, AnyLinksAreBounded, AnyStaleSessionsAreRaced,
   AnyResetsCanLogIn, PTL

\* Under the pages a session is opened and a password is set only for somebody who
\* has shown a password the account had, or by an open link of it.
THEOREM PagesKeepThePromise == PagesSpec => ImplementsPromise
BY PagesSpecIsAny, AnyMutationsKeepThePromise

=============================================================================
