---------------------------- MODULE AuthMutations ----------------------------
(***************************************************************************)
(* The account mutations of the Blitz application, ui/fraud_detect: sign   *)
(* up, log in, log out, forgotten, reset and changed password.  Each is an *)
(* asynchronous function that awaits one database call after another, and  *)
(* the server runs several at once: a step of a call is one database call  *)
(* with the code up to the next await.  Hashing and verifying read nothing *)
(* that is shared and belong to the step before.                           *)
(*                                                                         *)
(* Texts are abstract: LowerCase and Trim are the conversions of           *)
(* validations.ts.  A stored hash is the text it was made of and whether   *)
(* it was made with older parameters (VALID_NEEDS_REHASH).                 *)
(***************************************************************************)
EXTENDS Naturals, Sequences, FiniteSets

CONSTANTS
    Calls,          \* calls the server runs at the same time
    EmailTexts,     \* valid e-mail addresses as they are typed
    LowerCase,      \* str.toLowerCase().trim()
    PasswordTexts,  \* passwords as they are typed, and trimmed ones
    Trim,           \* str.trim()
    Empty,          \* the empty text, which cannot be hashed
    Valid,          \* the texts that satisfy .min(10).max(100)
    OldUsers,       \* the accounts from before an upgrade of the hash
    Production,     \* process.env.NODE_ENV === "production"
    MaxCalls        \* bound: how many mutations are called

ASSUME AuthAssumption ==
    /\ IsFiniteSet(Calls)
    /\ LowerCase \in [EmailTexts -> EmailTexts]
    /\ \A e \in EmailTexts : LowerCase[LowerCase[e]] = LowerCase[e]
    /\ Trim \in [PasswordTexts -> PasswordTexts]
    /\ \A p \in PasswordTexts : Trim[Trim[p]] = Trim[p]
    /\ Empty \in PasswordTexts /\ Valid \subseteq PasswordTexts \ {Empty}
    /\ OldUsers \in Seq([email : EmailTexts, password : PasswordTexts \ {Empty}])
    /\ \A u, v \in DOMAIN OldUsers : OldUsers[u].email = OldUsers[v].email => u = v
    /\ Production \in BOOLEAN
    /\ MaxCalls \in Nat

VARIABLES
    users,     \* the User table in the order of the ids
    tokens,    \* the Token table
    sessions,  \* the Session table
    mail,      \* the reset links that were mailed
    calls,     \* what each call is at and has read
    begun,     \* how many mutations were called
    redeemed   \* history: the tokens that have set a password

vars == <<users, tokens, sessions, mail, calls, begun, redeemed>>

(***************************************************************************)
(* A user's "writes" counts the changes of the stored hash and "resets"    *)
(* those of them that a reset made.  A session's "proof" is what "resets"  *)
(* was when the password was verified that it was opened for; "raced" says *)
(* that the sessions of its user were revoked between that and its insert. *)
(* These are history, nothing reads them but the properties.               *)
(***************************************************************************)

Ids == 1..MaxCalls
UserIds == Nat \ {0}

User == [email : EmailTexts, password : PasswordTexts, old : BOOLEAN,
         writes : Nat, resets : Nat]
Token == [token : Ids, user : UserIds, expired : BOOLEAN]
Session == [handle : Ids, user : UserIds, proof : Nat, raced : BOOLEAN]

Kinds == {"none", "signup", "login", "logout", "forgot", "reset", "change"}
Steps == {"idle", "signup", "authFind", "rehash", "create", "logout",
          "forgotFind", "forgotDelete", "forgotCreate", "forgotMail",
          "resetFind", "resetDelete", "resetUpdate", "resetRevoke",
          "changeUpdate", "answered"}
Answers == {"none", "ok", "taken", "credentials", "link", "error"}

\* What a call carries from step to step.  user is the account of the session or
\* of the token, found the one authenticateUser has verified; 0 is none of them.
Call ==
    [id : 0..MaxCalls, kind : Kinds, step : Steps, answer : Answers,
     email : EmailTexts \cup {"none"}, password : PasswordTexts \cup {"none"},
     next : PasswordTexts \cup {"none"}, token : 0..MaxCalls,
     session : 0..MaxCalls, user : {0} \cup UserIds, found : {0} \cup UserIds,
     proof : Nat, mark : Nat, raced : BOOLEAN]

NoCall ==
    [id |-> 0, kind |-> "none", step |-> "idle", answer |-> "none",
     email |-> "none", password |-> "none", next |-> "none", token |-> 0,
     session |-> 0, user |-> 0, found |-> 0, proof |-> 0, mark |-> 0,
     raced |-> FALSE]

TypeOK ==
    /\ users \in Seq(User)
    /\ tokens \subseteq Token
    /\ sessions \subseteq Session
    /\ mail \subseteq [token : Ids, user : UserIds]
    /\ calls \in [Calls -> Call]
    /\ begun \in 0..MaxCalls
    /\ redeemed \subseteq Ids

\* Some of the accounts from before the upgrade.
Init ==
    /\ \E n \in 0..Len(OldUsers) :
         users = [u \in 1..n |->
                   [email |-> OldUsers[u].email, password |-> OldUsers[u].password,
                    old |-> TRUE, writes |-> 0, resets |-> 0]]
    /\ tokens = {} /\ sessions = {} /\ mail = {}
    /\ calls = [c \in Calls |-> NoCall]
    /\ begun = 0
    /\ redeemed = {}

(***************************************************************************)
(* The start of a call: the handler of /api/rpc reads the session of the   *)
(* cookie, the resolver parses the input.                                  *)
(***************************************************************************)

\* What a call has read is gone when it has returned.
Answered(call, a) ==
    [NoCall EXCEPT !.id = call.id, !.kind = call.kind, !.step = "answered", !.answer = a]

Begin(c, kind, step, h) ==
    [NoCall EXCEPT !.id = begun + 1, !.kind = kind, !.step = step, !.session = h]

Start(c, call) ==
    /\ calls[c].step = "idle"
    /\ begun < MaxCalls
    /\ begun' = begun + 1
    /\ calls' = [calls EXCEPT ![c] = call]
    /\ UNCHANGED <<users, tokens, sessions, mail, redeemed>>

\* Mutant: a password is passed on as it is typed.
AsTyped(p) == p

\* The schema "password" of validations.ts: checked first, trimmed after.
Parsed(p) == Trim[p]

\* The schema "email", which login and forgotPassword parse with.
ParsedEmail(e) == LowerCase[e]

\* The refinement of ResetPassword.
Confirmed(p, confirmation) == Parsed(p) = Parsed(confirmation)

\* signup has no schema of its own, the form checks what is typed and sends that.
StartSignup(c, e, p) ==
    Start(c, [Begin(c, "signup", "signup", 0) EXCEPT !.email = e, !.password = p])

StartLogin(c, e, p) ==
    Start(c, [Begin(c, "login", "authFind", 0) EXCEPT
                !.email = ParsedEmail(e), !.password = p])

StartLogout(c, h) == Start(c, Begin(c, "logout", "logout", h))

StartForgot(c, e) ==
    Start(c, [Begin(c, "forgot", "forgotFind", 0) EXCEPT !.email = ParsedEmail(e)])

\* Without a token the call ends at once.
StartReset(c, h, t, p, confirmation) ==
    /\ Confirmed(p, confirmation)
    /\ Start(c, IF t = 0
                THEN Answered(Begin(c, "reset", "resetFind", h), "link")
                ELSE [Begin(c, "reset", "resetFind", h) EXCEPT
                        !.token = t, !.password = Parsed(p)])

LiveUser(h) == {s.user : s \in {s \in sessions : s.handle = h}}

\* resolver.authorize() needs a session; the user's e-mail never changes, so it
\* may be read here.  authenticateUser puts it in lower case.
StartChange(c, h, p, new) ==
    IF LiveUser(h) = {}
    THEN Start(c, Answered(Begin(c, "change", "authFind", h), "credentials"))
    ELSE \E u \in LiveUser(h) :
           Start(c, [Begin(c, "change", "authFind", h) EXCEPT
                       !.user = u, !.email = ParsedEmail(users[u].email),
                       !.password = p, !.next = Trim[Parsed(new)]])

(***************************************************************************)
(* Helpers of the steps.                                                   *)
(***************************************************************************)

At(c, step) == calls[c].step = step

Becomes(c, call) == calls' = [calls EXCEPT ![c] = call]
GoTo(c, step) == Becomes(c, [calls[c] EXCEPT !.step = step])
Answer(c, a) == Becomes(c, Answered(calls[c], a))

\* update of hashedPassword, whatever it was.
SetPassword(u, p, byReset) ==
    users' = [users EXCEPT ![u].password = p, ![u].old = FALSE, ![u].writes = @ + 1,
                           ![u].resets = @ + (IF byReset THEN 1 ELSE 0)]

WithEmail(e) == {u \in DOMAIN users : users[u].email = e}

(***************************************************************************)
(* authenticateUser and login, which reset calls as well.                  *)
(***************************************************************************)

\* Mutant: a hash that needs an upgrade is taken for valid.
VerifiesOld(u, p) == users[u].old \/ users[u].password = p

\* SecurePassword.verify; it refuses an empty text.
Verifies(u, p) == users[u].password = p /\ p # Empty

AfterAuthenticate(c) == IF calls[c].kind = "change" THEN "changeUpdate" ELSE "create"

Authenticate(c) ==
    /\ At(c, "authFind")
    /\ \E u \in WithEmail(calls[c].email) :
         /\ Verifies(u, calls[c].password)
         /\ Becomes(c, [calls[c] EXCEPT
                          !.found = u, !.proof = users[u].resets,
                          !.step = IF users[u].old THEN "rehash"
                                                   ELSE AfterAuthenticate(c)])
    /\ UNCHANGED <<users, tokens, sessions, mail, begun, redeemed>>

RejectCredentials(c) ==
    /\ At(c, "authFind")
    /\ \A u \in WithEmail(calls[c].email) : ~Verifies(u, calls[c].password)
    /\ Answer(c, "credentials")
    /\ UNCHANGED <<users, tokens, sessions, mail, begun, redeemed>>

\* The hash of the verified text is stored with the parameters of today.
Rehash(c) ==
    /\ At(c, "rehash")
    /\ SetPassword(calls[c].found, calls[c].password, FALSE)
    /\ GoTo(c, AfterAuthenticate(c))
    /\ UNCHANGED <<tokens, sessions, mail, begun, redeemed>>

\* Mutant: the session is for the one who is signed in already.
CreateSessionOfCaller(c) ==
    /\ At(c, "create")
    /\ sessions' = sessions \cup
         {[handle |-> calls[c].id, user |-> calls[c].user,
           proof |-> calls[c].proof, raced |-> calls[c].raced]}
    /\ Answer(c, "ok")
    /\ UNCHANGED <<users, tokens, mail, begun, redeemed>>

\* ctx.session.$create inserts a session; one the browser had before stays.
CreateSession(c) ==
    /\ At(c, "create")
    /\ sessions' = sessions \cup
         {[handle |-> calls[c].id, user |-> calls[c].found,
           proof |-> calls[c].proof, raced |-> calls[c].raced]}
    /\ Answer(c, "ok")
    /\ UNCHANGED <<users, tokens, mail, begun, redeemed>>

(***************************************************************************)
(* signup and logout.                                                      *)
(***************************************************************************)

CreateUser(c) ==
    /\ At(c, "signup")
    /\ WithEmail(calls[c].email) = {}
    /\ users' = Append(users, [email |-> calls[c].email, password |-> calls[c].password,
                               old |-> FALSE, writes |-> 0, resets |-> 0])
    /\ Becomes(c, [calls[c] EXCEPT !.found = Len(users) + 1, !.step = "create"])
    /\ UNCHANGED <<tokens, sessions, mail, begun, redeemed>>

\* The unique index on User.email, error P2002.
EmailTaken(c) ==
    /\ At(c, "signup")
    /\ WithEmail(calls[c].email) # {}
    /\ Answer(c, "taken")
    /\ UNCHANGED <<users, tokens, sessions, mail, begun, redeemed>>

\* ctx.session.$revoke; a session that is gone already is no error.
Logout(c) ==
    /\ At(c, "logout")
    /\ sessions' = {s \in sessions : s.handle # calls[c].session}
    /\ Answer(c, "ok")
    /\ UNCHANGED <<users, tokens, mail, begun, redeemed>>

(***************************************************************************)
(* forgotPassword.                                                         *)
(***************************************************************************)

FindForgetful(c) ==
    /\ At(c, "forgotFind")
    /\ \E u \in WithEmail(calls[c].email) :
         Becomes(c, [calls[c] EXCEPT !.user = u, !.step = "forgotDelete"])
    /\ UNCHANGED <<users, tokens, sessions, mail, begun, redeemed>>

\* Mutant: the promise of the timer is never resolved.
WaitForever(c) ==
    /\ At(c, "forgotFind")
    /\ WithEmail(calls[c].email) = {}
    /\ UNCHANGED vars

\* Nobody has the address: the timer runs and the call returns as always.
FindNobody(c) ==
    /\ At(c, "forgotFind")
    /\ WithEmail(calls[c].email) = {}
    /\ Answer(c, "ok")
    /\ UNCHANGED <<users, tokens, sessions, mail, begun, redeemed>>

\* Mutant: only the expired tokens are deleted.
ExpiredTokensOf(u) == {t \in tokens : t.user = u /\ t.expired}

\* deleteMany of the RESET_PASSWORD tokens, the only type there is.
TokensOf(u) == {t \in tokens : t.user = u}

DeleteTokens(c) ==
    /\ At(c, "forgotDelete")
    /\ tokens' = tokens \ TokensOf(calls[c].user)
    /\ GoTo(c, "forgotCreate")
    /\ UNCHANGED <<users, sessions, mail, begun, redeemed>>

\* generateToken gives each call a token of its own, named by the call.
CreateToken(c) ==
    /\ At(c, "forgotCreate")
    /\ tokens' = tokens \cup
         {[token |-> calls[c].id, user |-> calls[c].user, expired |-> FALSE]}
    /\ GoTo(c, "forgotMail")
    /\ UNCHANGED <<users, sessions, mail, begun, redeemed>>

SendMail(c) ==
    /\ At(c, "forgotMail")
    /\ ~Production
    /\ mail' = mail \cup {[token |-> calls[c].id, user |-> calls[c].user]}
    /\ Answer(c, "ok")
    /\ UNCHANGED <<users, tokens, sessions, begun, redeemed>>

\* In production always, "No production email implementation", and elsewhere if
\* the preview cannot be opened: the call fails, the token stays.
FailToMail(c) ==
    /\ At(c, "forgotMail")
    /\ Answer(c, "error")
    /\ UNCHANGED <<users, tokens, sessions, mail, begun, redeemed>>

(***************************************************************************)
(* resetPassword.                                                          *)
(***************************************************************************)

Rows(t) == {r \in tokens : r.token = t}

FindToken(c) ==
    /\ At(c, "resetFind")
    /\ \E r \in Rows(calls[c].token) :
         Becomes(c, [calls[c] EXCEPT !.user = r.user, !.step = "resetDelete"])
    /\ UNCHANGED <<users, tokens, sessions, mail, begun, redeemed>>

FindNoToken(c) ==
    /\ At(c, "resetFind")
    /\ Rows(calls[c].token) = {}
    /\ Answer(c, "link")
    /\ UNCHANGED <<users, tokens, sessions, mail, begun, redeemed>>

\* Mutant: deleteMany, which does not mind that the row is gone.
DeleteManyTokens(c) ==
    /\ At(c, "resetDelete")
    /\ tokens' = tokens \ Rows(calls[c].token)
    /\ GoTo(c, "resetUpdate")
    /\ UNCHANGED <<users, sessions, mail, begun, redeemed>>

\* The token is deleted before its expiry and the password are looked at: an empty
\* password, one of blanks only, cannot be hashed and the token is lost.
DeleteToken(c) ==
    /\ At(c, "resetDelete")
    /\ \E r \in Rows(calls[c].token) :
         /\ tokens' = tokens \ {r}
         /\ IF r.expired THEN Answer(c, "link")
            ELSE IF Trim[calls[c].password] = Empty THEN Answer(c, "credentials")
            ELSE GoTo(c, "resetUpdate")
    /\ UNCHANGED <<users, sessions, mail, begun, redeemed>>

\* Another call has deleted the row it found: error P2025.
DeleteNoToken(c) ==
    /\ At(c, "resetDelete")
    /\ Rows(calls[c].token) = {}
    /\ Answer(c, "error")
    /\ UNCHANGED <<users, tokens, sessions, mail, begun, redeemed>>

ResetPassword(c) ==
    /\ At(c, "resetUpdate")
    /\ SetPassword(calls[c].user, Trim[calls[c].password], TRUE)
    /\ redeemed' = redeemed \cup {calls[c].token}
    /\ Becomes(c, [calls[c] EXCEPT !.mark = users[calls[c].user].writes + 1,
                                   !.step = "resetRevoke"])
    /\ UNCHANGED <<tokens, sessions, mail, begun>>

\* A call that has verified a password of user u and has yet to open its session.
Verified(d, u) == calls[d].found = u /\ calls[d].step \in {"rehash", "create"}

\* Mutant: only the session of the request ends.
RevokeOwnSession(c) ==
    /\ At(c, "resetRevoke")
    /\ sessions' = {s \in sessions : s.handle # calls[c].session}
    /\ Becomes(c, [calls[c] EXCEPT !.step = "authFind",
                                   !.email = ParsedEmail(users[calls[c].user].email)])
    /\ UNCHANGED <<users, tokens, mail, begun, redeemed>>

\* All sessions of the user end; login follows with the user's e-mail.
RevokeSessions(c) ==
    /\ At(c, "resetRevoke")
    /\ sessions' = {s \in sessions : s.user # calls[c].user}
    /\ calls' = [d \in Calls |->
         IF d = c
         THEN [calls[c] EXCEPT !.step = "authFind",
                               !.email = ParsedEmail(users[calls[c].user].email)]
         ELSE [calls[d] EXCEPT !.raced = @ \/ Verified(d, calls[c].user)]]
    /\ UNCHANGED <<users, tokens, mail, begun, redeemed>>

(***************************************************************************)
(* changePassword, after authenticateUser.                                 *)
(***************************************************************************)

ChangePassword(c) ==
    /\ At(c, "changeUpdate")
    /\ IF calls[c].next = Empty
       THEN /\ Answer(c, "credentials")
            /\ UNCHANGED users
       ELSE /\ SetPassword(calls[c].user, calls[c].next, FALSE)
            /\ Answer(c, "ok")
    /\ UNCHANGED <<tokens, sessions, mail, begun, redeemed>>

(***************************************************************************)
(* Everything together.                                                    *)
(***************************************************************************)

\* Four hours pass.
Expire(r) ==
    /\ ~r.expired
    /\ tokens' = (tokens \ {r}) \cup {[r EXCEPT !.expired = TRUE]}
    /\ UNCHANGED <<users, sessions, mail, calls, begun, redeemed>>

Step(c) ==
    \/ Authenticate(c) \/ RejectCredentials(c) \/ Rehash(c) \/ CreateSession(c)
    \/ CreateUser(c) \/ EmailTaken(c) \/ Logout(c)
    \/ FindForgetful(c) \/ FindNobody(c) \/ DeleteTokens(c) \/ CreateToken(c)
    \/ SendMail(c) \/ FailToMail(c)
    \/ FindToken(c) \/ FindNoToken(c) \/ DeleteToken(c) \/ DeleteNoToken(c)
    \/ ResetPassword(c) \/ RevokeSessions(c) \/ ChangePassword(c)

\* The response is on its way and the call is over.
Return(c) ==
    /\ At(c, "answered")
    /\ Becomes(c, NoCall)
    /\ UNCHANGED <<users, tokens, sessions, mail, begun, redeemed>>

Mailed == {m.token : m \in mail}
Handles == {s.handle : s \in sessions}

\* What a browser may send: any text that passes the schema, the session of its
\* cookie if it has one, the token of a mail or none.
Request(c) ==
    \/ \E e \in EmailTexts, p \in Valid : StartSignup(c, e, p)
    \/ \E e \in EmailTexts, p \in PasswordTexts : StartLogin(c, e, p)
    \/ \E h \in {0} \cup Handles : StartLogout(c, h)
    \/ \E e \in EmailTexts : StartForgot(c, e)
    \/ \E t \in {0} \cup Mailed, p, q \in Valid : StartReset(c, 0, t, p, q)
    \/ \E h \in {0} \cup Handles, p \in PasswordTexts, q \in Valid : StartChange(c, h, p, q)

Next ==
    \/ \E c \in Calls : Request(c) \/ Step(c) \/ Return(c)
    \/ \E r \in tokens : Expire(r)

Spec == Init /\ [][Next]_vars

(***************************************************************************)
(* Properties                                                              *)
(***************************************************************************)

\* A reset link sets one password: two calls may find the same row, but a call
\* that goes on to the password has deleted it, and no other call has or will.
LinkWorksOnce ==
    \A c \in Calls : At(c, "resetUpdate") =>
        /\ calls[c].token \notin redeemed
        /\ Rows(calls[c].token) = {}
        /\ \A d \in Calls \ {c} :
             At(d, "resetUpdate") => calls[d].token # calls[c].token

\* Requests for one account that overlap may each leave a link behind, since each
\* deletes before any of them creates; there are never more links than calls that
\* can overlap, whatever the order.
LinksBounded ==
    \A u \in DOMAIN users :
        Cardinality({t \in tokens : t.user = u})
          + Cardinality({c \in Calls : At(c, "forgotCreate") /\ calls[c].user = u})
            <= Cardinality(Calls)

\* resetPassword logs in with what it has just stored.  The login finds the user
\* and is accepted unless another call has written the password in between, so an
\* error at that point never hides a password of the caller's that is in force.
ResetCanLogIn ==
    \A c \in Calls :
        LET call == calls[c]
        IN  (At(c, "authFind") /\ call.kind = "reset"
               /\ users[call.user].writes = call.mark)
              => \E u \in WithEmail(call.email) : u = call.user /\ Verifies(u, call.password)

Revoking(u) == \E c \in Calls : At(c, "resetRevoke") /\ calls[c].user = u

\* A session opened for a password from before a reset of its user lasts beyond
\* that reset only if it was not in the table yet when the reset revoked: its
\* call had verified the password and was on its way to the insert.
StaleSessionsRaced ==
    \A s \in sessions :
        s.proof < users[s.user].resets /\ ~Revoking(s.user) => s.raced

Claimed(c) ==
    IF calls[c].step \in {"rehash", "create", "changeUpdate"}
    THEN {[user |-> calls[c].found, password |-> calls[c].password]} ELSE {}

\* A link is open until it has set its password, also when its row is gone.
OpenLinks ==
    {[link |-> t.token, user |-> t.user] : t \in tokens}
      \cup {[link |-> calls[c].token, user |-> calls[c].user] :
              c \in {c \in Calls : At(c, "resetUpdate")}}

Promise == INSTANCE AccountPromise
    WITH Callers <- Calls, Emails <- EmailTexts, Passwords <- PasswordTexts,
         Names <- Ids,
         accounts <- [u \in DOMAIN users |-> [email |-> users[u].email,
                                              password |-> users[u].password]],
         claims <- [c \in Calls |-> Claimed(c)],
         links <- OpenLinks,
         members <- {[handle |-> s.handle, user |-> s.user] : s \in sessions}

\* However the calls interleave, a session is opened only for somebody who has
\* shown a password the account had.  A password is set by an open link of the
\* account, which that closes, or by somebody who has shown a password of the
\* account that vouches for it: login and changePassword look the password up
\* under the address in lower case (login.ts:9-10, changePassword.ts:14), sign-up
\* stores the address as typed (signup.ts:7), so where A@x and a@x are both signed
\* up, the password of a@x is what changes the password of A@x.
ImplementsPromise == Promise!Spec

(***************************************************************************)
(* What the tests and comments say and the mutations do not keep.          *)
(***************************************************************************)

\* login.ts:16, "Upgrade hashed password with a more secure hash": the upgrade
\* stores the same password with other parameters; the one it is about to store is
\* still the one in force.
RehashOnlyUpgrades ==
    \A c \in Calls :
        At(c, "rehash") => users[calls[c].found].password = calls[c].password
=============================================================================
