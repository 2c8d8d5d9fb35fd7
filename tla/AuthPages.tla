------------------------------ MODULE AuthPages ------------------------------
(***************************************************************************)
(* The pages of the Blitz application on top of its mutations: the forms,  *)
(* the logout button, the home page, the layout of the (auth) pages and    *)
(* the cookie of the browser.  A tab shows one page; its calls run on the  *)
(* server as in AuthMutations while other tabs go on, and their answers    *)
(* come back later, to a form that is gone, or never.                      *)
(*                                                                         *)
(* The wording of alerts, the fields and their styles are left out, a      *)
(* form is the values it sends.  changePassword has no page.               *)
(***************************************************************************)
EXTENDS AuthMutations

CONSTANTS
    Tabs,       \* browser tabs
    Browsers,   \* browsers, each with one cookie jar
    BrowserOf,  \* the browser of a tab
    Visited,    \* bound: the pages a tab is taken to, "home" among them
    Nobody      \* no tab, no call

\* The calls that open a session.
SignIns == {"login", "signup", "reset"}
Forms == {"login", "signup", "forgot", "reset"}

ASSUME PagesAssumption ==
    /\ BrowserOf \in [Tabs -> Browsers]
    /\ Visited \in [Tabs -> SUBSET (Forms \cup {"home"})]
    /\ Nobody \notin Tabs \cup Calls

VARIABLES
    jar,       \* per browser the session handle of its cookie, 0 without one
    pages,     \* per tab the page it shows
    sender,    \* per call the tab that hears its answer, and its page's base
    lost,      \* history: the sign-ins whose answer no tab has heard
    replaced   \* history: the handles an answer to an outdated page replaced

pageVars == <<jar, pages, sender, lost, replaced>>
allVars == <<vars, pageVars>>

Alerts == {"none", "credentials", "link", "unexpected"}

(***************************************************************************)
(* base is the cookie the page was rendered for, seen on the home page the *)
(* one of the last render or answer of the tab.  waiting is the call of the  *)
(* mounted form (isSubmitting), success is isSuccess of useMutation,       *)
(* moving what the router has under way: a refresh of the page that is     *)
(* shown, or the way to the home page.                                     *)
(***************************************************************************)

Ways == {"none", "refresh", "home"}

Page ==
    [at : Forms \cup {"home"}, link : 0..MaxCalls, shown : {0} \cup UserIds,
     base : 0..MaxCalls, seen : 0..MaxCalls, waiting : Calls \cup {Nobody},
     moving : Ways, success : BOOLEAN, taken : BOOLEAN, alert : Alerts]

\* The types, and what a page cannot show: a submission whose answer goes to
\* somebody else, a success of a form that leaves its page when it succeeds, an
\* e-mail in use on another form than signup, a result on the home page.
PagesTypeOK ==
    /\ jar \in [Browsers -> 0..MaxCalls]
    /\ pages \in [Tabs -> Page]
    /\ sender \in [Calls -> [tab : Tabs \cup {Nobody}, base : 0..MaxCalls]]
    /\ lost \subseteq Ids /\ replaced \subseteq Ids
    /\ \A t \in Tabs :
         LET page == pages[t]
         IN  /\ page.waiting # Nobody => sender[page.waiting].tab = t
             /\ page.success => page.at \in {"forgot", "reset"}
             /\ page.taken => page.at = "signup"
             /\ page.alert = "credentials" => page.at = "login"
             /\ page.at = "home" => page.alert = "none" /\ page.waiting = Nobody

(***************************************************************************)
(* Rendering on the server.                                                *)
(***************************************************************************)

\* getCurrentUser: the user of a session that is alive, null without one.
CurrentUser(h) == IF LiveUser(h) = {} THEN 0 ELSE CHOOSE u \in LiveUser(h) : TRUE

Rendered(at, link, h) ==
    [at |-> at, link |-> link, shown |-> IF at = "home" THEN CurrentUser(h) ELSE 0,
     base |-> h, seen |-> h, waiting |-> Nobody, moving |-> "none",
     success |-> FALSE, taken |-> FALSE, alert |-> "none"]

\* Mutant: the (auth) pages are rendered for everybody.
NoLayout(at, link, h) == Rendered(at, link, h)

\* AuthLayout, redirectAuthenticatedTo "/"; the home page is not below it.
AuthLayout(at, link, h) ==
    IF at # "home" /\ LiveUser(h) # {} THEN Rendered("home", 0, h)
    ELSE Rendered(at, link, h)

PagesInit ==
    /\ jar = [b \in Browsers |-> 0]
    /\ pages = [t \in Tabs |-> Rendered("home", 0, 0)]
    /\ sender = [c \in Calls |-> [tab |-> Nobody, base |-> 0]]
    /\ lost = {} /\ replaced = {}

Cookie(t) == jar[BrowserOf[t]]
Heard(t) == {c \in Calls : sender[c].tab = t}

\* Calls that no tab listens to any more; they go on on the server.
Abandon(cs) ==
    /\ sender' = [c \in Calls |-> IF c \in cs THEN [sender[c] EXCEPT !.tab = Nobody]
                                               ELSE sender[c]]
    /\ lost' = lost \cup {calls[c].id : c \in {c \in cs : calls[c].kind \in SignIns}}

\* An address is typed, the page is reloaded or the link of a mail is clicked: the
\* answers under way are not heard.
Load(t) ==
    /\ \/ \E at \in Visited[t] \ {"reset"} :
            pages' = [pages EXCEPT ![t] = AuthLayout(at, 0, Cookie(t))]
       \/ \E link \in {0} \cup Mailed :
            /\ "reset" \in Visited[t]
            /\ pages' = [pages EXCEPT ![t] = AuthLayout("reset", link, Cookie(t))]
    /\ Abandon(Heard(t))
    /\ UNCHANGED <<vars, jar, replaced>>

\* The links of a page.  Between (auth) pages the layout stays as it is; the form is
\* left, its call goes on and is heard.
Links(page) ==
    CASE page.at = "home" -> IF page.shown = 0 THEN {"signup", "login"} ELSE {}
      [] page.at = "login" -> {"signup", "forgot"}
      [] page.at = "reset" -> IF page.success THEN {"home"} ELSE {}
      [] OTHER -> {}

Follow(t) ==
    /\ \E at \in Links(pages[t]) \cap Visited[t] :
         pages' = [pages EXCEPT ![t] =
            IF pages[t].at = "login"
            THEN Rendered(at, 0, @.base)
            ELSE AuthLayout(at, 0, Cookie(t))]
    /\ UNCHANGED <<vars, jar, sender, lost, replaced>>

\* The layout renders an (auth) page once more: its form stays as it is.
Refreshed(page, h) ==
    IF page.at = "home" \/ LiveUser(h) # {} THEN Rendered("home", 0, h)
    ELSE [page EXCEPT !.base = h, !.moving = "none"]

\* router.refresh or router.push("/") is done.
Arrive(t) ==
    /\ pages[t].moving # "none"
    /\ pages' = [pages EXCEPT ![t] =
         IF @.moving = "home" THEN Rendered("home", 0, Cookie(t))
         ELSE Refreshed(@, Cookie(t))]
    /\ UNCHANGED <<vars, jar, sender, lost, replaced>>

(***************************************************************************)
(* Submitting: the button is disabled while the form waits, not while its  *)
(* page is on the way out.  formError stays, the errors of fields go.      *)
(***************************************************************************)

Submitting(t, c, at) ==
    /\ pages[t].at = at /\ pages[t].waiting = Nobody /\ ~pages[t].success
    /\ pages' = [pages EXCEPT ![t].waiting = c, ![t].taken = FALSE]
    /\ sender' = [sender EXCEPT ![c] = [tab |-> t, base |-> pages[t].base]]
    /\ UNCHANGED <<jar, lost, replaced>>

SubmitLogin(t, c) ==
    /\ Submitting(t, c, "login")
    /\ \E e \in EmailTexts, p \in PasswordTexts : StartLogin(c, e, p)

SubmitSignup(t, c) ==
    /\ Submitting(t, c, "signup")
    /\ \E e \in EmailTexts, p \in Valid : StartSignup(c, e, p)

SubmitForgot(t, c) ==
    /\ Submitting(t, c, "forgot")
    /\ \E e \in EmailTexts : StartForgot(c, e)

SubmitReset(t, c) ==
    /\ Submitting(t, c, "reset")
    /\ \E p, q \in Valid : StartReset(c, Cookie(t), pages[t].link, p, q)

\* Nothing keeps the button from being clicked again.
ClickLogout(t, c) ==
    /\ pages[t].at = "home" /\ pages[t].shown # 0
    /\ StartLogout(c, Cookie(t))
    /\ sender' = [sender EXCEPT ![c] = [tab |-> t, base |-> pages[t].base]]
    /\ UNCHANGED <<jar, pages, lost, replaced>>

(***************************************************************************)
(* The answer of a call, or what the tab takes for it.                     *)
(***************************************************************************)

\* Mutant: the name of the error.
ErrorName(kind, answer) == IF answer = "ok" THEN "none" ELSE answer

\* What the catch of each form makes of an error.
LoginAlert(error) == IF error = "credentials" THEN "credentials" ELSE "unexpected"
\* An e-mail in use is an error of its field.
SignupAlert(error) == IF error = "taken" THEN "none" ELSE "unexpected"
ForgotAlert(error) == "unexpected"
ResetAlert(error) == IF error = "link" THEN "link" ELSE "unexpected"

\* The alert a form sets; the logout button has none.
AlertOf(kind, answer) ==
    CASE answer = "ok" -> "none"
      [] answer # "ok" /\ kind = "login" -> LoginAlert(answer)
      [] answer # "ok" /\ kind = "signup" -> SignupAlert(answer)
      [] answer # "ok" /\ kind = "forgot" -> ForgotAlert(answer)
      [] OTHER -> ResetAlert(answer)

\* Mutant: whatever the answer was.
Settles(kind, answer) == kind \in {"forgot", "reset"}

\* isSuccess of useMutation.
Succeeds(kind, answer) == answer = "ok" /\ kind \in {"forgot", "reset"}

\* Mutant: the logout button does not refresh.
MovesFromForms(moving, kind, answer) ==
    IF answer = "ok" /\ kind \in {"login", "signup"} THEN "home" ELSE moving

\* The two forms refresh and push "/", the logout button refreshes where it is.
Moves(moving, kind, answer) ==
    IF answer = "ok" /\ kind \in {"login", "signup"} THEN "home"
    ELSE IF answer = "ok" /\ kind = "logout" /\ moving = "none" THEN "refresh"
    ELSE moving

\* What the form shows if it is still there; an alert stays until another one.
Settled(page, kind, answer) ==
    [page EXCEPT !.waiting = Nobody,
                 !.success = Succeeds(kind, answer),
                 !.taken = kind = "signup" /\ answer = "taken",
                 !.alert = IF AlertOf(kind, answer) = "none" THEN @
                                                           ELSE AlertOf(kind, answer)]

SetsCookie(call) ==
    call.answer = "ok" /\ call.kind \in SignIns \cup {"logout"}

NewCookie(call) == IF call.kind = "logout" THEN 0 ELSE call.id

Receive(t, c) ==
    LET call == calls[c]
        form == IF pages[t].waiting = c
                THEN Settled(pages[t], call.kind, call.answer) ELSE pages[t]
        page == [form EXCEPT !.moving = Moves(@, call.kind, call.answer)]
    IN  /\ sender[c].tab = t
        /\ At(c, "answered")
        /\ IF SetsCookie(call)
           THEN /\ jar' = [jar EXCEPT ![BrowserOf[t]] = NewCookie(call)]
                /\ pages' = [pages EXCEPT ![t] =
                     [page EXCEPT !.seen = IF page.at = "home" THEN NewCookie(call) ELSE @]]
                /\ replaced' = replaced \cup ({Cookie(t)} \ {sender[c].base, 0})
           ELSE /\ pages' = [pages EXCEPT ![t] = page]
                /\ UNCHANGED <<jar, replaced>>
        /\ sender' = [sender EXCEPT ![c].tab = Nobody]
        /\ Becomes(c, NoCall)
        /\ UNCHANGED <<users, tokens, sessions, mail, begun, redeemed, lost>>

\* The connection breaks, the call goes on.  The catch of a form takes it for an
\* unexpected error, the logout button has no catch.
LoseConnection(t, c) ==
    /\ sender[c].tab = t
    /\ pages' = [pages EXCEPT ![t] =
         IF pages[t].waiting = c THEN Settled(@, calls[c].kind, "error") ELSE @]
    /\ Abandon({c})
    /\ UNCHANGED <<vars, jar, replaced>>

(***************************************************************************)
(* Everything together.                                                    *)
(***************************************************************************)

ServerStep(c) == Step(c) /\ UNCHANGED pageVars

\* The response of a call that nobody listens to is dropped.
DropAnswer(c) == sender[c].tab = Nobody /\ Return(c) /\ UNCHANGED pageVars

TabStep(t) ==
    \/ Load(t) \/ Follow(t) \/ Arrive(t)
    \/ \E c \in Calls :
         \/ SubmitLogin(t, c) \/ SubmitSignup(t, c) \/ SubmitForgot(t, c)
         \/ SubmitReset(t, c) \/ ClickLogout(t, c)
         \/ Receive(t, c) \/ LoseConnection(t, c)

PagesNext ==
    \/ \E t \in Tabs : TabStep(t)
    \/ \E c \in Calls : ServerStep(c) \/ DropAnswer(c)
    \/ \E r \in tokens : Expire(r) /\ UNCHANGED pageVars

PagesInitAll == Init /\ PagesInit

Answering(c) == \E t \in Tabs : Receive(t, c)

\* The event loop of the server runs every call on, an answer that was sent arrives
\* if its connection holds, and the router finishes what it has begun.  Nobody has
\* to click, load, lose a connection or let a token expire.
Fairness ==
    /\ \A c \in Calls : WF_allVars(ServerStep(c)) /\ WF_allVars(Answering(c))
    /\ \A t \in Tabs : WF_allVars(Arrive(t))

PagesSpec == PagesInitAll /\ [][PagesNext]_allVars /\ Fairness

(***************************************************************************)
(* Properties                                                              *)
(***************************************************************************)

\* "Password Reset Successfully" is shown for a link that has set a password: not
\* for one that was used, withdrawn or expired, whatever was retried or lost.
SuccessIsReal ==
    \A t \in Tabs :
        pages[t].at = "reset" /\ pages[t].success => pages[t].link \in redeemed

\* A browser that opens a session leaves no other behind.  A session that is in no
\* jar and on its way to none is there because its answer was lost, or because
\* its cookie was replaced by the answer to a page that had been rendered for
\* another cookie, in another tab or before the form was sent twice.
OrphansAreStale ==
    \A h \in Handles :
        \/ \E b \in Browsers : jar[b] = h
        \/ \E c \in Calls : calls[c].id = h /\ sender[c].tab # Nobody
        \/ h \in lost \cup replaced

\* The home page keeps up with its own tab: unless another tab has changed the
\* cookie since, it shows nobody after a logout and, as long as the session of
\* the cookie lives, its user after a login.
HomeIsCurrent ==
    \A t \in Tabs :
        LET page == pages[t]
        IN  page.at = "home" /\ page.moving = "none" /\ page.seen = Cookie(t) =>
              /\ Cookie(t) = 0 => page.shown = 0
              /\ LiveUser(Cookie(t)) # {} => page.shown \in LiveUser(Cookie(t))

\* A form that waits stops waiting and a page on its way out leaves.
AnswersArrive ==
    \A t \in Tabs :
        /\ pages[t].waiting # Nobody ~> pages[t].waiting = Nobody
        /\ pages[t].moving # "none" ~> pages[t].moving = "none"
=============================================================================
