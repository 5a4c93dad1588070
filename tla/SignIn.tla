------------------------------- MODULE SignIn -------------------------------
(***************************************************************************)
(* Signing in (modules/authflow): Login, the provider's page, Callback and *)
(* the cookies of a browser, in which several tabs may sign in at a time.  *)
(* The login in progress is kept in three cookies of the browser (state,   *)
(* nonce, code verifier), the session in another; Callback exchanges the   *)
(* code, validates the token (KeyCache), finds or creates the identity and *)
(* seals the session.                                                      *)
(***************************************************************************)
EXTENDS KeyCache

CONSTANTS
    Browsers,
    Flows,       \* logins, each with its random state, nonce and code verifier
    Subjects,    \* people at the provider
    NoBrowser, NoFlow, NoOne

ASSUME SignInAssumption ==
    NoBrowser \notin Browsers /\ NoFlow \notin Flows /\ NoOne \notin Subjects

VARIABLES
    jar,         \* browser -> its cookies: the login in progress and the session
    flow,        \* login -> where it is, its browser, who signed in
    call,        \* request -> a callback being handled
    identities   \* subjects with a row of identities

web == <<jar, flow, call, identities>>
vars == <<web, kvars>>

\* disturbed: the browser lost the cookies of this login to another login, to the
\* callback of another one or to their age.
Flow == [stage: {"new", "begun", "authorized", "spent"}, browser: Browsers \cup {NoBrowser},
         subject: Subjects \cup {NoOne}, disturbed: BOOLEAN]
\* The login of the URL, the login of the cookies that came with it, the token's subject.
Call == [at: {"none", "exchanging", "validating", "identifying", "welcomed", "mismatch", "refused"},
         browser: Browsers \cup {NoBrowser}, flow: Flows \cup {NoFlow},
         cookies: Flows \cup {NoFlow}, subject: Subjects \cup {NoOne}]
Jar == [login: Flows \cup {NoFlow}, session: Subjects \cup {NoOne}]

NoCall == [at |-> "none", browser |-> NoBrowser, flow |-> NoFlow, cookies |-> NoFlow,
           subject |-> NoOne]

TypeOK ==
    /\ KTypeOK
    /\ jar \in [Browsers -> Jar]
    /\ flow \in [Flows -> Flow]
    /\ call \in [Requests -> Call]
    /\ identities \subseteq Subjects

Init ==
    /\ KInit
    /\ jar = [b \in Browsers |-> [login |-> NoFlow, session |-> NoOne]]
    /\ flow = [f \in Flows |-> [stage |-> "new", browser |-> NoBrowser,
                                subject |-> NoOne, disturbed |-> FALSE]]
    /\ call = [r \in Requests |-> NoCall]
    /\ identities = {}

Disturbed(f) ==
    [g \in Flows |-> IF g = f THEN [stage |-> flow[g].stage, browser |-> flow[g].browser,
                                    subject |-> flow[g].subject, disturbed |-> TRUE]
                     ELSE flow[g]]

GoTo(r, place) == call' = [call EXCEPT ![r].at = place]

-----------------------------------------------------------------------------
\* The browser and the provider.

\* Login answers with the cookies of a new login, in place of those of another.
Login(b, f) ==
    /\ flow[f].stage = "new"
    /\ flow' = [Disturbed(jar[b].login) EXCEPT ![f].stage = "begun", ![f].browser = b]
    /\ jar' = [jar EXCEPT ![b].login = f]
    /\ UNCHANGED <<call, identities, kvars>>

\* Somebody signs in on the provider's page, which redirects with a code.
Authorize(f, s) ==
    /\ flow[f].stage = "begun"
    /\ flow' = [flow EXCEPT ![f].stage = "authorized", ![f].subject = s]
    /\ UNCHANGED <<jar, call, identities, kvars>>

\* The cookies of a login are dropped after oauthCookieTTL.
ExpireLogin(b) ==
    /\ jar[b].login # NoFlow
    /\ flow' = Disturbed(jar[b].login)
    /\ jar' = [jar EXCEPT ![b].login = NoFlow]
    /\ UNCHANGED <<call, identities, kvars>>

\* The session ends with its token, or by Logout, which clears the cookie only.
EndSession(b) ==
    /\ jar[b].session # NoOne
    /\ jar' = [jar EXCEPT ![b].session = NoOne]
    /\ UNCHANGED <<flow, call, identities, kvars>>

-----------------------------------------------------------------------------
\* Callback.

\* A browser opens the redirect, perhaps not for the first time, perhaps a browser
\* that did not begin the login; the request carries the cookies of that moment.
Callback(r, b, f) ==
    /\ call[r].at = "none"
    /\ flow[f].stage \in {"authorized", "spent"}
    /\ call' = [call EXCEPT ![r] =
                   [at |-> IF jar[b].login = f THEN "exchanging" ELSE "mismatch",
                    browser |-> b, flow |-> f, cookies |-> jar[b].login, subject |-> NoOne]]
    /\ UNCHANGED <<jar, flow, identities, kvars>>

\* Mutation: a code may be exchanged again.
RedeemsAgain(r) == call[r].cookies = call[r].flow

\* The provider takes a code once, with the verifier of the login it was issued for.
Redeems(r) ==
    flow[call[r].flow].stage = "authorized" /\ call[r].cookies = call[r].flow

Spend(f) == flow' = [flow EXCEPT ![f].stage = "spent"]

\* The claims of the token: its subject is who signed in.
Claimed(f) == flow[f].subject

\* ExchangeCode and the token it returns, signed by a published key.
Exchange(r) ==
    LET f == call[r].flow IN
    /\ call[r].at = "exchanging"
    /\ Redeems(r) /\ Spend(f)
    /\ \E k \in published \cap Usable : Look(r, k)
    /\ call' = [call EXCEPT ![r].at = "validating", ![r].subject = Claimed(f)]
    /\ UNCHANGED <<jar, identities>>

\* The code is refused, its exchange or its answer is lost, or the validator cannot
\* discover the provider.
ExchangeFails(r) ==
    LET f == call[r].flow IN
    /\ call[r].at = "exchanging"
    /\ UNCHANGED flow \/ (Redeems(r) /\ Spend(f))
    /\ GoTo(r, "refused")
    /\ UNCHANGED <<jar, identities, kvars>>

Validate(r) == (Lock(r) \/ Fetch(r)) /\ UNCHANGED web

\* The token is valid, with the nonce of the cookies, or it is refused: for its key,
\* for its age, or because the key could not be fetched.
Validated(r) ==
    /\ Forget(r)
    /\ \/ /\ check[r].at = "found"
          /\ call[r].cookies = call[r].flow
          /\ GoTo(r, "identifying")
       \/ GoTo(r, "refused")
    /\ UNCHANGED <<jar, flow, identities>>

\* normalizeUser: who the session will be of.
User(r) == call[r].subject

IdentifyOrGoOn(r) ==
    /\ call[r].at = "identifying"
    /\ GoTo(r, "welcomed")
    /\ identities' \in {identities, identities \cup {User(r)}}
    /\ UNCHANGED <<jar, flow, kvars>>

\* FindOrCreateIdentity, which may fail after its insert.
Identify(r) ==
    /\ call[r].at = "identifying"
    /\ \/ GoTo(r, "welcomed") /\ identities' = identities \cup {User(r)}
       \/ /\ GoTo(r, "refused")
          /\ identities' \in {identities, identities \cup {User(r)}}
    /\ UNCHANGED <<jar, flow, kvars>>

Answered(r) == call' = [call EXCEPT ![r] = NoCall]

\* The browser stores the session and drops the cookies of the login, those of a
\* login begun meanwhile as well.
Welcome(r) ==
    LET b == call[r].browser IN
    /\ call[r].at = "welcomed"
    /\ flow' = IF jar[b].login = call[r].flow THEN flow ELSE Disturbed(jar[b].login)
    /\ jar' = [jar EXCEPT ![b] = [login |-> NoFlow, session |-> User(r)]]
    /\ Answered(r)
    /\ UNCHANGED <<identities, kvars>>

RefuseAndClear(r) ==
    /\ call[r].at \in {"mismatch", "refused"}
    /\ jar' = [jar EXCEPT ![call[r].browser].login = NoFlow]
    /\ Answered(r)
    /\ UNCHANGED <<flow, identities, kvars>>

\* An error is answered without a cookie.
Refuse(r) ==
    /\ call[r].at \in {"mismatch", "refused"}
    /\ Answered(r)
    /\ UNCHANGED <<jar, flow, identities, kvars>>

\* The answer does not reach the browser.
Lose(r) ==
    /\ call[r].at = "welcomed"
    /\ Answered(r)
    /\ UNCHANGED <<jar, flow, identities, kvars>>

RestartServer ==
    /\ Restart
    /\ call' = [r \in Requests |-> NoCall]
    /\ UNCHANGED <<jar, flow, identities>>

Advance(r) ==
    \/ Exchange(r) \/ ExchangeFails(r)
    \/ Validate(r) \/ Validated(r) \/ Identify(r)
    \/ Welcome(r) \/ Lose(r) \/ Refuse(r)

Browse ==
    \/ \E b \in Browsers, f \in Flows : Login(b, f)
    \/ \E f \in Flows, s \in Subjects : Authorize(f, s)
    \/ \E b \in Browsers : ExpireLogin(b) \/ EndSession(b)

Next ==
    \/ Browse
    \/ \E r \in Requests, b \in Browsers, f \in Flows : Callback(r, b, f)
    \/ \E r \in Requests : Advance(r)
    \/ Rotate /\ UNCHANGED web
    \/ RestartServer

Spec == Init /\ [][Next]_vars

-----------------------------------------------------------------------------
\* Properties.

\* A session is of the person who signed in on the provider's page for a login that
\* this very browser began, whose code was exchanged, and who has an identity:
\* callbacks of other tabs, replayed redirects and redirects opened in another
\* browser do not change that.
SessionOfItsLogin ==
    \A b \in Browsers :
        jar[b].session # NoOne =>
            /\ jar[b].session \in identities
            /\ \E f \in Flows :
                 /\ flow[f].browser = b /\ flow[f].stage = "spent"
                 /\ flow[f].subject = jar[b].session

\* A browser that comes back to its own login is told of a mismatched state only if
\* it lost the cookies meanwhile to another tab or to time, or the login has been
\* through an exchange.
MismatchExplained ==
    \A r \in Requests :
        LET c == call[r] IN
        c.at = "mismatch" /\ flow[c.flow].browser = c.browser =>
            flow[c.flow].disturbed \/ flow[c.flow].stage = "spent"

\* The cookies of a login are in the browser that began it, until they are lost or used.
CookiesAt(b) ==
    LET f == jar[b].login IN f # NoFlow => flow[f].stage # "new" /\ flow[f].browser = b

LoginAt(f) ==
    /\ flow[f].stage # "new" => flow[f].browser \in Browsers
    /\ flow[f].stage \in {"authorized", "spent"} => flow[f].subject \in Subjects
    /\ flow[f].stage \in {"begun", "authorized"} =>
         flow[f].disturbed \/ jar[flow[f].browser].login = f

\* A callback past the check of its state is of a login of its browser, and past the
\* exchange of the person who signed in.
CallAt(r) ==
    LET c == call[r] IN
    /\ c.at # "none" =>
         /\ c.browser \in Browsers /\ c.flow \in Flows
         /\ flow[c.flow].stage \in {"authorized", "spent"}
    /\ c.at \in {"exchanging", "validating", "identifying", "welcomed"} =>
         c.cookies = c.flow /\ flow[c.flow].browser = c.browser
    /\ c.at \in {"validating", "identifying", "welcomed"} =>
         flow[c.flow].stage = "spent" /\ c.subject = flow[c.flow].subject
    /\ c.at = "welcomed" => c.subject \in identities
    /\ check[r].at # "none" <=> c.at = "validating"

\* The inductive invariant of the proofs.
IInv ==
    /\ TypeOK
    /\ KInv
    /\ SessionOfItsLogin
    /\ MismatchExplained
    /\ \A b \in Browsers : CookiesAt(b)
    /\ \A f \in Flows : LoginAt(f)
    /\ \A r \in Requests : CallAt(r)

-----------------------------------------------------------------------------
\* The abstract specification.

\* Between the exchange of the code and the answer.
Exchanged(r) == call[r].at \in {"validating", "identifying", "welcomed"}

\* A code is exchanged by one callback, whatever redirects are opened again.
OneExchangePerLogin ==
    \A r, q \in Requests :
        Exchanged(r) /\ Exchanged(q) /\ call[r].flow = call[q].flow => r = q

SInv == IInv /\ OneExchangePerLogin

Status(f) ==
    IF flow[f].stage # "spent" THEN flow[f].stage
    ELSE IF \E r \in Requests : Exchanged(r) /\ call[r].flow = f THEN "exchanged" ELSE "over"

LoginOf(f) == [status |-> Status(f), browser |-> flow[f].browser, subject |-> flow[f].subject]

AbstractLogin == [f \in Flows |-> LoginOf(f)]
AbstractSession == [b \in Browsers |-> jar[b].session]

Promise == INSTANCE Sessions WITH login <- AbstractLogin, session <- AbstractSession

\* A login gives at most one session, to the browser that began it and of who
\* signed in for it: replayed redirects, those opened in another browser, tabs that
\* take each other's cookies, lost answers and restarts give none.
ImplementsSessions == Promise!SSpec
=============================================================================
