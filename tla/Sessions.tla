------------------------------ MODULE Sessions ------------------------------
(***************************************************************************)
(* What signing in promises: a login is begun by one browser, somebody     *)
(* signs in for it, its code is exchanged once, and it ends; as it ends it *)
(* may, once, give a session, to the browser that began it and of who      *)
(* signed in.  Nothing else gives one.  SignIn implements it, where a      *)
(* browser may open a redirect many times, with any cookies.               *)
(***************************************************************************)
CONSTANTS Browsers, Flows, Subjects, NoBrowser, NoOne

VARIABLES
    login,       \* login -> where it is, whose it is, who signed in for it
    session      \* browser -> the subject of its session

svars == <<login, session>>

SInit ==
    /\ login = [f \in Flows |-> [status |-> "new", browser |-> NoBrowser, subject |-> NoOne]]
    /\ session = [b \in Browsers |-> NoOne]

Begin(b, f) ==
    /\ login[f].status = "new"
    /\ login' = [login EXCEPT ![f].status = "begun", ![f].browser = b]
    /\ UNCHANGED session

Authorize(f, s) ==
    /\ login[f].status = "begun"
    /\ login' = [login EXCEPT ![f].status = "authorized", ![f].subject = s]
    /\ UNCHANGED session

\* The code is taken from the provider.
Exchange(f) ==
    /\ login[f].status = "authorized"
    /\ login' = [login EXCEPT ![f].status = "exchanged"]
    /\ UNCHANGED session

\* The login ends with a session.
Welcome(f) ==
    /\ login[f].status = "exchanged"
    /\ login' = [login EXCEPT ![f].status = "over"]
    /\ session' = [session EXCEPT ![login[f].browser] = login[f].subject]

\* Logins end without one: refused, lost on the way, or with the server.
Fail(F) ==
    /\ \A f \in F : login[f].status \in {"authorized", "exchanged"}
    /\ login' = [f \in Flows |-> IF f \in F THEN [login[f] EXCEPT !.status = "over"] ELSE login[f]]
    /\ UNCHANGED session

SignOut(b) ==
    /\ session' = [session EXCEPT ![b] = NoOne]
    /\ UNCHANGED login

SNext ==
    \/ \E b \in Browsers, f \in Flows : Begin(b, f)
    \/ \E f \in Flows, s \in Subjects : Authorize(f, s)
    \/ \E f \in Flows : Exchange(f) \/ Welcome(f)
    \/ \E F \in SUBSET Flows : Fail(F)
    \/ \E b \in Browsers : SignOut(b)

SSpec == SInit /\ [][SNext]_svars
=============================================================================
