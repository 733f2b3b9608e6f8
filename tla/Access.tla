------------------------------- MODULE Access -------------------------------
(* Accounts, sessions and the tabs of one browser, which share its cookie.                             *)
(*                                                                                                     *)
(* Signing in with an unknown address makes a customer and its user. Each statement runs on its own,   *)
(* except that those two rows are written in one transaction. The middleware looks at the cookie's     *)
(* presence only, the routes at the session behind it.                                                 *)
EXTENDS Naturals, FiniteSets

CONSTANTS
  Emails,     \* addresses
  Staff,      \* those that have an account from the start
  Tabs,       \* the tabs of the browser
  MaxTokens,  \* bounds the sessions
  MaxFaults   \* bounds the statements that fail and the answers that get lost

VARIABLES
  user,      \* Emails -> "none", "active" or "inactive"
  customers, \* the customers made on sign-in: [email, tab], by the tab whose request made them
  tiers,     \* the number of customer tiers, as far as anybody asks: 0 or 1
  session,   \* the tokens with a session row, with the address they are for
  made,      \* the number of tokens handed out
  cookie,    \* the browser's token, or 0
  tab,       \* the tabs: what they show, and the request they wait for
  faults, unheard \* the tokens whose sign-out was done but not heard of (history)
vars == <<user, customers, tiers, session, made, cookie, tab, faults, unheard>>

AccessAssumption == /\ IsFiniteSet(Tabs)
                    /\ "nobody" \notin Emails
                    /\ MaxTokens \in Nat /\ MaxFaults \in Nat

\* A tab shows the sign-in form, or another page with the user that page loaded, or as yet nobody.
Showing(page, who) == [page |-> page, who |-> who, pc |-> "rest"]
Nobody == "nobody"
Tokens == {s.token : s \in session}

Init ==
  /\ user = [e \in Emails |-> IF e \in Staff THEN "active" ELSE "none"]
  /\ customers = {}
  /\ tiers = 0
  /\ session = {}
  /\ made = 0
  /\ cookie = 0
  /\ tab = [t \in Tabs |-> Showing("login", Nobody)]
  /\ faults = 0
  /\ unheard = {}

\* Whom a token stands for. An expired session goes with its cookie: see Expire.
SessionUser(token) ==
  LET owners == {s.email : s \in {x \in session : x.token = token /\ user[x.email] = "active"}} IN
  IF owners = {} THEN Nobody ELSE CHOOSE e \in owners : TRUE

-----------------------------------------------------------------------------
(* Signing in.                                                                                         *)

\* Requests that may still get a session; for the bound only.
Pending == {"find", "tier", "newtier", "provision", "session"}
SubmitLogin(t) ==
  /\ tab[t].pc = "rest" /\ tab[t].page = "login"
  /\ made + Cardinality({u \in Tabs : tab[u].pc \in Pending}) < MaxTokens
  /\ \E e \in Emails : tab' = [tab EXCEPT ![t] = [page |-> "login", who |-> Nobody, pc |-> "find", email |-> e]]
  /\ UNCHANGED <<user, customers, tiers, session, made, cookie, faults, unheard>>

At(t, pc) == tab[t].pc = pc
GoOn(t, pc) == tab' = [tab EXCEPT ![t].pc = pc]

\* A known address must be active and its password right; an unknown one gets an account.
FindUser(t) ==
  /\ At(t, "find")
  /\ CASE user[tab[t].email] = "none" -> GoOn(t, "tier")
       [] user[tab[t].email] = "inactive" -> GoOn(t, "refused")
       [] OTHER -> \E pc \in {"session", "refused"} : GoOn(t, pc)
  /\ UNCHANGED <<user, customers, tiers, session, made, cookie, faults, unheard>>

\* The first tier, or a new one. Its name is unique: of two requests that found none, one fails.
FindTier(t) ==
  /\ At(t, "tier")
  /\ GoOn(t, IF tiers = 0 THEN "newtier" ELSE "provision")
  /\ UNCHANGED <<user, customers, tiers, session, made, cookie, faults, unheard>>
CreateTier(t) ==
  /\ At(t, "newtier")
  /\ GoOn(t, IF tiers = 0 THEN "provision" ELSE "refused")
  /\ tiers' = 1
  /\ UNCHANGED <<user, customers, session, made, cookie, faults, unheard>>

\* Fault: the customer stays although its user could not be made.
ProvisionApart(t) ==
  /\ At(t, "provision")
  /\ LET e == tab[t].email IN
     /\ customers' = customers \cup {[email |-> e, tab |-> t]}
     /\ IF user[e] = "none" THEN user' = [user EXCEPT ![e] = "active"] /\ GoOn(t, "session")
        ELSE UNCHANGED user /\ GoOn(t, "refused")
  /\ UNCHANGED <<tiers, session, made, cookie, faults, unheard>>
\* The customer and its user. The address may have got a user since it was looked for.
Provision(t) ==
  /\ At(t, "provision")
  /\ LET e == tab[t].email IN
     IF user[e] = "none"
     THEN /\ customers' = customers \cup {[email |-> e, tab |-> t]}
          /\ user' = [user EXCEPT ![e] = "active"]
          /\ GoOn(t, "session")
     ELSE UNCHANGED <<customers, user>> /\ GoOn(t, "refused")
  /\ UNCHANGED <<tiers, session, made, cookie, faults, unheard>>

CreateSession(t) ==
  /\ At(t, "session")
  /\ made' = made + 1
  /\ session' = session \cup {[token |-> made + 1, email |-> tab[t].email]}
  /\ tab' = [tab EXCEPT ![t] = [page |-> "login", who |-> Nobody, pc |-> "granted", token |-> made + 1]]
  /\ UNCHANGED <<user, customers, tiers, cookie, faults, unheard>>

\* The answer sets the cookie, and the tab goes on to its landing page.
LoginAnswer(t) ==
  /\ At(t, "granted")
  /\ cookie' = tab[t].token
  /\ tab' = [tab EXCEPT ![t] = Showing("inside", Nobody)]
  /\ UNCHANGED <<user, customers, tiers, session, made, faults, unheard>>
LoginRefused(t) ==
  /\ At(t, "refused")
  /\ tab' = [tab EXCEPT ![t] = Showing("login", Nobody)]
  /\ UNCHANGED <<user, customers, tiers, session, made, cookie, faults, unheard>>

-----------------------------------------------------------------------------
(* Pages.                                                                                              *)

\* Where the middleware sends a visit.
Visited(page, c) == IF page = "login" /\ c # 0 THEN "inside" ELSE IF c = 0 THEN "login" ELSE page
Visit(t) ==
  /\ At(t, "rest")
  /\ \E page \in {"login", "inside"} : tab' = [tab EXCEPT ![t] = Showing(Visited(page, cookie), Nobody)]
  /\ UNCHANGED <<user, customers, tiers, session, made, cookie, faults, unheard>>

\* A page asks who is signed in, once.
CurrentUser(t) ==
  /\ At(t, "rest") /\ tab[t].page = "inside" /\ tab[t].who = Nobody
  /\ tab' = [tab EXCEPT ![t].who = SessionUser(cookie)]
  /\ UNCHANGED <<user, customers, tiers, session, made, cookie, faults, unheard>>

\* The button is there for whom the page shows as signed in. The request carries the cookie as it is
\* then, which may be another user's by now.
SignOut(t) ==
  /\ At(t, "rest") /\ tab[t].who # Nobody
  /\ tab' = [tab EXCEPT ![t] = [page |-> "inside", who |-> @.who, pc |-> "leaving", token |-> cookie]]
  /\ UNCHANGED <<user, customers, tiers, session, made, cookie, faults, unheard>>
DestroySession(t) ==
  /\ At(t, "leaving")
  /\ session' = {s \in session : s.token # tab[t].token}
  /\ GoOn(t, "out")
  /\ UNCHANGED <<user, customers, tiers, made, cookie, faults, unheard>>

\* Fault: the route deletes the session and leaves the cookie.
LogoutAnswerCookieKept(t) ==
  /\ At(t, "out")
  /\ tab' = [tab EXCEPT ![t] = Showing(Visited("login", cookie), Nobody)]
  /\ UNCHANGED <<user, customers, tiers, session, made, cookie, faults, unheard>>
\* The answer takes the cookie away, whatever it is by then.
LogoutAnswer(t) ==
  /\ At(t, "out")
  /\ cookie' = 0
  /\ tab' = [tab EXCEPT ![t] = Showing("login", Nobody)]
  /\ UNCHANGED <<user, customers, tiers, session, made, faults, unheard>>

\* A statement fails or an answer is lost. A tab that signed out goes to the form all the same.
Fail(t) ==
  /\ tab[t].pc # "rest"
  /\ faults < MaxFaults
  /\ faults' = faults + 1
  /\ unheard' = IF At(t, "out") THEN unheard \cup {tab[t].token} ELSE unheard
  /\ tab' = [tab EXCEPT ![t] = Showing(IF tab[t].pc \in {"leaving", "out"} THEN Visited("login", cookie) ELSE "login", Nobody)]
  /\ UNCHANGED <<user, customers, tiers, session, made, cookie>>

-----------------------------------------------------------------------------
(* Elsewhere.                                                                                          *)

\* An administrator makes an account for an address that has none, or bars one and lets it in again.
CreateUser(e) == user[e] = "none" /\ user' = [user EXCEPT ![e] = "active"]
DeleteUser(e) == user[e] # "none" /\ user' = [user EXCEPT ![e] = "inactive"]
UpdateUser(e) == user[e] # "none" /\ user' = [user EXCEPT ![e] = "active"]
Administer ==
  /\ \E e \in Emails : CreateUser(e) \/ DeleteUser(e) \/ UpdateUser(e)
  /\ UNCHANGED <<customers, tiers, session, made, cookie, tab, faults, unheard>>

\* A session and its cookie have the same date, and no request in flight carries it.
Expire ==
  /\ \E k \in Tokens :
       /\ session' = {s \in session : s.token # k}
       /\ cookie' = IF cookie = k THEN 0 ELSE cookie
       /\ \A t \in Tabs : "token" \in DOMAIN tab[t] => tab[t].token # k
  /\ UNCHANGED <<user, customers, tiers, made, tab, faults, unheard>>

Next ==
  \/ \E t \in Tabs :
       \/ SubmitLogin(t) \/ FindUser(t) \/ FindTier(t) \/ CreateTier(t) \/ Provision(t)
       \/ CreateSession(t) \/ LoginAnswer(t) \/ LoginRefused(t)
       \/ Visit(t) \/ CurrentUser(t) \/ SignOut(t) \/ DestroySession(t) \/ LogoutAnswer(t) \/ Fail(t)
  \/ Administer
  \/ Expire
Spec == Init /\ [][Next]_vars

-----------------------------------------------------------------------------
TypeOK ==
  /\ user \in [Emails -> {"none", "active", "inactive"}]
  /\ customers \subseteq [email : Emails, tab : Tabs]
  /\ tiers \in 0..1
  /\ session \subseteq [token : 1..MaxTokens, email : Emails]
  /\ made \in 0..MaxTokens /\ cookie \in 0..MaxTokens /\ faults \in 0..MaxFaults
  /\ unheard \subseteq 0..MaxTokens

\* However many first sign-ins with one address run at once, beside an administrator who makes the
\* same account, and whichever statement fails: an address has one customer at most, none without its
\* user, and a session only if it has a user.
ProvisionIsWhole ==
  /\ \A c, d \in customers : c.email = d.email => c = d
  /\ \A c \in customers : user[c.email] # "none"
  /\ \A s \in session : user[s.email] # "none"

\* The sign-in form turns away those who are signed in and nobody else, except whose account was
\* barred and who never heard, or have not heard yet, that they were signed out.
Excused(k) ==
  \/ \E s \in session : s.token = k /\ user[s.email] = "inactive"
  \/ k \in unheard
  \/ \E t \in Tabs : At(t, "out") /\ tab[t].token = k
TheFormIsInReach ==
  Visited("login", cookie) # "login" => SessionUser(cookie) # Nobody \/ Excused(cookie)
=============================================================================
