----------------------------- MODULE ConsoleClient -----------------------------
(***************************************************************************)
(* The developer console in a browser: console/src/app/login/page.tsx,     *)
(* lib/useMe.ts, lib/api.ts, components/Shell.tsx and the layout of its    *)
(* pages, in several tabs.  The tabs share the cookie of the session; each *)
(* keeps the CSRF token of the session it knows in a variable of its own   *)
(* module.  A request carries the cookie there is when it is sent, and the *)
(* cookie of an answer is set when the answer arrives.  A session is named *)
(* by its number, and so is its token.                                     *)
(***************************************************************************)
EXTENDS Naturals

CONSTANTS
    Tabs,
    Emails,
    None,
    MaxSessions    \* bound: sessions that are made

\* What is assumed of the constants.
ConstantsAssumption ==
    /\ None \notin Emails
    /\ MaxSessions \in Nat

VARIABLES
    cookie,     \* the session of the browser, 0 for none
    live,       \* the sessions in the table
    owner,      \* the account of each session made so far
    signer,     \* (observation) the tab it was made for
    page,       \* of a tab: login, loading or app
    step,       \* of the login page: email or code
    email,      \* what is in its field
    info,       \* the address the code was sent to, as the page says
    csrf,       \* the token of the module, 0 for none
    me,         \* the account the pages show
    request,    \* what a tab is waiting for, or None
    retyped     \* (observation) the address was changed while a code was asked for

client == <<page, step, email, info, csrf, me, retyped>>
vars == <<cookie, live, owner, signer, client, request>>

Sessions == 1..MaxSessions
Made == {s \in Sessions : owner[s] # None}

\* A request: what for, what it carries, and what came of it.  sets is the
\* session its answer puts into the cookie, or "keep".
Ops == {"code", "verify", "me", "logout"}
Answers == {"none", "ok", "refused"}
Request(op, t) ==
    LET signedIn == op \notin {"code", "verify"} IN
    [op |-> op, cookie |-> IF signedIn THEN cookie ELSE 0,
     csrf |-> IF op = "logout" THEN csrf[t] ELSE 0,
     email |-> IF signedIn THEN None ELSE email[t],
     answer |-> "none", session |-> 0, sets |-> "keep"]
Requests ==
    [op: Ops, cookie: 0..MaxSessions, csrf: 0..MaxSessions,
     email: Emails \cup {None}, answer: Answers, session: 0..MaxSessions,
     sets: {"keep", "clear", "set"}]

Init ==
    /\ cookie = 0
    /\ live = {}
    /\ owner = [s \in Sessions |-> None]
    /\ signer = [s \in Sessions |-> None]
    /\ page = [t \in Tabs |-> "login"]
    /\ step = [t \in Tabs |-> "email"]
    /\ email = [t \in Tabs |-> None]
    /\ info = [t \in Tabs |-> None]
    /\ csrf = [t \in Tabs |-> 0]
    /\ me = [t \in Tabs |-> None]
    /\ request = [t \in Tabs |-> None]
    /\ retyped = [t \in Tabs |-> FALSE]

--------------------------------------------------------------------------
(* The login page.                                                         *)

\* The field is open while the request is under way.
TypeEmail(t, e) ==
    /\ page[t] = "login" /\ step[t] = "email" /\ e # email[t]
    /\ email' = [email EXCEPT ![t] = e]
    /\ retyped' = [retyped EXCEPT ![t] = @ \/ request[t] # None]
    /\ UNCHANGED <<cookie, live, owner, signer, page, step, info, csrf, me, request>>

Send(t, op) ==
    /\ request[t] = None
    /\ request' = [request EXCEPT ![t] = Request(op, t)]
    /\ UNCHANGED <<cookie, live, owner, signer>>

sendCode(t) ==
    /\ page[t] = "login" /\ step[t] = "email" /\ email[t] # None
    /\ Send(t, "code")
    /\ retyped' = [retyped EXCEPT ![t] = FALSE]
    /\ UNCHANGED <<page, step, email, info, csrf, me>>

verify(t) ==
    /\ page[t] = "login" /\ step[t] = "code"
    /\ Send(t, "verify")
    /\ UNCHANGED client

\* "Boshqa email": also while the code is being verified.
OtherEmail(t) ==
    /\ page[t] = "login" /\ step[t] = "code"
    /\ step' = [step EXCEPT ![t] = "email"]
    /\ UNCHANGED <<cookie, live, owner, signer, page, email, info, csrf, me,
                   request, retyped>>

\* The page is left, and its fields with it.
EmptyForm(t) ==
    /\ step' = [step EXCEPT ![t] = "email"]
    /\ email' = [email EXCEPT ![t] = None]
    /\ info' = [info EXCEPT ![t] = None]
    /\ retyped' = [retyped EXCEPT ![t] = FALSE]

--------------------------------------------------------------------------
(* The pages behind it.                                                    *)

logout(t) ==
    /\ page[t] = "app"
    /\ Send(t, "logout")
    /\ UNCHANGED client

\* A page of the console is opened by its address, or loaded again: the
\* module and its token are new, and the layout asks who is there.
Open(t) ==
    /\ request[t] = None
    /\ page' = [page EXCEPT ![t] = "loading"]
    /\ csrf' = [csrf EXCEPT ![t] = 0]
    /\ me' = [me EXCEPT ![t] = None]
    /\ request' = [request EXCEPT ![t] = Request("me", t)]
    /\ EmptyForm(t)
    /\ UNCHANGED <<cookie, live, owner, signer>>

--------------------------------------------------------------------------
(* The server.                                                             *)

Reply(t, answer, session, sets) ==
    request' = [request EXCEPT ![t].answer = answer, ![t].session = session,
                               ![t].sets = sets]

Asked(t, ops) ==
    /\ request[t] # None
    /\ request[t].op \in ops
    /\ request[t].answer = "none"

\* A right code: the session of the account, with the next number.
ServeVerify(t) ==
    /\ Asked(t, {"verify"})
    /\ \E s \in Sessions :
          /\ owner[s] = None
          /\ \A r \in Sessions : r < s => owner[r] # None
          /\ live' = live \cup {s}
          /\ owner' = [owner EXCEPT ![s] = request[t].email]
          /\ signer' = [signer EXCEPT ![s] = t]
          /\ Reply(t, "ok", s, "set")
    /\ UNCHANGED <<cookie, client>>

\* Requests of the pages: authed reads the cookie, then the token.
authed(t) ==
    LET r == request[t] IN
    /\ Asked(t, {"me", "logout"})
    /\ IF r.cookie \notin live
       THEN /\ Reply(t, "refused", 0, IF r.cookie = 0 THEN "keep" ELSE "clear")
            /\ UNCHANGED live
       ELSE IF r.op # "me" /\ r.csrf # r.cookie
       THEN Reply(t, "refused", 0, "keep") /\ UNCHANGED live
       ELSE /\ live' = IF r.op = "logout" THEN live \ {r.cookie} ELSE live
            /\ Reply(t, "ok", r.cookie, IF r.op = "logout" THEN "clear" ELSE "keep")
    /\ UNCHANGED <<cookie, owner, signer, client>>

\* The purge, or the limits of a session.
Expire(s) ==
    /\ s \in live
    /\ live' = live \ {s}
    /\ UNCHANGED <<cookie, owner, signer, client, request>>

--------------------------------------------------------------------------
(* The answer arrives, and its cookie with it.  A request that the server  *)
(* refuses, or that is lost on its way or on its way back, fails: no       *)
(* cookie comes with it.  Asking for a code changes nothing that is        *)
(* modelled here, so that its answer comes at once.                        *)

Failed == [answer |-> "refused", session |-> 0, sets |-> "keep"]

\* What comes back for the request of t.
Comes(t, op, a) ==
    /\ request[t] # None
    /\ request[t].op = op
    /\ \/ a = Failed
       \/ /\ request[t].answer # "none"
          /\ a = [answer |-> request[t].answer, session |-> request[t].session,
                  sets |-> request[t].sets]
       \/ op = "code" /\ a = [answer |-> "ok", session |-> 0, sets |-> "keep"]
    /\ cookie' = CASE a.sets = "keep" -> cookie
                   [] a.sets = "clear" -> 0
                   [] a.sets = "set" -> a.session
    /\ UNCHANGED <<live, owner, signer>>

Answered(t) ==
    {Failed, [answer |-> "ok", session |-> 0, sets |-> "keep"]} \cup
    IF request[t] = None THEN {}
    ELSE {[answer |-> request[t].answer, session |-> request[t].session,
           sets |-> request[t].sets]}
Ok(a) == a.answer = "ok"
Done(t) == request' = [request EXCEPT ![t] = None]

CodeArrives(t, a) ==
    /\ Comes(t, "code", a)
    /\ Done(t)
    /\ step' = [step EXCEPT ![t] = IF Ok(a) THEN "code" ELSE @]
    /\ info' = [info EXCEPT ![t] = IF Ok(a) THEN request[t].email ELSE @]
    /\ UNCHANGED <<page, email, csrf, me, retyped>>

\* To the dashboard, whose layout asks who is there.
VerifyArrives(t, a) ==
    /\ Comes(t, "verify", a)
    /\ IF Ok(a)
       THEN /\ csrf' = [csrf EXCEPT ![t] = a.session]
            /\ page' = [page EXCEPT ![t] = "loading"]
            /\ request' = [request EXCEPT ![t] = [Request("me", t) EXCEPT !.cookie = cookie']]
            /\ EmptyForm(t)
       ELSE Done(t) /\ UNCHANGED <<csrf, page, step, email, info, retyped>>
    /\ UNCHANGED me

\* A new login page, with nothing in it.  The token of the module stays.
ToLogin(t) ==
    /\ page' = [page EXCEPT ![t] = "login"]
    /\ EmptyForm(t)
    /\ me' = [me EXCEPT ![t] = None]

\* (mutant) the token comes with the sign-in alone.
refreshKeeps(t, a) ==
    IF Ok(a) THEN /\ me' = [me EXCEPT ![t] = owner[a.session]]
                  /\ page' = [page EXCEPT ![t] = "app"]
                  /\ UNCHANGED <<csrf, step, email, info, retyped>>
             ELSE ToLogin(t) /\ UNCHANGED csrf
\* refresh of useMe: any failure leads to the login page.
refresh(t, a) ==
    IF Ok(a) THEN /\ csrf' = [csrf EXCEPT ![t] = a.session]
                  /\ me' = [me EXCEPT ![t] = owner[a.session]]
                  /\ page' = [page EXCEPT ![t] = "app"]
                  /\ UNCHANGED <<step, email, info, retyped>>
             ELSE ToLogin(t) /\ UNCHANGED csrf

MeArrives(t, a) ==
    /\ Comes(t, "me", a)
    /\ Done(t)
    /\ refresh(t, a)

\* A logout that fails does nothing: the page stays.
LogoutArrives(t, a) ==
    /\ Comes(t, "logout", a)
    /\ Done(t)
    /\ IF Ok(a) THEN ToLogin(t)
                ELSE UNCHANGED <<page, step, email, info, me, retyped>>
    /\ UNCHANGED csrf

Page(t) ==
    \/ \E e \in Emails : TypeEmail(t, e)
    \/ sendCode(t) \/ verify(t) \/ OtherEmail(t)
    \/ logout(t) \/ Open(t)
Server(t) == ServeVerify(t) \/ authed(t)
Answer(t) == \E a \in Answered(t) :
    \/ CodeArrives(t, a) \/ VerifyArrives(t, a) \/ MeArrives(t, a)
    \/ LogoutArrives(t, a)

Next ==
    \/ \E t \in Tabs : Page(t) \/ Server(t) \/ Answer(t)
    \/ \E s \in Sessions : Expire(s)

Spec == Init /\ [][Next]_vars

--------------------------------------------------------------------------

\* Every variable has its type.
TypeOK ==
    /\ cookie \in 0..MaxSessions
    /\ live \subseteq Made
    /\ owner \in [Sessions -> Emails \cup {None}]
    /\ signer \in [Sessions -> Tabs \cup {None}]
    /\ page \in [Tabs -> {"login", "loading", "app"}]
    /\ step \in [Tabs -> {"email", "code"}]
    /\ {email, info, me} \subseteq [Tabs -> Emails \cup {None}]
    /\ csrf \in [Tabs -> 0..MaxSessions]
    /\ request \in [Tabs -> Requests \cup {None}]
    /\ retyped \in [Tabs -> BOOLEAN]

\* A tab of the console shows the account whose token it sends, and the server
\* refuses that token only when another tab has signed in since: however late
\* the answers come, logging out and in again in one tab never leaves it with
\* the token of an earlier session.
TokenRight ==
    \A t \in Tabs : page[t] = "app" =>
        /\ csrf[t] # 0 /\ me[t] = owner[csrf[t]]
        /\ cookie \notin {0, csrf[t]} => signer[cookie] # t

\* login/page.tsx:22 tells where the code was sent; that is the address it is
\* verified for, unless it was changed while the code was being asked for.
CodeForEmail ==
    \A t \in Tabs :
        page[t] = "login" /\ step[t] = "code" /\ ~retyped[t] => info[t] = email[t]

\* The code is verified for the address it was sent to.
CodeAlwaysForEmail ==
    \A t \in Tabs : page[t] = "login" /\ step[t] = "code" => info[t] = email[t]

\* A session of the table that a tab works with is not taken from the browser
\* by the answer to an older one.
SessionStays ==
    \A t \in Tabs : page[t] = "app" /\ csrf[t] \in live => cookie # 0
=============================================================================
