------------------------------- MODULE MCSignIn ------------------------------
(***************************************************************************)
(* Small instances of what signing in to the developer console is made of: *)
(* the pages in the browser (ConsoleClient), and on the server the codes   *)
(* (Codes) and the sessions (Accounts), each with two handlers and times   *)
(* of a few ticks.  Each has a model of the others that is enough for it,  *)
(* so one run explores them side by side: part says which of them moves.   *)
(***************************************************************************)
EXTENDS ConsoleClient, TLC

CONSTANTS
    Handlers, MaxLag,
    CodeTTL, Cooldown, Window, PerWindow, MaxAttempts, PurgeCode, MaxCodes,
    CodeMaxClock,
    Absolute, IdleLimit, TouchEvery, PurgeIdle, MaxClock, MaxLogins

VARIABLES
    part,
    codeClock, codes, issued, codeTask, codePurge, wrong, signed,
    clock, sessions, made, task, purge, used, until, loggedOut, lax

\* The handlers, or the addresses, which have the same names: no part has both.
MCSymmetry == Permutations(Handlers) \cup Permutations(Tabs)

Codes == INSTANCE SignIn
    WITH clock <- codeClock, task <- codeTask, purge <- codePurge,
         MaxClock <- CodeMaxClock
Accounts == INSTANCE Sessions WITH MaxSessions <- MaxLogins

ASSUME ClientAssumption == ConstantsAssumption
ASSUME CodesAssumption ==
    /\ Codes!HandlersAssumption /\ Codes!LimitsAssumption
    /\ Codes!TimesAssumption /\ Codes!BoundsAssumption
ASSUME AccountsAssumption ==
    /\ Accounts!HandlersAssumption
    /\ Accounts!TimesAssumption /\ Accounts!BoundsAssumption

clientVars == <<cookie, live, owner, signer, page, step, email, info, csrf, me,
                request, retyped>>
codeVars == <<codeClock, codes, issued, codeTask, codePurge, wrong, signed>>
accountVars == <<clock, sessions, made, task, purge, used, until, loggedOut,
                 lax>>

SignInInit ==
    /\ part \in {"client", "codes", "accounts"}
    /\ Init
    /\ Codes!Init
    /\ Accounts!Init

ClientStep ==
    part = "client" /\ Next /\ UNCHANGED <<part, codeVars, accountVars>>
CodeStep ==
    part = "codes" /\ Codes!Next /\ UNCHANGED <<part, clientVars, accountVars>>
AccountStep ==
    part = "accounts" /\ Accounts!Next /\ UNCHANGED <<part, clientVars, codeVars>>

SignInNext == ClientStep \/ CodeStep \/ AccountStep

SignInSpec ==
    SignInInit /\ [][SignInNext]_<<part, clientVars, codeVars, accountVars>>

-----------------------------------------------------------------------------
\* Every variable of the part that moves has its type.
TypesOK ==
    /\ part = "client" => TypeOK
    /\ part = "codes" => Codes!TypeOK
    /\ part = "accounts" => Accounts!TypeOK

(***************************************************************************)
(* Requests that overlap get nothing out of it: no more guesses at a code, *)
(* codes to a mailbox or sessions from one code than the limits and the    *)
(* handlers at once allow.                                                 *)
(***************************************************************************)
CodesRight ==
    part = "codes" =>
        Codes!GuessesBounded /\ Codes!CodesBounded /\ Codes!OneSessionPerCode

\* Logging out is final: a request still under way does not bring it back.
LoggedOutIsGone == part = "accounts" => Accounts!LoggedOutIsGone

\* Whoever uses a session often enough keeps it to its end.
KeptAlive == Accounts!KeptAlive

(***************************************************************************)
(* Over the tabs of a browser, and answers that come late: a tab shows the *)
(* account whose token it sends, and a code is verified for the address it *)
(* was sent to, unless that was changed while it was being asked for.      *)
(***************************************************************************)
ClientRight == part = "client" => TokenRight /\ CodeForEmail
=============================================================================
