------------------------------ MODULE MCAccess ------------------------------
(* How a person comes to act: his password or code (Credentials), the page *)
(* he signs in on (LoginPage), the tabs of his browser (BrowserSession),   *)
(* his session on the server (Identity) and the feature flag that asks an  *)
(* officer for a second factor (FeatureFlags); the first page he comes to, *)
(* with its copy (Dashboard); and the officer's view of what is configured *)
(* (ConfigPage).  They share no state: a behaviour is one of one of them,  *)
(* as "passes" says, and the others stay where they start.  As they never  *)
(* meet, their sets share model values.                                    *)
(*                                                                         *)
(* Two requests of an officer: one is overtaken by a logout, a cleanup, a  *)
(* change of posting or its double.  Two nodes cache the flag, and one     *)
(* evaluation is overtaken by an update.  Two tabs of the citizen's portal *)
(* and one of the officer's; two requests with a code or a token.  A       *)
(* service with three published versions and one with a single version.    *)
(* Two loads of a page of two parts.                                       *)
EXTENDS Identity, Sequences, TLC

CONSTANTS
  Node, Evaluator, Delay, MaxUpdates,                    \* FeatureFlags
  Word, CodeLife, LockTime, ResetLife, MaxWrong, MaxSecrets, MaxTries, \* Credentials
  CitizenTab, OfficerTab, Citizen, Officer,              \* BrowserSession
  MaxSessions, MaxChecks, MaxLosses,
  Number, MaxClicks,                                     \* LoginPage
  MaxAsked, MaxPicks,                                    \* ConfigPage
  Parts, Loader, NotOk, MaxLoads, MaxVisits              \* Dashboard

\* Lifetimes that are not positive are replaced by their defaults; a query
\* takes some time or none.
ASSUME LifetimesAssumption ==
  /\ CacheTtl > 0 /\ Delay \in Nat
  /\ CodeLife \in Nat /\ LockTime \in Nat /\ ResetLife \in Nat /\ MaxSecrets \in Nat

VARIABLES
  passes,
  clock, versions, local, redis, pipe, call, lag,
  minute, otp, account, resets, used, drawn, tries, spent, reused, locked, evaded, chosen, overtaken,
  owner, closed, cookie, stored, page, calls, notices, out, crossed, checks, losses,
  method, number, otpSent, sendingOtp, loading, forgot, asked, done, timers, forms, user,
  codeFor, edited, clicks,
  view, questions, offline, mixed, picks,
  truth, shown, cachedAt, cached, error, isOffline, mounted, load, overlapped, loads, visits

TwoParts == <<"applications", "notifications">>

Published ==
  [deed |-> [v \in 1 .. 3 |-> CASE v = 1 -> [fee |-> 0, form |-> 0]
                               [] v = 2 -> [form |-> 1, sla |-> 0]
                               [] v = 3 -> [form |-> 0]],
   plan |-> [v \in {1} |-> [fee |-> 0]]]

\* No service and no version of one is called None.
ASSUME PublishedAssumption ==
  /\ None \notin DOMAIN Published
  /\ \A s \in DOMAIN Published : None \notin DOMAIN Published[s]

\* Nobody has no account.
ASSUME AccountsAssumption == None \notin Citizen \cup Officer

F == INSTANCE FeatureFlags WITH Instance <- Node, Caller <- Evaluator, Ttl <- CacheTtl,
                                Horizon <- 7
S == INSTANCE Credentials WITH now <- minute, req <- used, used <- spent, MaxTime <- 3
B == INSTANCE BrowserSession WITH ended <- closed
L == INSTANCE LoginPage WITH calls <- forms
V == INSTANCE ConfigPage WITH page <- view, calls <- questions, crossed <- mixed,
                              clicks <- picks, MaxCalls <- MaxAsked, MaxClicks <- MaxPicks
H == INSTANCE Dashboard WITH Load <- Loader, Refused <- NotOk, crossed <- overlapped

\* A part is shown as a number, or not.
ASSUME PartsAssumption ==
  Parts \in Seq(H!Part) /\ None \notin Nat /\ NotOk \notin Nat

Symmetry == Permutations(Token) \cup Permutations(Request)

flagVars == <<clock, versions, local, redis, pipe, call, lag>>
secretVars == <<minute, otp, account, resets, used, drawn, tries, spent, reused, locked, evaded,
                chosen, overtaken>>
browserVars == <<owner, closed, cookie, stored, page, calls, notices, out, crossed, checks,
                 losses>>
formVars == <<method, number, otpSent, sendingOtp, loading, forgot, asked, done, timers, forms,
              user, codeFor, edited, clicks>>
configVars == <<view, questions, offline, mixed, picks>>
copyVars == <<truth, shown, cachedAt, cached, error, isOffline, mounted, load, overlapped, loads,
              visits>>

\* Those that stay start in one of their initial states.
MCInit ==
  /\ Init /\ F!Init /\ S!Init /\ B!Init /\ L!Init /\ V!Init /\ H!Init
  /\ passes \in {"session", "flag", "secret", "browser", "form", "config", "copy"}
  /\ passes # "secret" => account = [word |-> CHOOSE w \in Word : TRUE, old |-> FALSE, known |-> TRUE]
  /\ passes # "form" => number = CHOOSE n \in Number : TRUE
  /\ passes # "copy" => ~isOffline

Session(A) ==
  /\ passes = "session" /\ A
  /\ UNCHANGED <<flagVars, secretVars, browserVars, formVars, configVars, copyVars, passes>>
Flag(A) ==
  /\ passes = "flag" /\ A
  /\ UNCHANGED <<vars, secretVars, browserVars, formVars, configVars, copyVars, passes>>
Secret(A) ==
  /\ passes = "secret" /\ A
  /\ UNCHANGED <<vars, flagVars, browserVars, formVars, configVars, copyVars, passes>>
Copy(A) ==
  /\ passes = "copy" /\ A
  /\ UNCHANGED <<vars, flagVars, secretVars, browserVars, formVars, configVars, passes>>

MCNext ==
  \/ Session(Tick) \/ Session(ForceLogout) \/ Session(PostingChanges)
  \/ Session(CleanDenylist) \/ Session(CleanChallenges)
  \/ \E k \in Token : Session(Login(k))
  \/ \E r \in Request, i \in Instance, k \in Token : Session(Arrive(r, i, k))
  \/ \E r \in Request :
       \/ Session(Logout(r)) \/ Session(LogoutAll(r))
       \/ Session(UseCachedPostings(r)) \/ Session(AskPostings(r))
       \/ Session(ReadPostings(r)) \/ Session(StorePostings(r))
       \/ Session(IssueChallenge(r)) \/ Session(CheckCode(r))
       \/ Session(CountWrongCode(r)) \/ Session(ConsumeChallenge(r))
  \/ \E c \in Evaluator :
       \/ \E i \in Node : Flag(F!Evaluate(c, i))
       \/ Flag(F!AskRedis(c)) \/ Flag(F!ReadRow(c)) \/ Flag(F!Store(c))
  \/ Flag(F!Tick)
  \/ \E i \in Node : Flag(F!Execute(i)) \/ Flag(F!Update(i))
  \/ Secret(S!Next)
  \/ passes = "browser" /\ B!Next
     /\ UNCHANGED <<vars, flagVars, secretVars, formVars, configVars, copyVars, passes>>
  \/ passes = "form" /\ L!Next
     /\ UNCHANGED <<vars, flagVars, secretVars, browserVars, configVars, copyVars, passes>>
  \/ passes = "config" /\ V!Next
     /\ UNCHANGED <<vars, flagVars, secretVars, browserVars, formVars, copyVars, passes>>
  \/ \E p \in H!Part : Copy(H!Change(p))
  \/ \E l \in Loader :
       \/ Copy(H!loadDashboardData(l)) \/ Copy(H!Show(l)) \/ Copy(H!Finish(l))
       \/ Copy(H!Fail(l)) \/ Copy(H!Open(l)) \/ Copy(H!Online(l))
       \/ \E p \in H!Part : Copy(H!Answer(l, p))
  \/ Copy(H!Offline) \/ Copy(H!Leave) \/ Copy(H!Expire)

MCSpec ==
  MCInit /\ [][MCNext]_<<vars, flagVars, secretVars, browserVars, formVars, configVars, copyVars,
                          passes>>

\* What an instance keeps in memory, an officer's postings or a flag, decides
\* for a bounded time after it changed (Identity, FeatureFlags), and the copy
\* that a page keeps is no older than it says (Dashboard).
CachesLagBounded == RolesLagBounded /\ F!StalenessBounded /\ H!CopiesAreWhole

\* What may be used once, a challenge, a code or a token, is used again only
\* by requests that overlap (Identity, Credentials).
SecretsHold == ChallengeLimits /\ S!CredentialsHold

\* Pages act for whom they show (BrowserSession), ask for the code that was
\* sent (LoginPage), and show what was selected (ConfigPage).
PagesActAsShown ==
  B!PagesActAsShown /\ L!AsksForTheCodeSent /\ L!OneAttemptAtATime /\ V!ConfigAsSelected
=============================================================================
