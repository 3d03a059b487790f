--------------------------- MODULE BrowserSession ---------------------------
(***************************************************************************)
(* Who is signed in, as one browser sees it: tabs of the citizen's portal  *)
(* (AuthContext.tsx) and of the officer's (useOfficerAuth.ts), their       *)
(* entries in localStorage, and the one cookie both share.  The server     *)
(* reads the cookie first and the page's own token only without one.       *)
(*                                                                         *)
(* Sessions are numbered in the order they begin; 0 is none.  What the     *)
(* server does with a token is in Identity; here it is live until a logout *)
(* carries it.                                                             *)
(***************************************************************************)
EXTENDS Naturals, Sequences

CONSTANTS
  CitizenTab, OfficerTab,
  Citizen, Officer, \* accounts
  MaxSessions, MaxChecks, MaxLosses, \* bounds on sign-ins, loads, failures
  None

VARIABLES
  owner,   \* the account of each session
  ended,   \* sessions a logout ended
  cookie,  \* puda_auth
  stored,  \* what each portal keeps in localStorage: user and token
  page,    \* each tab: user, token, whether the session is being checked
           \* (isLoading) and whether a sign-out waits for the telemetry
  calls,   \* requests under way
  notices, \* tabs a storage event is on its way to
  out,     \* history: tabs that signed out and were not used to sign in since
  crossed, \* history: a sign-in met another account, or a check, in the browser
  checks, losses

vars == <<owner, ended, cookie, stored, page, calls, notices, out, crossed, checks, losses>>

Tab == CitizenTab \cup OfficerTab
Account == Citizen \cup Officer
Portal == {"citizen", "officer"}
PortalOf(t) == IF t \in CitizenTab THEN "citizen" ELSE "officer"
MayEnter(a, t) == a \in IF t \in CitizenTab THEN Citizen ELSE Officer

Nobody == [user |-> None, token |-> 0]
Page(s) == [user |-> s.user, token |-> s.token, checking |-> FALSE, leaving |-> FALSE]
Valid(s) == s # 0 /\ s \notin ended

Init ==
  /\ owner = <<>> /\ ended = {} /\ cookie = 0
  /\ stored = [p \in Portal |-> Nobody]
  /\ page = [t \in Tab |-> Page(Nobody)]
  /\ calls = {} /\ notices = {} /\ out = {} /\ crossed = FALSE
  /\ checks = 0 /\ losses = 0

\* A request carries the cookie of when it is sent.
Call(t, kind, a) == [tab |-> t, kind |-> kind, account |-> a, with |-> cookie,
                     done |-> FALSE, answer |-> 0]
Busy(t) == \E c \in calls : c.tab = t /\ c.kind # "me"

\* A change of an entry is told to the other tabs; only the citizen's listen.
Tell(t, p) == notices' = IF p = "citizen" THEN notices \cup (CitizenTab \ {t}) ELSE notices

(***************************************************************************)
(* Loading a page.                                                         *)
(***************************************************************************)
\* The page shows what is stored and asks the server; the officer's page does
\* not wait for the answer.
Load(t) ==
  /\ checks < MaxChecks /\ checks' = checks + 1
  /\ ~Busy(t)
  /\ LET s == stored[PortalOf(t)]
         known == t \in CitizenTab \/ s.token # 0
     IN page' = [page EXCEPT ![t] = [Page(IF known THEN s ELSE Nobody)
                                       EXCEPT !.checking = t \in CitizenTab]]
  /\ calls' = {c \in calls : c.tab # t} \cup {Call(t, "me", None)}
  /\ notices' = notices \ {t} /\ out' = out \ {t}
  /\ UNCHANGED <<owner, ended, cookie, stored, crossed, losses>>

(***************************************************************************)
(* Signing in and out.                                                     *)
(***************************************************************************)
SignIn(t, a) ==
  /\ page[t].user = None /\ ~page[t].checking /\ ~Busy(t)
  /\ Len(owner) < MaxSessions
  /\ calls' = calls \cup {Call(t, "login", a)}
  /\ out' = out \ {t}
  /\ UNCHANGED <<owner, ended, cookie, stored, page, notices, crossed, checks, losses>>

\* Fault: the page can be left while its session is being checked.
ShownEarly(t) == page[t].user # None

\* Until the check is answered a citizen's page shows a skeleton.
Shown(t) == page[t].user # None /\ ~page[t].checking

SignOut(t) ==
  /\ t \in CitizenTab /\ Shown(t) /\ ~page[t].leaving
  /\ page' = [page EXCEPT ![t].leaving = TRUE]
  /\ UNCHANGED <<owner, ended, cookie, stored, calls, notices, out, crossed, checks, losses>>

\* logout does not wait for the server.
Leave(t) ==
  /\ IF t \in CitizenTab THEN page[t].leaving ELSE Shown(t)
  /\ ~Busy(t)
  /\ page' = [page EXCEPT ![t] = [Page(Nobody) EXCEPT !.checking = page[t].checking]]
  /\ stored' = [stored EXCEPT ![PortalOf(t)] = Nobody]
  /\ Tell(t, PortalOf(t))
  /\ calls' = calls \cup {Call(t, "logout", None)}
  /\ out' = out \cup {t}
  /\ UNCHANGED <<owner, ended, cookie, crossed, checks, losses>>

\* The listener clears the page when the entry is gone.
Heard(s) == IF stored["citizen"].user = None THEN [Page(Nobody) EXCEPT !.checking = s.checking]
            ELSE s

Hear(t) ==
  /\ t \in notices /\ notices' = notices \ {t}
  /\ page' = [page EXCEPT ![t] = Heard(page[t])]
  /\ UNCHANGED <<owner, ended, cookie, stored, calls, out, crossed, checks, losses>>

(***************************************************************************)
(* The server, and its answers.                                            *)
(***************************************************************************)
Served(c, n) == calls' = (calls \ {c}) \cup {[c EXCEPT !.done = TRUE, !.answer = n]}

Serve(c) ==
  /\ c \in calls /\ ~c.done
  /\ \/ /\ c.kind = "login" /\ Len(owner) < MaxSessions
        /\ owner' = Append(owner, c.account) /\ Served(c, Len(owner) + 1)
        /\ UNCHANGED ended
     \/ /\ c.kind = "me" /\ Served(c, IF Valid(c.with) THEN c.with ELSE 0)
        /\ UNCHANGED <<owner, ended>>
     \/ /\ c.kind = "logout" /\ Served(c, IF Valid(c.with) THEN c.with ELSE 0)
        /\ ended' = IF Valid(c.with) THEN ended \cup {c.with} ELSE ended
        /\ UNCHANGED owner
  /\ UNCHANGED <<cookie, stored, page, notices, out, crossed, checks, losses>>

Answered(c) == c \in calls /\ c.done /\ calls' = calls \ {c}

\* The cookie changes hands although the portal may not admit the account.
Meets(c, a) ==
  \/ ~MayEnter(a, c.tab)
  \/ \E t \in Tab \ {c.tab} : page[t].user \notin {None, a} \/ page[t].checking
                              \/ \E d \in calls : d.tab = t /\ d.kind \in {"login", "me"}

AnswerLogin(c) ==
  LET a == c.account
      s == [user |-> a, token |-> c.answer]
  IN /\ c.kind = "login" /\ Answered(c)
     /\ cookie' = c.answer
     /\ crossed' = (crossed \/ Meets(c, a))
     /\ IF MayEnter(a, c.tab)
        THEN /\ page' = [page EXCEPT ![c.tab] = Page(s)]
             /\ stored' = [stored EXCEPT ![PortalOf(c.tab)] = s]
             /\ Tell(c.tab, PortalOf(c.tab))
        ELSE UNCHANGED <<page, stored, notices>>
     /\ UNCHANGED <<owner, ended, out, checks, losses>>

\* A citizen's page takes the user from the answer, and keeps its token.
AnswerCheck(c) ==
  LET t == c.tab
      p == PortalOf(t)
      a == owner[c.answer]
  IN /\ c.kind = "me" /\ Answered(c)
     /\ \/ /\ c.answer = 0
           /\ page' = [page EXCEPT ![t] = Page(Nobody)]
           /\ stored' = [stored EXCEPT ![p] = Nobody] /\ Tell(t, p)
        \/ /\ c.answer # 0 /\ t \in CitizenTab
           /\ page' = [page EXCEPT ![t] = [@ EXCEPT !.user = a, !.checking = FALSE]]
           /\ stored' = [stored EXCEPT ![p].user = a] /\ Tell(t, p)
        \/ c.answer # 0 /\ t \in OfficerTab /\ UNCHANGED <<page, stored, notices>>
     /\ UNCHANGED <<owner, ended, cookie, out, crossed, checks, losses>>

\* The answer to a logout clears whatever cookie there is by then.
AnswerLogout(c) ==
  /\ c.kind = "logout" /\ Answered(c)
  /\ cookie' = IF c.answer # 0 THEN 0 ELSE cookie
  /\ UNCHANGED <<owner, ended, stored, page, notices, out, crossed, checks, losses>>

\* Without an answer a page goes on with what is stored.
Lose(c) ==
  /\ c \in calls /\ losses < MaxLosses /\ losses' = losses + 1
  /\ calls' = calls \ {c}
  /\ page' = IF c.kind = "me" THEN [page EXCEPT ![c.tab].checking = FALSE] ELSE page
  /\ UNCHANGED <<owner, ended, cookie, stored, notices, out, crossed, checks>>

Next ==
  \/ \E t \in Tab : \/ Load(t) \/ SignOut(t) \/ Leave(t) \/ Hear(t)
                    \/ \E a \in Account : SignIn(t, a)
  \/ \E c \in calls : \/ Serve(c) \/ AnswerLogin(c) \/ AnswerCheck(c) \/ AnswerLogout(c)
                      \/ Lose(c)

Spec == Init /\ [][Next]_vars

(***************************************************************************)
(* Properties.                                                             *)
(***************************************************************************)
\* A page that shows a user has either a token of a session or took the user
\* from a check.
TypeOK ==
  /\ cookie \in 0 .. Len(owner) /\ ended \subseteq 1 .. Len(owner)
  /\ \A t \in Tab : page[t].user \in {None} \cup Account /\ page[t].token \in 0 .. Len(owner)
  /\ notices \subseteq CitizenTab

\* Whose requests a tab sends: the cookie's, its own token's, or nobody's.
Acting(t) ==
  LET s == IF cookie # 0 THEN cookie ELSE page[t].token
  IN IF Valid(s) THEN owner[s] ELSE None

\* What a tab asks for is asked for the account it shows, or refused, unless
\* somebody else signed in in this browser beside it.
ActsAsShown ==
  crossed \/ \A t \in Tab : page[t].user # None => Acting(t) \in {None, page[t].user}

\* Signing out in one tab of the citizen's portal empties the others as soon
\* as they have heard of it.
TabsAgree ==
  stored["citizen"].user = None =>
    \A t \in CitizenTab \ notices : page[t].user = None

\* Nothing that was under way brings a user back into a tab that signed out.
SignedOutStaysOut == \A t \in out : page[t].user = None

PagesActAsShown == ActsAsShown /\ TabsAgree /\ SignedOutStaysOut
=============================================================================
