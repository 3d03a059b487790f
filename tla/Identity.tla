------------------------------ MODULE Identity ------------------------------
(***************************************************************************)
(* The sessions of one officer: tokens and their revocation                *)
(* (token-security.ts), the middleware every request passes                *)
(* (middleware/auth.ts) with its cache of postings per instance, and the   *)
(* step-up challenge that a decision needs (mfa-stepup.ts).  Each database *)
(* statement is a step; between two steps of a request the clock and the   *)
(* other requests go on.                                                   *)
(*                                                                         *)
(* The unit of time is the second of a token's iat.  The instances and the *)
(* database read one clock.                                                *)
(***************************************************************************)
EXTENDS Naturals, FiniteSets

CONSTANTS
  Token,       \* the tokens login may issue
  Instance,    \* processes of the API, each with its own cache
  Request,     \* requests under way at once
  Life,        \* JWT_EXPIRES_IN
  CacheTtl,    \* POSTINGS_CACHE_TTL_MS
  CodeTtl,     \* OFFICER_MFA_CODE_TTL_MINUTES
  MaxAttempts, \* OFFICER_MFA_MAX_ATTEMPTS
  MaxTime,     \* bound on the clock
  MaxChanges,  \* bound on how often the officer's posting changes
  None         \* absent

\* Lifetimes are numbers; a limit on attempts that is not positive is replaced
\* by its default.
ASSUME SettingsAssumption ==
  /\ Life \in Nat /\ CacheTtl \in Nat /\ CodeTtl \in Nat
  /\ MaxAttempts \in Nat \ {0} /\ MaxTime \in Nat \ {0} /\ MaxChanges \in Nat
  /\ IsFiniteSet(Request)

VARIABLES
  now,
  issued,    \* when each token was issued, or None
  denylist,  \* auth_token_denylist
  cutoff,    \* user_token_security.revoked_before, 0 when there is no row
  posting,   \* whether the officer is posted, and since when it is so
  changes,   \* how often that has changed
  cache,     \* postingsCache of each instance
  challenge, \* the row of auth_mfa_challenge, or None
  req,       \* the requests under way
  ended,     \* history: the tokens some logout was to end
  wrong,     \* history: wrong codes sent for the challenge
  uses       \* history: requests whose code for it was accepted

sessionVars == <<issued, denylist, cutoff, ended>>
postingVars == <<posting, changes, cache>>
challengeVars == <<challenge, wrong, uses>>
vars == <<now, sessionVars, postingVars, challengeVars, req>>

Time == 1 .. MaxTime
Idle == [pc |-> "idle"]
Step == {"known", "loading", "loaded", "ready", "revoking", "right", "wrong"}
Work == [pc : Step, at : Instance, token : Token, until : Nat, posted : BOOLEAN,
         seen : Nat]

Init ==
  /\ now = 1
  /\ issued = [k \in Token |-> None] /\ denylist = {} /\ cutoff = 0
  /\ posting = [held |-> TRUE, since |-> 1] /\ changes = 0
  /\ cache = [i \in Instance |-> None]
  /\ challenge = None /\ wrong = 0 /\ uses = 0
  /\ req = [r \in Request |-> Idle]
  /\ ended = {}

Goto(r, pc) == req' = [req EXCEPT ![r].pc = pc]
Done(r) == req' = [req EXCEPT ![r] = Idle]

Tick ==
  /\ now < MaxTime /\ now' = now + 1
  /\ UNCHANGED <<sessionVars, postingVars, challengeVars, req>>

(***************************************************************************)
(* Tokens.                                                                 *)
(***************************************************************************)
Expiry(k) == issued[k] + Life
Live(k) == issued[k] # None /\ now < Expiry(k)

Login(k) ==
  /\ issued[k] = None
  /\ issued' = [issued EXCEPT ![k] = now]
  /\ UNCHANGED <<now, denylist, cutoff, ended, postingVars, challengeVars, req>>

Denied(k) == \E d \in denylist : d.jti = k /\ d.until > now

\* Fault: the second of the logout itself is left out.
IssuedEarlier(k) == cutoff > 0 /\ issued[k] < cutoff

\* checkTokenRevocation: issued up to the second of the last logout-all.
CutOff(k) == cutoff > 0 /\ issued[k] <= cutoff

Accepts(k) == Live(k) /\ ~Denied(k) /\ ~CutOff(k)

\* onRequest: the token is verified and not revoked.
Arrive(r, i, k) ==
  /\ req[r] = Idle /\ Accepts(k)
  /\ req' = [req EXCEPT ![r] = [pc |-> "known", at |-> i, token |-> k,
                                until |-> 0, posted |-> FALSE, seen |-> 0]]
  /\ UNCHANGED <<now, sessionVars, postingVars, challengeVars>>

\* revokeToken: until the token expires by itself.
Deny(k) == denylist \cup {[jti |-> k, until |-> Expiry(k)]}

Logout(r) ==
  LET k == req[r].token
  IN /\ req[r].pc \in {"ready", "revoking"}
     /\ denylist' = Deny(k)
     /\ ended' = ended \cup {k}
     /\ Done(r)
     /\ UNCHANGED <<now, issued, cutoff, postingVars, challengeVars>>

RevokeAll ==
  /\ cutoff' = now
  /\ ended' = ended \cup {k \in Token : issued[k] # None}
  /\ UNCHANGED <<now, issued, denylist, postingVars, challengeVars>>

\* logout-all, which then revokes its own token too.
LogoutAll(r) == req[r].pc = "ready" /\ RevokeAll /\ Goto(r, "revoking")

\* An administrator's force-logout.
ForceLogout == cutoff < now /\ RevokeAll /\ UNCHANGED req

CleanDenylist ==
  /\ denylist' = {d \in denylist : d.until > now}
  /\ denylist' # denylist
  /\ UNCHANGED <<now, issued, cutoff, ended, postingVars, challengeVars, req>>

(***************************************************************************)
(* Postings.                                                               *)
(***************************************************************************)
\* Postings are edited in the database; no instance is told.
PostingChanges ==
  /\ changes < MaxChanges /\ changes' = changes + 1
  /\ posting' = [held |-> ~posting.held, since |-> now]
  /\ UNCHANGED <<now, sessionVars, cache, challengeVars, req>>

Cached(i) == cache[i] # None /\ now < cache[i].until

UseCachedPostings(r) ==
  /\ req[r].pc = "known" /\ Cached(req[r].at) /\ Goto(r, "ready")
  /\ UNCHANGED <<now, sessionVars, postingVars, challengeVars>>

\* The entry's lifetime counts from before the query.
AskPostings(r) ==
  /\ req[r].pc = "known" /\ ~Cached(req[r].at)
  /\ req' = [req EXCEPT ![r].pc = "loading", ![r].until = now + CacheTtl]
  /\ UNCHANGED <<now, sessionVars, postingVars, challengeVars>>

ReadPostings(r) ==
  /\ req[r].pc = "loading"
  /\ req' = [req EXCEPT ![r].pc = "loaded", ![r].posted = posting.held]
  /\ UNCHANGED <<now, sessionVars, postingVars, challengeVars>>

\* Fault: the lifetime counts from the answer.
EntryFromAnswer(q) == [posted |-> q.posted, until |-> now + CacheTtl]

Entry(q) == [posted |-> q.posted, until |-> q.until]

StorePostings(r) ==
  /\ req[r].pc = "loaded"
  /\ cache' = [cache EXCEPT ![req[r].at] = Entry(req[r])]
  /\ req' = [req EXCEPT ![r] = [@ EXCEPT !.pc = "ready", !.until = 0, !.posted = FALSE]]
  /\ UNCHANGED <<now, sessionVars, posting, changes, challengeVars>>

(***************************************************************************)
(* The step-up challenge for one task.                                     *)
(***************************************************************************)
\* The officer must hold the role the task asks for, in the database.
IssueChallenge(r) ==
  /\ req[r].pc = "ready" /\ posting.held /\ challenge = None /\ wrong + uses = 0
  /\ challenge' = [expires |-> now + CodeTtl, attempts |-> 0, consumed |-> FALSE]
  /\ Done(r)
  /\ UNCHANGED <<now, sessionVars, postingVars, wrong, uses>>

Open(c) == ~c.consumed /\ now < c.expires /\ c.attempts < MaxAttempts

\* A decision: the row is read and checked, and the code compared with it.
CheckCode(r) ==
  /\ req[r].pc = "ready" /\ posting.held
  /\ challenge # None /\ Open(challenge)
  /\ \E pc \in {"right", "wrong"} :
       req' = [req EXCEPT ![r].pc = pc, ![r].seen = challenge.attempts]
  /\ UNCHANGED <<now, sessionVars, postingVars, challengeVars>>

Counted(q) == challenge.attempts + 1

CountWrongCode(r) ==
  /\ req[r].pc = "wrong"
  /\ wrong' = wrong + 1
  /\ challenge' = IF challenge = None THEN None
                  ELSE [challenge EXCEPT !.attempts = Counted(req[r])]
  /\ Done(r)
  /\ UNCHANGED <<now, sessionVars, postingVars, uses>>

ConsumeChallenge(r) ==
  /\ req[r].pc = "right"
  /\ uses' = uses + 1
  /\ challenge' = IF challenge = None THEN None
                  ELSE [challenge EXCEPT !.consumed = TRUE]
  /\ Done(r)
  /\ UNCHANGED <<now, sessionVars, postingVars, wrong>>

CleanChallenges ==
  /\ challenge # None /\ ~challenge.consumed /\ challenge.expires <= now
  /\ challenge' = None
  /\ UNCHANGED <<now, sessionVars, postingVars, wrong, uses, req>>

Serve(r) ==
  \/ Logout(r) \/ LogoutAll(r)
  \/ UseCachedPostings(r) \/ AskPostings(r) \/ ReadPostings(r) \/ StorePostings(r)
  \/ IssueChallenge(r) \/ CheckCode(r) \/ CountWrongCode(r) \/ ConsumeChallenge(r)

Next ==
  \/ Tick \/ ForceLogout \/ CleanDenylist \/ CleanChallenges \/ PostingChanges
  \/ \E k \in Token : Login(k) \/ \E r \in Request, i \in Instance : Arrive(r, i, k)
  \/ \E r \in Request : Serve(r)

Spec == Init /\ [][Next]_vars

(***************************************************************************)
(* Properties.                                                             *)
(***************************************************************************)
\* The rows have the shape the code gives them, and a denylist row lasts
\* exactly as long as its token.
TypeOK ==
  /\ now \in Time /\ cutoff \in 0 .. MaxTime
  /\ issued \in [Token -> Time \cup {None}]
  /\ denylist \subseteq [jti : Token, until : Nat]
  /\ \A d \in denylist : issued[d.jti] # None /\ d.until = Expiry(d.jti)
  /\ posting \in [held : BOOLEAN, since : Time]
  /\ cache \in [Instance -> {None} \cup [posted : BOOLEAN, until : Nat]]
  /\ challenge \in {None} \cup [expires : Nat, attempts : Nat, consumed : BOOLEAN]
  /\ req \in [Request -> {Idle} \cup Work]
  /\ ended \subseteq Token

\* A token that a logout, a logout-all or a forced logout ended is accepted
\* at no later time: not in the second of the logout, not after the denylist
\* was cleaned.
EndedStaysEnded == \A k \in ended : ~Accepts(k)

\* A posting that was taken away is used by no instance for longer than the
\* cache's lifetime, however slow the query that filled the cache was.
RolesLagBounded ==
  \A i \in Instance :
    Cached(i) /\ cache[i].posted /\ ~posting.held => now < posting.since + CacheTtl

\* Overlapping requests may pass the limits that each of them checked, but
\* not by more than their number: wrong codes are all counted, and only
\* requests that read the challenge before it was used use it again.
ChallengeLimits ==
  /\ wrong < MaxAttempts + Cardinality(Request)
  /\ uses <= Cardinality(Request)
=============================================================================
