--------------------------- MODULE MCAccessProofs ---------------------------
(***************************************************************************)
(* Proofs about an officer's sessions, postings and challenges, the cached *)
(* flags and the copy of the first page, the codes and passwords of a      *)
(* citizen and the pages on which they are used, for any number of tokens, *)
(* instances, tabs, loads and overlapping requests, any settings, and      *)
(* however many updates, clicks and losses.                                *)
(***************************************************************************)
EXTENDS MCAccess, FiniteSetTheorems, TLAPS

(***************************************************************************)
(* Type correctness.                                                       *)
(***************************************************************************)
LEMMA BusyRequest ==
  ASSUME TypeOK, NEW r \in Request, req[r].pc # "idle"
  PROVE  req[r] \in Work
BY DEF TypeOK, Idle

\* A request is served only with a token that login issued.
Admitted == \A r \in Request : req[r].pc # "idle" => issued[req[r].token] # None

Typed == TypeOK /\ Admitted

LEMMA InitTyped == Init => Typed
<1> SUFFICES ASSUME Init PROVE Typed
  OBVIOUS
<1>1. 1 \in Time /\ 0 \in 0 .. MaxTime
  BY SettingsAssumption DEF Time
<1> QED BY <1>1 DEF Init, Typed, TypeOK, Admitted, Idle

\* A request that goes on keeps its token.
LEMMA GoesOn ==
  ASSUME Typed, NEW r \in Request, NEW q \in {Idle} \cup Work,
         req' = [req EXCEPT ![r] = q], issued' = issued,
         q.pc # "idle" => issued[q.token] # None
  PROVE  req' \in [Request -> {Idle} \cup Work] /\ Admitted'
BY DEF Typed, TypeOK, Admitted

LEMMA EndsTyped ==
  ASSUME Typed, NEW r \in Request, Done(r), issued' = issued
  PROVE  req' \in [Request -> {Idle} \cup Work] /\ Admitted'
<1>1. Idle.pc = "idle"
  BY DEF Idle
<1> QED BY <1>1, GoesOn DEF Done

LEMMA ServedTyped ==
  ASSUME Typed, NEW r \in Request, req[r].pc # "idle", NEW q \in Work,
         req' = [req EXCEPT ![r] = q], issued' = issued, q.token = req[r].token
  PROVE  req' \in [Request -> {Idle} \cup Work] /\ Admitted'
BY GoesOn DEF Typed, Admitted

LEMMA StepTyped ==
  ASSUME Typed, NEW r \in Request, req[r].pc # "idle", NEW pc \in Step, Goto(r, pc),
         issued' = issued
  PROVE  req' \in [Request -> {Idle} \cup Work] /\ Admitted'
<1> DEFINE q == [req[r] EXCEPT !.pc = pc]
<1>1. req[r] \in Work
  BY BusyRequest DEF Typed
<1>2. q \in Work /\ q.token = req[r].token
  BY <1>1 DEF Work
<1>3. req' = [req EXCEPT ![r] = q]
  BY DEF Goto
<1> HIDE DEF q
<1> QED BY <1>2, <1>3, ServedTyped

LEMMA ClockInRange ==
  ASSUME TypeOK
  PROVE  /\ now \in Nat /\ 1 <= now /\ cutoff \in Nat
         /\ \A k \in Token : issued[k] # None => issued[k] \in Nat /\ Expiry(k) \in Nat
BY SettingsAssumption DEF TypeOK, Time, Expiry

\* What the clock, the tokens and the revocations leave of the types.
LEMMA TokensTyped ==
  ASSUME Typed,
         \/ Tick \/ ForceLogout \/ CleanDenylist \/ \E k \in Token : Login(k)
         \/ \E r \in Request : Logout(r) \/ LogoutAll(r)
  PROVE  Typed'
<1> USE DEF sessionVars, postingVars, challengeVars
<1>a. TypeOK /\ Admitted
  BY DEF Typed
<1>1. CASE Tick
  <2>1. now' \in Time
    BY <1>1, SettingsAssumption DEF Tick, Time, Typed, TypeOK
  <2> QED BY <1>1, <2>1 DEF Tick, Typed, TypeOK, Admitted, Expiry
<1>2. CASE ForceLogout
  <2>1. cutoff' \in 0 .. MaxTime
    BY <1>2, SettingsAssumption DEF ForceLogout, RevokeAll, Typed, TypeOK, Time
  <2>2. ended' \subseteq Token
    BY <1>2 DEF ForceLogout, RevokeAll, Typed, TypeOK
  <2> QED BY <1>2, <2>1, <2>2 DEF ForceLogout, RevokeAll, Typed, TypeOK, Admitted, Expiry
<1>3. CASE CleanDenylist
  BY <1>3 DEF CleanDenylist, Typed, TypeOK, Admitted, Expiry
<1>4. ASSUME NEW k \in Token, Login(k) PROVE Typed'
  <2>1. issued' \in [Token -> Time \cup {None}] /\ \A j \in Token : j # k => issued'[j] = issued[j]
    BY <1>4 DEF Login, Typed, TypeOK
  <2>2. now # None => issued'[k] # None
    BY <1>4 DEF Login, Typed, TypeOK
  <2>3. ASSUME NEW d \in denylist PROVE issued'[d.jti] # None /\ d.until = Expiry(d.jti)'
    BY <1>4, <2>3 DEF Login, Typed, TypeOK, Expiry
  <2>4. Admitted'
    <3> SUFFICES ASSUME NEW s \in Request, req[s].pc # "idle" PROVE issued'[req[s].token] # None
      BY <1>4 DEF Login, Admitted
    <3>1. req[s].token \in Token
      BY BusyRequest DEF Typed, Work
    <3> QED BY <1>4, <2>1, <3>1 DEF Login, Typed, Admitted
  <2> QED BY <1>4, <2>1, <2>3, <2>4 DEF Login, Typed, TypeOK
<1>5. ASSUME NEW r \in Request, Logout(r) PROVE Typed'
  <2> DEFINE j == req[r].token
             d == [jti |-> j, until |-> Expiry(j)]
  <2>1. req[r] \in Work /\ issued[j] # None
    BY <1>5, <1>a, BusyRequest DEF Logout, Admitted
  <2>2. j \in Token
    BY <2>1 DEF Work
  <2>3. Expiry(j) \in Nat
    BY <1>a, <2>1, <2>2, ClockInRange
  <2>4. denylist' = denylist \cup {d} /\ ended' = ended \cup {j}
    BY <1>5 DEF Logout, Deny
  <2>5. req' \in [Request -> {Idle} \cup Work] /\ Admitted'
    BY <1>5, EndsTyped DEF Logout
  <2>6. d \in [jti : Token, until : Nat] /\ issued[d.jti] # None /\ d.until = Expiry(d.jti)
    BY <2>1, <2>2, <2>3
  <2> HIDE DEF d, j
  <2> QED BY <1>5, <2>2, <2>4, <2>5, <2>6 DEF Logout, Typed, TypeOK, Expiry
<1>6. ASSUME NEW r \in Request, LogoutAll(r) PROVE Typed'
  <2>1. cutoff' \in 0 .. MaxTime
    BY <1>6, SettingsAssumption DEF LogoutAll, RevokeAll, Typed, TypeOK, Time
  <2>2. ended' \subseteq Token
    BY <1>6 DEF LogoutAll, RevokeAll, Typed, TypeOK
  <2>3. req' \in [Request -> {Idle} \cup Work] /\ Admitted'
    BY <1>6, StepTyped DEF LogoutAll, RevokeAll, Step
  <2> QED BY <1>6, <2>1, <2>2, <2>3 DEF LogoutAll, RevokeAll, Typed, TypeOK, Expiry
<1> QED BY <1>1, <1>2, <1>3, <1>4, <1>5, <1>6

\* Arrivals and the postings' cache.
LEMMA PostingsTyped ==
  ASSUME Typed,
         \/ PostingChanges
         \/ \E r \in Request, i \in Instance, k \in Token : Arrive(r, i, k)
         \/ \E r \in Request :
              UseCachedPostings(r) \/ AskPostings(r) \/ ReadPostings(r) \/ StorePostings(r)
  PROVE  Typed'
<1> USE DEF sessionVars, postingVars, challengeVars
<1>a. TypeOK /\ Admitted
  BY DEF Typed
<1>1. CASE PostingChanges
  <2>1. posting' \in [held : BOOLEAN, since : Time]
    BY <1>1 DEF PostingChanges, Typed, TypeOK
  <2> QED BY <1>1, <2>1 DEF PostingChanges, Typed, TypeOK, Admitted, Expiry
<1>2. ASSUME NEW r \in Request, NEW i \in Instance, NEW k \in Token, Arrive(r, i, k)
      PROVE  Typed'
  <2> DEFINE q == [pc |-> "known", at |-> i, token |-> k, until |-> 0, posted |-> FALSE,
                   seen |-> 0]
  <2>1. q \in Work /\ q.token = k
    BY DEF Work, Step
  <2>2. issued[k] # None
    BY <1>2 DEF Arrive, Accepts, Live
  <2>3. req' = [req EXCEPT ![r] = q] /\ issued' = issued
    BY <1>2 DEF Arrive
  <2>4. req' \in [Request -> {Idle} \cup Work] /\ Admitted'
    <3> HIDE DEF q
    <3> QED BY <2>1, <2>2, <2>3, GoesOn
  <2> QED BY <1>2, <2>4 DEF Arrive, Typed, TypeOK, Expiry
<1>3. ASSUME NEW r \in Request, UseCachedPostings(r) PROVE Typed'
  <2>1. req' \in [Request -> {Idle} \cup Work] /\ Admitted'
    BY <1>3, StepTyped DEF UseCachedPostings, Step
  <2> QED BY <1>3, <2>1 DEF UseCachedPostings, Typed, TypeOK, Expiry
<1>4. ASSUME NEW r \in Request, AskPostings(r) PROVE Typed'
  <2> DEFINE q == [req[r] EXCEPT !.pc = "loading", !.until = now + CacheTtl]
  <2>1. req[r] \in Work /\ req[r].pc # "idle"
    BY <1>4, <1>a, BusyRequest DEF AskPostings
  <2>2. now + CacheTtl \in Nat
    BY <1>a, ClockInRange, SettingsAssumption
  <2>3. q \in Work /\ q.token = req[r].token
    BY <2>1, <2>2 DEF Work, Step
  <2>4. req' = [req EXCEPT ![r] = q] /\ issued' = issued
    BY <1>4 DEF AskPostings
  <2>5. req' \in [Request -> {Idle} \cup Work] /\ Admitted'
    <3> HIDE DEF q
    <3> QED BY <2>1, <2>3, <2>4, ServedTyped
  <2> QED BY <1>4, <2>5 DEF AskPostings, Typed, TypeOK, Expiry
<1>5. ASSUME NEW r \in Request, ReadPostings(r) PROVE Typed'
  <2> DEFINE q == [req[r] EXCEPT !.pc = "loaded", !.posted = posting.held]
  <2>1. req[r] \in Work /\ req[r].pc # "idle"
    BY <1>5, <1>a, BusyRequest DEF ReadPostings
  <2>2. posting.held \in BOOLEAN
    BY DEF Typed, TypeOK
  <2>3. q \in Work /\ q.token = req[r].token
    BY <2>1, <2>2 DEF Work, Step
  <2>4. req' = [req EXCEPT ![r] = q] /\ issued' = issued
    BY <1>5 DEF ReadPostings
  <2>5. req' \in [Request -> {Idle} \cup Work] /\ Admitted'
    <3> HIDE DEF q
    <3> QED BY <2>1, <2>3, <2>4, ServedTyped
  <2> QED BY <1>5, <2>5 DEF ReadPostings, Typed, TypeOK, Expiry
<1>6. ASSUME NEW r \in Request, StorePostings(r) PROVE Typed'
  <2> DEFINE q == [req[r] EXCEPT !.pc = "ready", !.until = 0, !.posted = FALSE]
  <2>1. req[r] \in Work /\ req[r].pc # "idle"
    BY <1>6, <1>a, BusyRequest DEF StorePostings
  <2>3. q \in Work /\ q.token = req[r].token
    BY <2>1 DEF Work, Step
  <2>4. req' = [req EXCEPT ![r] = q] /\ issued' = issued
    BY <1>6 DEF StorePostings
  <2>5. req' \in [Request -> {Idle} \cup Work] /\ Admitted'
    <3> HIDE DEF q
    <3> QED BY <2>1, <2>3, <2>4, ServedTyped
  <2>6. Entry(req[r]) \in [posted : BOOLEAN, until : Nat]
    BY <2>1 DEF Entry, Work
  <2>7. cache' \in [Instance -> {None} \cup [posted : BOOLEAN, until : Nat]]
    BY <1>6, <2>6 DEF StorePostings, Typed, TypeOK
  <2> QED BY <1>6, <2>5, <2>7 DEF StorePostings, Typed, TypeOK, Expiry
<1> QED BY <1>1, <1>2, <1>3, <1>4, <1>5, <1>6

\* The challenge.
LEMMA ChallengeTyped ==
  ASSUME Typed,
         \/ CleanChallenges
         \/ \E r \in Request :
              IssueChallenge(r) \/ CheckCode(r) \/ CountWrongCode(r) \/ ConsumeChallenge(r)
  PROVE  Typed'
<1> USE DEF sessionVars, postingVars, challengeVars
<1> DEFINE Row == [expires : Nat, attempts : Nat, consumed : BOOLEAN]
<1>a. TypeOK /\ Admitted /\ challenge \in {None} \cup Row
  BY DEF Typed, TypeOK
<1>1. ASSUME NEW r \in Request, IssueChallenge(r) PROVE Typed'
  <2>1. now + CodeTtl \in Nat
    BY <1>a, ClockInRange, SettingsAssumption
  <2>2. challenge' \in Row
    BY <1>1, <2>1 DEF IssueChallenge
  <2>3. req' \in [Request -> {Idle} \cup Work] /\ Admitted'
    BY <1>1, EndsTyped DEF IssueChallenge
  <2> QED BY <1>1, <2>2, <2>3 DEF IssueChallenge, Typed, TypeOK, Expiry
<1>2. ASSUME NEW r \in Request, CheckCode(r) PROVE Typed'
  <2>1. PICK pc \in {"right", "wrong"} :
          req' = [req EXCEPT ![r].pc = pc, ![r].seen = challenge.attempts]
    BY <1>2 DEF CheckCode
  <2> DEFINE q == [req[r] EXCEPT !.pc = pc, !.seen = challenge.attempts]
  <2>2. req[r] \in Work /\ req[r].pc # "idle" /\ issued' = issued
    BY <1>2, <1>a, BusyRequest DEF CheckCode
  <2>3. challenge.attempts \in Nat
    BY <1>2, <1>a DEF CheckCode
  <2>4. q \in Work /\ q.token = req[r].token
    BY <2>2, <2>3 DEF Work, Step
  <2>5. req' = [req EXCEPT ![r] = q]
    BY <2>1
  <2>6. req' \in [Request -> {Idle} \cup Work] /\ Admitted'
    <3> HIDE DEF q
    <3> QED BY <2>2, <2>4, <2>5, ServedTyped
  <2> QED BY <1>2, <2>6 DEF CheckCode, Typed, TypeOK, Expiry
<1>3. ASSUME NEW r \in Request, CountWrongCode(r) PROVE Typed'
  <2>1. challenge' \in {None} \cup Row
    BY <1>3, <1>a DEF CountWrongCode, Counted
  <2>2. req' \in [Request -> {Idle} \cup Work] /\ Admitted'
    BY <1>3, EndsTyped DEF CountWrongCode
  <2> QED BY <1>3, <2>1, <2>2 DEF CountWrongCode, Typed, TypeOK, Expiry
<1>4. ASSUME NEW r \in Request, ConsumeChallenge(r) PROVE Typed'
  <2>1. challenge' \in {None} \cup Row
    BY <1>4, <1>a DEF ConsumeChallenge
  <2>2. req' \in [Request -> {Idle} \cup Work] /\ Admitted'
    BY <1>4, EndsTyped DEF ConsumeChallenge
  <2> QED BY <1>4, <2>1, <2>2 DEF ConsumeChallenge, Typed, TypeOK, Expiry
<1>5. CASE CleanChallenges
  BY <1>5 DEF CleanChallenges, Typed, TypeOK, Admitted, Expiry
<1> QED BY <1>1, <1>2, <1>3, <1>4, <1>5

LEMMA NextTyped == Typed /\ [Next]_vars => Typed'
<1> SUFFICES ASSUME Typed, [Next]_vars PROVE Typed'
  OBVIOUS
<1>1. CASE UNCHANGED vars
  BY <1>1 DEF vars, sessionVars, postingVars, challengeVars, Typed, TypeOK, Admitted, Expiry
<1>2. CASE Next
  BY <1>2, TokensTyped, PostingsTyped, ChallengeTyped DEF Next, Serve
<1> QED BY <1>1, <1>2

\* Clock, tokens, caches, challenge and requests keep the shape the code
\* gives them, and a denylist row lasts exactly as long as its token.
THEOREM TypeCorrect == Spec => []TypeOK
<1>1. Typed => TypeOK
  BY DEF Typed
<1> QED BY <1>1, InitTyped, NextTyped, PTL DEF Spec

(***************************************************************************)
(* Revocation.                                                             *)
(***************************************************************************)
\* Nothing is issued or revoked in the future.
Past ==
  /\ cutoff <= now
  /\ \A k \in Token : issued[k] # None => issued[k] <= now

\* An ended token is on the denylist, or up to the cutoff, or has expired,
\* so that the denylist no longer needs it.
Over(k) ==
  /\ issued[k] # None
  /\ (\E d \in denylist : d.jti = k) \/ CutOff(k) \/ Expiry(k) <= now

Revoked == Past /\ \A k \in ended : Over(k)

LEMMA OverIsRefused == TypeOK /\ Revoked => EndedStaysEnded
<1> SUFFICES ASSUME TypeOK, Revoked, NEW k \in ended, Accepts(k) PROVE FALSE
  BY DEF EndedStaysEnded
<1>1. k \in Token /\ Over(k)
  BY DEF TypeOK, Revoked
<1>2. Expiry(k) \in Nat /\ now \in Nat /\ now < Expiry(k) /\ ~CutOff(k) /\ ~Denied(k)
  BY <1>1, ClockInRange DEF Accepts, Live
<1>3. PICK d \in denylist : d.jti = k
  BY <1>1, <1>2 DEF Over
<1>4. d.until = Expiry(k)
  BY <1>3 DEF TypeOK
<1> QED BY <1>2, <1>3, <1>4 DEF Denied

LEMMA InitRevoked == Init => Revoked
BY DEF Init, Revoked, Past

\* A revocation of everything ends what was issued, at any second up to its.
LEMMA AllRevoked ==
  ASSUME Typed, Revoked, RevokeAll
  PROVE  Revoked'
<1>1. now \in Nat /\ 1 <= now /\ \A k \in Token : issued[k] # None => issued[k] \in Nat
  BY ClockInRange DEF Typed
<1>2. Past'
  BY <1>1 DEF RevokeAll, Revoked, Past
<1>3. \A k \in Token : issued[k] # None => Over(k)'
  BY <1>1 DEF RevokeAll, Revoked, Past, Over, CutOff
<1>4. \A k \in ended : Over(k)'
  BY <1>3 DEF Typed, TypeOK, Revoked, Over
<1> QED BY <1>2, <1>3, <1>4 DEF RevokeAll, Revoked

LEMMA NextRevoked == Typed /\ Revoked /\ [Next]_vars => Revoked'
<1> SUFFICES ASSUME Typed, Revoked, [Next]_vars PROVE Revoked'
  OBVIOUS
<1> USE DEF sessionVars, postingVars, challengeVars
<1>a. /\ now \in Nat /\ 1 <= now /\ cutoff \in Nat /\ ended \subseteq Token
      /\ \A k \in Token : issued[k] # None => issued[k] \in Nat /\ Expiry(k) \in Nat
  BY ClockInRange DEF Typed, TypeOK
<1>1. CASE Tick
  BY <1>1, <1>a DEF Tick, Revoked, Past, Over, CutOff, Expiry
<1>2. ASSUME NEW k \in Token, Login(k) PROVE Revoked'
  <2>1. \A j \in Token : issued'[j] = IF j = k THEN now ELSE issued[j]
    BY <1>2 DEF Login, Typed, TypeOK
  <2>2. k \notin ended
    BY <1>2 DEF Login, Revoked, Over
  <2>3. Past'
    BY <1>2, <1>a, <2>1 DEF Login, Revoked, Past
  <2>4. \A j \in ended : Over(j)'
    BY <1>2, <1>a, <2>1, <2>2 DEF Login, Revoked, Over, CutOff, Expiry
  <2> QED BY <1>2, <2>3, <2>4 DEF Login, Revoked
<1>3. ASSUME NEW r \in Request, Logout(r) PROVE Revoked'
  <2>1. PICK k \in Token : k = req[r].token
    BY <1>3, BusyRequest DEF Logout, Typed, Work
  <2> DEFINE d == [jti |-> k, until |-> Expiry(k)]
  <2>2. issued[k] # None
    BY <1>3, <2>1 DEF Logout, Typed, Admitted
  <2>3. ended' = ended \cup {k} /\ denylist' = denylist \cup {d}
    BY <1>3, <2>1 DEF Logout, Deny
  <2>4. d.jti = k
    OBVIOUS
  <2>5. UNCHANGED <<now, issued, cutoff>>
    BY <1>3 DEF Logout
  <2> HIDE DEF d
  <2>6. Over(k)' /\ \A j \in ended : Over(j)'
    BY <2>2, <2>3, <2>4, <2>5 DEF Revoked, Over, CutOff, Expiry
  <2> QED BY <2>3, <2>5, <2>6 DEF Revoked, Past
<1>4. CASE RevokeAll
  BY <1>4, AllRevoked
<1>5. CASE CleanDenylist
  <2>1. ASSUME NEW k \in ended PROVE Over(k)'
    <3>1. k \in Token /\ Over(k)
      BY <1>a DEF Revoked
    <3>2. Expiry(k) \in Nat
      BY <1>a, <3>1 DEF Over
    <3>3. CASE CutOff(k) \/ Expiry(k) <= now
      BY <1>5, <3>1, <3>3 DEF CleanDenylist, Over, CutOff, Expiry
    <3>4. ASSUME NEW d \in denylist, d.jti = k, now < Expiry(k) PROVE Over(k)'
      <4>1. d.until = Expiry(k)
        BY <3>4 DEF Typed, TypeOK
      <4>2. d \in denylist'
        BY <1>5, <1>a, <3>4, <4>1 DEF CleanDenylist
      <4> QED BY <1>5, <3>1, <3>4, <4>2 DEF CleanDenylist, Over
    <3> QED BY <1>a, <3>1, <3>2, <3>3, <3>4 DEF Over
  <2> QED BY <1>5, <2>1 DEF CleanDenylist, Revoked, Past
<1>6. CASE UNCHANGED <<now, sessionVars>>
  BY <1>6 DEF Revoked, Past, Over, CutOff, Expiry
<1>7. CASE UNCHANGED vars
  BY <1>6, <1>7 DEF vars
<1>8. CASE Next
  <2>1. CASE ForceLogout
    BY <2>1, <1>4 DEF ForceLogout
  <2>2. CASE CleanChallenges \/ PostingChanges
    BY <2>2, <1>6 DEF CleanChallenges, PostingChanges
  <2>3. ASSUME NEW r \in Request, NEW i \in Instance, NEW k \in Token, Arrive(r, i, k)
        PROVE  Revoked'
    BY <2>3, <1>6 DEF Arrive
  <2>4. ASSUME NEW r \in Request, Serve(r) PROVE Revoked'
    <3>1. CASE LogoutAll(r)
      BY <3>1, <1>4 DEF LogoutAll
    <3>2. CASE UseCachedPostings(r) \/ AskPostings(r) \/ ReadPostings(r) \/ StorePostings(r)
      BY <3>2, <1>6 DEF UseCachedPostings, AskPostings, ReadPostings, StorePostings
    <3>3. CASE IssueChallenge(r) \/ CheckCode(r) \/ CountWrongCode(r) \/ ConsumeChallenge(r)
      BY <3>3, <1>6 DEF IssueChallenge, CheckCode, CountWrongCode, ConsumeChallenge
    <3> QED BY <2>4, <1>3, <3>1, <3>2, <3>3 DEF Serve
  <2> QED BY <1>1, <1>2, <1>5, <1>8, <2>1, <2>2, <2>3, <2>4 DEF Next
<1> QED BY <1>7, <1>8

\* A token that was ended is accepted at no later time: not in the second of
\* the logout, and not after the denylist was cleaned.
THEOREM EndedAlwaysEnded == Spec => []EndedStaysEnded
<1>1. Init => Typed /\ Revoked
  BY InitTyped, InitRevoked
<1>2. Typed /\ Revoked /\ [Next]_vars => (Typed /\ Revoked)'
  BY NextTyped, NextRevoked
<1>3. Typed /\ Revoked => EndedStaysEnded
  BY OverIsRefused DEF Typed
<1> QED BY <1>1, <1>2, <1>3, PTL DEF Spec

(***************************************************************************)
(* Postings.                                                               *)
(***************************************************************************)
\* An answer taken while the officer was posted, and not since, expires by then.
Short(posted, until) == posted /\ ~posting.held => until <= posting.since + CacheTtl

\* What a cache holds, or a request is about to put there, expires within a
\* lifetime of the question, and of the change that made it wrong.
Lag ==
  /\ posting.since <= now
  /\ \A i \in Instance : cache[i] # None =>
       /\ cache[i].until <= now + CacheTtl
       /\ Short(cache[i].posted, cache[i].until)
  /\ \A r \in Request :
       /\ req[r].pc \in {"loading", "loaded"} => req[r].until <= now + CacheTtl
       /\ req[r].pc = "loaded" => Short(req[r].posted, req[r].until)

LEMMA LagIsBounded == TypeOK /\ Lag => RolesLagBounded
<1> SUFFICES ASSUME TypeOK, Lag, NEW i \in Instance,
                    Cached(i), cache[i].posted, ~posting.held
             PROVE  now < posting.since + CacheTtl
  BY DEF RolesLagBounded
<1>1. cache[i].until <= posting.since + CacheTtl /\ now < cache[i].until
  BY DEF Lag, Short, Cached
<1>2. cache[i].until \in Nat /\ posting.since \in Nat /\ now \in Nat
  BY DEF TypeOK, Time, Cached
<1> QED BY <1>1, <1>2, SettingsAssumption

LEMMA InitLag == Init => Lag
<1> SUFFICES ASSUME Init PROVE Lag
  OBVIOUS
<1>1. Idle.pc = "idle"
  BY DEF Idle
<1> QED BY <1>1 DEF Init, Lag

LEMMA TimesAreNumbers ==
  ASSUME TypeOK
  PROVE  /\ now \in Nat /\ posting.since \in Nat /\ CacheTtl \in Nat
         /\ \A i \in Instance : cache[i] # None => cache[i].until \in Nat
         /\ \A r \in Request : req[r].pc # "idle" => req[r].until \in Nat
<1>1. \A r \in Request : req[r].pc # "idle" => req[r].until \in Nat
  BY BusyRequest DEF Work
<1> QED BY <1>1, SettingsAssumption DEF TypeOK, Time

\* A request that neither asks nor has an answer to store.
LEMMA NoAnswer ==
  ASSUME TypeOK, Lag, NEW r \in Request, UNCHANGED <<now, posting, cache>>,
         \E q : req' = [req EXCEPT ![r] = q] /\ q.pc \notin {"loading", "loaded"}
  PROVE  Lag'
BY DEF Lag, Short, TypeOK

LEMMA NoAnswerStep ==
  ASSUME TypeOK, Lag, NEW r \in Request, UNCHANGED <<now, posting, cache>>,
         Done(r) \/ \E pc \in Step \ {"loading", "loaded"} : Goto(r, pc),
         req[r].pc # "idle"
  PROVE  Lag'
<1>1. CASE Done(r)
  <2>1. Idle.pc = "idle"
    BY DEF Idle
  <2>2. req' = [req EXCEPT ![r] = Idle]
    BY <1>1 DEF Done
  <2> QED BY <2>1, <2>2, NoAnswer
<1>2. ASSUME NEW pc \in Step \ {"loading", "loaded"}, Goto(r, pc) PROVE Lag'
  <2> DEFINE q == [req[r] EXCEPT !.pc = pc]
  <2>1. req[r] \in Work
    BY BusyRequest
  <2>2. q.pc = pc
    BY <2>1 DEF Work
  <2>3. req' = [req EXCEPT ![r] = q]
    BY <1>2 DEF Goto
  <2> HIDE DEF q
  <2> QED BY <1>2, <2>2, <2>3, NoAnswer
<1> QED BY <1>1, <1>2

LEMMA AskLag ==
  ASSUME TypeOK, Lag, NEW r \in Request, AskPostings(r)
  PROVE  Lag'
<1> USE DEF sessionVars, postingVars, challengeVars
<1> DEFINE q == [req[r] EXCEPT !.pc = "loading", !.until = now + CacheTtl]
<1>1. req[r] \in Work
  BY BusyRequest DEF AskPostings
<1>2. q.pc = "loading" /\ q.until = now + CacheTtl
  BY <1>1 DEF Work
<1>3. req' = [req EXCEPT ![r] = q]
  BY DEF AskPostings
<1> HIDE DEF q
<1>4. \A s \in Request : req'[s] = IF s = r THEN q ELSE req[s]
  BY <1>3 DEF TypeOK
<1>5. now \in Nat /\ CacheTtl \in Nat /\ UNCHANGED <<now, posting, cache>>
  BY TimesAreNumbers DEF AskPostings
<1>6. ASSUME NEW s \in Request
      PROVE  /\ req'[s].pc \in {"loading", "loaded"} => req'[s].until <= now + CacheTtl
             /\ req'[s].pc = "loaded" => Short(req'[s].posted, req'[s].until)
  <2>1. CASE s = r
    BY <1>2, <1>4, <1>5, <2>1
  <2>2. CASE s # r
    BY <1>4, <2>2 DEF Lag
  <2> QED BY <2>1, <2>2
<1> QED BY <1>5, <1>6 DEF Lag, Short

LEMMA ReadLag ==
  ASSUME TypeOK, Lag, NEW r \in Request, ReadPostings(r)
  PROVE  Lag'
<1> USE DEF sessionVars, postingVars, challengeVars
<1> DEFINE q == [req[r] EXCEPT !.pc = "loaded", !.posted = posting.held]
<1>1. req[r] \in Work
  BY BusyRequest DEF ReadPostings
<1>2. q.pc = "loaded" /\ q.until = req[r].until /\ q.posted = posting.held
  BY <1>1 DEF Work
<1>3. req' = [req EXCEPT ![r] = q]
  BY DEF ReadPostings
<1> HIDE DEF q
<1>4. \A s \in Request : req'[s] = IF s = r THEN q ELSE req[s]
  BY <1>3 DEF TypeOK
<1> QED BY <1>2, <1>4 DEF ReadPostings, Lag, Short

LEMMA StoreLag ==
  ASSUME TypeOK, Lag, NEW r \in Request, StorePostings(r)
  PROVE  Lag'
<1> USE DEF sessionVars, postingVars, challengeVars
<1> DEFINE q == [req[r] EXCEPT !.pc = "ready", !.until = 0, !.posted = FALSE]
           e == Entry(req[r])
<1>1. req[r] \in Work
  BY BusyRequest DEF StorePostings
<1>2. q.pc = "ready"
  BY <1>1 DEF Work
<1>3. req' = [req EXCEPT ![r] = q] /\ cache' = [cache EXCEPT ![req[r].at] = e]
  BY DEF StorePostings
<1>4. e.posted = req[r].posted /\ e.until = req[r].until
  BY DEF Entry
<1> HIDE DEF q, e
<1>5. \A s \in Request : req'[s] = IF s = r THEN q ELSE req[s]
  BY <1>3 DEF TypeOK
<1>6. \A i \in Instance : cache'[i] = e \/ cache'[i] = cache[i]
  BY <1>3 DEF TypeOK
<1>7. e.until <= now + CacheTtl /\ Short(e.posted, e.until)
  BY <1>4 DEF StorePostings, Lag
<1> QED BY <1>2, <1>5, <1>6, <1>7 DEF StorePostings, Lag, Short

LEMMA NextLag == Typed /\ Lag /\ [Next]_vars => Lag'
<1> SUFFICES ASSUME TypeOK, Lag, [Next]_vars PROVE Lag'
  BY DEF Typed
<1> USE DEF sessionVars, postingVars, challengeVars
<1>1. CASE UNCHANGED <<now, posting, cache, req>>
  BY <1>1 DEF Lag, Short
<1>2. CASE Tick
  BY <1>2, TimesAreNumbers DEF Tick, Lag, Short
<1>3. CASE PostingChanges
  <2>1. posting' = [held |-> ~posting.held, since |-> now] /\ UNCHANGED <<now, cache, req>>
    BY <1>3 DEF PostingChanges
  <2>2. posting'.since = now
    BY <2>1
  <2> QED BY <2>1, <2>2, TimesAreNumbers DEF Lag, Short
<1>4. ASSUME NEW r \in Request, NEW i \in Instance, NEW k \in Token, Arrive(r, i, k)
      PROVE  Lag'
  <2> DEFINE q == [pc |-> "known", at |-> i, token |-> k, until |-> 0, posted |-> FALSE,
                   seen |-> 0]
  <2>1. q.pc \notin {"loading", "loaded"} /\ req' = [req EXCEPT ![r] = q]
    BY <1>4 DEF Arrive
  <2> HIDE DEF q
  <2> QED BY <1>4, <2>1, NoAnswer DEF Arrive
<1>5. ASSUME NEW r \in Request, Serve(r) PROVE Lag'
  <2>1. CASE Logout(r)
    BY <2>1, NoAnswerStep DEF Logout
  <2>2. CASE LogoutAll(r)
    BY <2>2, NoAnswerStep DEF LogoutAll, RevokeAll, Step
  <2>3. CASE UseCachedPostings(r)
    BY <2>3, NoAnswerStep DEF UseCachedPostings, Step
  <2>4. CASE IssueChallenge(r)
    BY <2>4, NoAnswerStep DEF IssueChallenge
  <2>5. CASE CheckCode(r)
    <3>1. PICK pc \in {"right", "wrong"} :
            req' = [req EXCEPT ![r].pc = pc, ![r].seen = challenge.attempts]
      BY <2>5 DEF CheckCode
    <3> DEFINE q == [req[r] EXCEPT !.pc = pc, !.seen = challenge.attempts]
    <3>2. req[r] \in Work
      BY <2>5, BusyRequest DEF CheckCode
    <3>3. q.pc = pc
      BY <3>2 DEF Work
    <3>4. req' = [req EXCEPT ![r] = q]
      BY <3>1
    <3> HIDE DEF q
    <3> QED BY <2>5, <3>3, <3>4, NoAnswer DEF CheckCode
  <2>6. CASE CountWrongCode(r)
    BY <2>6, NoAnswerStep DEF CountWrongCode
  <2>7. CASE ConsumeChallenge(r)
    BY <2>7, NoAnswerStep DEF ConsumeChallenge
  <2> QED BY <1>5, <2>1, <2>2, <2>3, <2>4, <2>5, <2>6, <2>7, AskLag, ReadLag, StoreLag DEF Serve
<1>6. CASE UNCHANGED vars
  BY <1>1, <1>6 DEF vars
<1>7. CASE Next
  <2>1. CASE ForceLogout \/ CleanDenylist \/ CleanChallenges
    BY <2>1, <1>1 DEF ForceLogout, RevokeAll, CleanDenylist, CleanChallenges
  <2>2. ASSUME NEW k \in Token, Login(k) PROVE Lag'
    BY <2>2, <1>1 DEF Login
  <2> QED BY <1>2, <1>3, <1>4, <1>5, <1>7, <2>1, <2>2 DEF Next
<1> QED BY <1>6, <1>7

\* A posting that was taken away is used by no instance for longer than the
\* cache's lifetime, however slow the query that filled the cache was.
THEOREM RolesLagAlwaysBounded == Spec => []RolesLagBounded
<1>1. Init => Typed /\ Lag
  BY InitTyped, InitLag
<1>2. Typed /\ Lag /\ [Next]_vars => (Typed /\ Lag)'
  BY NextTyped, NextLag
<1>3. Typed /\ Lag => RolesLagBounded
  BY LagIsBounded DEF Typed
<1> QED BY <1>1, <1>2, <1>3, PTL DEF Spec

(***************************************************************************)
(* Challenges.                                                             *)
(***************************************************************************)
At(pc) == {r \in Request : req[r].pc = pc}

\* The requests whose code is compared but not recorded yet passed the limits
\* before; the row counts what was recorded.
Limits ==
  /\ wrong \in Nat /\ uses \in Nat
  /\ challenge # None => /\ challenge.attempts = wrong
                         /\ challenge.consumed <=> uses > 0
  /\ wrong + Cardinality(At("wrong")) < MaxAttempts + Cardinality(Request)
  /\ uses + Cardinality(At("right")) <= Cardinality(Request)

LEMMA AtMostAll ==
  ASSUME NEW pc
  PROVE  /\ IsFiniteSet(At(pc)) /\ Cardinality(At(pc)) \in Nat
         /\ Cardinality(Request) \in Nat
         /\ Cardinality(At(pc)) <= Cardinality(Request)
<1>1. At(pc) \subseteq Request
  BY DEF At
<1> QED BY <1>1, FS_Subset, FS_CardinalityType, SettingsAssumption

LEMMA LimitsHold == Limits => ChallengeLimits
<1>1. /\ Cardinality(At("wrong")) \in Nat /\ Cardinality(At("right")) \in Nat
      /\ Cardinality(Request) \in Nat
  BY AtMostAll
<1> QED BY <1>1, SettingsAssumption DEF Limits, ChallengeLimits

LEMMA InitLimits == Init => Limits
<1> SUFFICES ASSUME Init PROVE Limits
  OBVIOUS
<1>1. At("wrong") = {} /\ At("right") = {}
  BY DEF Init, At, Idle
<1>2. Cardinality(At("wrong")) = 0 /\ Cardinality(At("right")) = 0
  BY <1>1, FS_EmptySet
<1>3. Cardinality(Request) \in Nat
  BY AtMostAll
<1> QED BY <1>2, <1>3, SettingsAssumption DEF Init, Limits

Others(r) == \A s \in Request \ {r} : req'[s] = req[s]

\* A request that is not at pc afterwards adds none there, and one that was
\* there before is one less.
LEMMA Leaves ==
  ASSUME NEW r \in Request, NEW pc, Others(r), req'[r].pc # pc
  PROVE  /\ Cardinality(At(pc)') \in Nat
         /\ Cardinality(At(pc)') <= Cardinality(At(pc))
         /\ req[r].pc = pc => Cardinality(At(pc)') = Cardinality(At(pc)) - 1
<1>1. At(pc)' = At(pc) \ {r}
  BY DEF At, Others
<1>2. Cardinality(At(pc)) \in Nat /\ IsFiniteSet(At(pc))
  BY AtMostAll
<1>3. IsFiniteSet(At(pc) \ {r})
      /\ Cardinality(At(pc) \ {r}) = IF r \in At(pc) THEN Cardinality(At(pc)) - 1
                                     ELSE Cardinality(At(pc))
  BY <1>2, FS_RemoveElement
<1>4. Cardinality(At(pc) \ {r}) \in Nat
  BY <1>3, FS_CardinalityType
<1>5. req[r].pc = pc => r \in At(pc)
  BY DEF At
<1> QED BY <1>1, <1>2, <1>3, <1>4, <1>5

LEMMA ServedOthers ==
  ASSUME TypeOK, NEW r \in Request
  PROVE  /\ \A q : req' = [req EXCEPT ![r] = q] => Others(r) /\ req'[r] = q
         /\ Done(r) => Others(r) /\ req'[r].pc = "idle"
         /\ \A pc \in Step : req[r].pc # "idle" /\ Goto(r, pc)
                               => Others(r) /\ req'[r].pc = pc
<1>1. ASSUME NEW q, req' = [req EXCEPT ![r] = q] PROVE Others(r) /\ req'[r] = q
  BY <1>1 DEF TypeOK, Others
<1>2. Idle.pc = "idle"
  BY DEF Idle
<1>3. ASSUME NEW pc \in Step, req[r].pc # "idle", Goto(r, pc)
      PROVE  Others(r) /\ req'[r].pc = pc
  <2> DEFINE q == [req[r] EXCEPT !.pc = pc]
  <2>1. q.pc = pc
    BY <1>3, BusyRequest DEF Work
  <2>2. req' = [req EXCEPT ![r] = q]
    BY <1>3 DEF Goto
  <2> HIDE DEF q
  <2> QED BY <1>1, <2>1, <2>2
<1> QED BY <1>1, <1>2, <1>3 DEF Done

\* No code is compared, counted or accepted.
LEMMA NoCode ==
  ASSUME Limits, NEW r \in Request, UNCHANGED challengeVars, Others(r),
         req'[r].pc \notin {"right", "wrong"}
  PROVE  Limits'
<1>1. Cardinality(At("wrong")') <= Cardinality(At("wrong")) /\ Cardinality(At("wrong")') \in Nat
  BY Leaves
<1>2. Cardinality(At("right")') <= Cardinality(At("right")) /\ Cardinality(At("right")') \in Nat
  BY Leaves
<1>3. /\ Cardinality(At("wrong")) \in Nat /\ Cardinality(At("right")) \in Nat
      /\ Cardinality(Request) \in Nat
  BY AtMostAll
<1> QED BY <1>1, <1>2, <1>3, SettingsAssumption DEF Limits, challengeVars

LEMMA CheckLimits ==
  ASSUME TypeOK, Limits, NEW r \in Request, CheckCode(r)
  PROVE  Limits'
<1>1. PICK pc \in {"right", "wrong"} :
        req' = [req EXCEPT ![r].pc = pc, ![r].seen = challenge.attempts]
  BY DEF CheckCode
<1> DEFINE q == [req[r] EXCEPT !.pc = pc, !.seen = challenge.attempts]
<1>2. q.pc = pc
  BY BusyRequest DEF CheckCode, Work
<1>3. req' = [req EXCEPT ![r] = q]
  BY <1>1
<1> HIDE DEF q
<1>4. Others(r) /\ req'[r].pc = pc
  BY <1>2, <1>3, ServedOthers
<1>5. UNCHANGED challengeVars /\ wrong < MaxAttempts /\ uses = 0
  BY DEF CheckCode, challengeVars, Open, Limits
<1>6. ASSUME NEW p
      PROVE  /\ Cardinality(At(p)') \in Nat /\ Cardinality(At(p)') <= Cardinality(Request)
             /\ Cardinality(Request) \in Nat
  <2>1. At(p)' \subseteq Request
    BY DEF At
  <2> QED BY <2>1, FS_Subset, FS_CardinalityType, SettingsAssumption
<1>7. wrong' + Cardinality(At("wrong")') < MaxAttempts + Cardinality(Request)
  BY <1>5, <1>6, SettingsAssumption DEF Limits, challengeVars
<1>8. uses' + Cardinality(At("right")') <= Cardinality(Request)
  BY <1>5, <1>6 DEF Limits, challengeVars
<1> QED BY <1>5, <1>7, <1>8 DEF Limits, challengeVars

LEMMA IssueLimits ==
  ASSUME TypeOK, Limits, NEW r \in Request, IssueChallenge(r)
  PROVE  Limits'
<1>1. wrong = 0 /\ uses = 0
  BY DEF IssueChallenge, Limits
<1>2. Others(r) /\ req'[r].pc = "idle"
  BY ServedOthers DEF IssueChallenge
<1>3. /\ Cardinality(At("wrong")') <= Cardinality(At("wrong")) /\ Cardinality(At("wrong")') \in Nat
      /\ Cardinality(At("right")') <= Cardinality(At("right")) /\ Cardinality(At("right")') \in Nat
  BY <1>2, Leaves
<1>4. /\ Cardinality(At("wrong")) \in Nat /\ Cardinality(At("right")) \in Nat
      /\ Cardinality(Request) \in Nat
  BY AtMostAll
<1>5. challenge'.attempts = 0 /\ challenge'.consumed = FALSE /\ UNCHANGED <<wrong, uses>>
  BY DEF IssueChallenge
<1> QED BY <1>1, <1>3, <1>4, <1>5, SettingsAssumption DEF Limits

LEMMA CountLimits ==
  ASSUME TypeOK, Limits, NEW r \in Request, CountWrongCode(r)
  PROVE  Limits'
<1>1. Others(r) /\ req'[r].pc = "idle" /\ req[r].pc = "wrong"
  BY ServedOthers DEF CountWrongCode
<1>2. /\ Cardinality(At("wrong")') = Cardinality(At("wrong")) - 1
      /\ Cardinality(At("right")') <= Cardinality(At("right")) /\ Cardinality(At("right")') \in Nat
  BY <1>1, Leaves
<1>3. /\ Cardinality(At("wrong")) \in Nat /\ Cardinality(At("right")) \in Nat
      /\ Cardinality(Request) \in Nat
  BY AtMostAll
<1>4. wrong' = wrong + 1 /\ uses' = uses
  BY DEF CountWrongCode
<1>5. challenge' # None => /\ challenge'.attempts = wrong'
                           /\ challenge'.consumed <=> uses' > 0
  BY <1>4 DEF CountWrongCode, Counted, Limits, TypeOK
<1> QED BY <1>2, <1>3, <1>4, <1>5, SettingsAssumption DEF Limits

LEMMA ConsumeLimits ==
  ASSUME TypeOK, Limits, NEW r \in Request, ConsumeChallenge(r)
  PROVE  Limits'
<1>1. Others(r) /\ req'[r].pc = "idle" /\ req[r].pc = "right"
  BY ServedOthers DEF ConsumeChallenge
<1>2. /\ Cardinality(At("right")') = Cardinality(At("right")) - 1
      /\ Cardinality(At("wrong")') <= Cardinality(At("wrong")) /\ Cardinality(At("wrong")') \in Nat
  BY <1>1, Leaves
<1>3. /\ Cardinality(At("wrong")) \in Nat /\ Cardinality(At("right")) \in Nat
      /\ Cardinality(Request) \in Nat
  BY AtMostAll
<1>4. uses' = uses + 1 /\ wrong' = wrong
  BY DEF ConsumeChallenge
<1>5. challenge' # None => /\ challenge'.attempts = wrong'
                           /\ challenge'.consumed <=> uses' > 0
  BY <1>4 DEF ConsumeChallenge, Limits, TypeOK
<1> QED BY <1>2, <1>3, <1>4, <1>5, SettingsAssumption DEF Limits

LEMMA NextLimits == Typed /\ Limits /\ [Next]_vars => Limits'
<1> SUFFICES ASSUME TypeOK, Limits, [Next]_vars PROVE Limits'
  BY DEF Typed
<1>1. CASE UNCHANGED <<challengeVars, req>>
  BY <1>1 DEF Limits, At, challengeVars
<1>2. CASE UNCHANGED vars
  BY <1>1, <1>2 DEF vars
<1>3. CASE Tick \/ ForceLogout \/ CleanDenylist \/ PostingChanges \/ \E k \in Token : Login(k)
  BY <1>1, <1>3 DEF Tick, ForceLogout, RevokeAll, CleanDenylist, PostingChanges, Login
<1>4. CASE CleanChallenges
  BY <1>4 DEF CleanChallenges, Limits, At
<1>5. ASSUME NEW r \in Request, NEW i \in Instance, NEW k \in Token, Arrive(r, i, k)
      PROVE  Limits'
  <2> DEFINE q == [pc |-> "known", at |-> i, token |-> k, until |-> 0, posted |-> FALSE,
                   seen |-> 0]
  <2>1. q.pc = "known" /\ req' = [req EXCEPT ![r] = q] /\ UNCHANGED challengeVars
    BY <1>5 DEF Arrive
  <2> HIDE DEF q
  <2> QED BY <2>1, ServedOthers, NoCode
<1>6. ASSUME NEW r \in Request, Serve(r) PROVE Limits'
  <2>1. CASE Logout(r)
    BY <2>1, ServedOthers, NoCode DEF Logout
  <2>2. CASE LogoutAll(r)
    <3>1. Others(r) /\ req'[r].pc = "revoking"
      BY <2>2, ServedOthers DEF LogoutAll, Step
    <3> QED BY <2>2, <3>1, NoCode DEF LogoutAll, RevokeAll
  <2>3. CASE UseCachedPostings(r)
    <3>1. Others(r) /\ req'[r].pc = "ready"
      BY <2>3, ServedOthers DEF UseCachedPostings, Step
    <3> QED BY <2>3, <3>1, NoCode DEF UseCachedPostings
  <2>4. CASE AskPostings(r)
    <3> DEFINE q == [req[r] EXCEPT !.pc = "loading", !.until = now + CacheTtl]
    <3>1. q.pc = "loading"
      BY <2>4, BusyRequest DEF AskPostings, Work
    <3>2. req' = [req EXCEPT ![r] = q] /\ UNCHANGED challengeVars
      BY <2>4 DEF AskPostings
    <3> HIDE DEF q
    <3> QED BY <3>1, <3>2, ServedOthers, NoCode
  <2>5. CASE ReadPostings(r)
    <3> DEFINE q == [req[r] EXCEPT !.pc = "loaded", !.posted = posting.held]
    <3>1. q.pc = "loaded"
      BY <2>5, BusyRequest DEF ReadPostings, Work
    <3>2. req' = [req EXCEPT ![r] = q] /\ UNCHANGED challengeVars
      BY <2>5 DEF ReadPostings
    <3> HIDE DEF q
    <3> QED BY <3>1, <3>2, ServedOthers, NoCode
  <2>6. CASE StorePostings(r)
    <3> DEFINE q == [req[r] EXCEPT !.pc = "ready", !.until = 0, !.posted = FALSE]
    <3>1. q.pc = "ready"
      BY <2>6, BusyRequest DEF StorePostings, Work
    <3>2. req' = [req EXCEPT ![r] = q] /\ UNCHANGED challengeVars
      BY <2>6 DEF StorePostings
    <3> HIDE DEF q
    <3> QED BY <3>1, <3>2, ServedOthers, NoCode
  <2> QED BY <1>6, <2>1, <2>2, <2>3, <2>4, <2>5, <2>6, IssueLimits, CheckLimits, CountLimits,
             ConsumeLimits DEF Serve
<1>7. CASE Next
  BY <1>3, <1>4, <1>5, <1>6, <1>7 DEF Next
<1> QED BY <1>2, <1>7

\* Overlapping requests pass the limits that each of them checked by no more
\* than their number, however they overlap.
THEOREM ChallengeAlwaysLimited == Spec => []ChallengeLimits
<1>1. Init => Typed /\ Limits
  BY InitTyped, InitLimits
<1>2. Typed /\ Limits /\ [Next]_vars => (Typed /\ Limits)'
  BY NextTyped, NextLimits
<1>3. Typed /\ Limits => ChallengeLimits
  BY LimitsHold
<1> QED BY <1>1, <1>2, <1>3, PTL DEF Spec
(***************************************************************************)
(* A behaviour is one of each of the parts.                                *)
(***************************************************************************)
allVars == <<vars, flagVars, secretVars, browserVars, formVars, configVars, copyVars,
             passes>>

LEMMA StepOfEachPart ==
  ASSUME [MCNext]_allVars
  PROVE  /\ [Next]_vars /\ [F!Next]_(F!vars) /\ [S!Next]_(S!vars)
         /\ [B!Next]_(B!vars) /\ [L!Next]_(L!vars) /\ [V!Next]_(V!vars)
         /\ [H!Next]_(H!vars)
<1>1. /\ UNCHANGED flagVars => UNCHANGED F!vars
      /\ UNCHANGED secretVars => UNCHANGED S!vars
      /\ UNCHANGED browserVars => UNCHANGED B!vars
      /\ UNCHANGED formVars => UNCHANGED L!vars
      /\ UNCHANGED configVars => UNCHANGED V!vars
      /\ UNCHANGED copyVars => UNCHANGED H!vars
  BY DEF flagVars, secretVars, browserVars, formVars, configVars, F!vars, S!vars, S!userVars,
         S!codeVars, B!vars, L!vars, L!flags, L!forms, V!vars, copyVars, H!vars, H!page
<1>2. CASE UNCHANGED allVars
  BY <1>1, <1>2 DEF allVars
<1>3. ASSUME MCNext, passes = "session"
      PROVE  Next /\ UNCHANGED <<flagVars, secretVars, browserVars, formVars, configVars, copyVars>>
  BY <1>3 DEF MCNext, Session, Flag, Secret, Copy, Next, Serve
<1>4. ASSUME MCNext, passes = "flag"
      PROVE  F!Next /\ UNCHANGED <<vars, secretVars, browserVars, formVars, configVars, copyVars>>
  BY <1>4 DEF MCNext, Session, Flag, Secret, Copy, F!Next
<1>5. ASSUME MCNext, passes = "secret"
      PROVE  S!Next /\ UNCHANGED <<vars, flagVars, browserVars, formVars, configVars, copyVars>>
  BY <1>5 DEF MCNext, Session, Flag, Secret, Copy
<1>6. ASSUME MCNext, passes = "browser"
      PROVE  B!Next /\ UNCHANGED <<vars, flagVars, secretVars, formVars, configVars, copyVars>>
  BY <1>6 DEF MCNext, Session, Flag, Secret, Copy
<1>7. ASSUME MCNext, passes = "form"
      PROVE  L!Next /\ UNCHANGED <<vars, flagVars, secretVars, browserVars, configVars, copyVars>>
  BY <1>7 DEF MCNext, Session, Flag, Secret, Copy
<1>8. ASSUME MCNext, passes = "config"
      PROVE  V!Next /\ UNCHANGED <<vars, flagVars, secretVars, browserVars, formVars, copyVars>>
  BY <1>8 DEF MCNext, Session, Flag, Secret, Copy
<1>9. MCNext => passes \in {"session", "flag", "secret", "browser", "form", "config", "copy"}
  BY DEF MCNext, Session, Flag, Secret, Copy
<1>10. ASSUME MCNext, passes = "copy"
       PROVE  H!Next /\ UNCHANGED <<vars, flagVars, secretVars, browserVars, formVars, configVars>>
  BY <1>10 DEF MCNext, Session, Flag, Secret, Copy, H!Next
<1> QED BY <1>1, <1>2, <1>3, <1>4, <1>5, <1>6, <1>7, <1>8, <1>9, <1>10

LEMMA PartsOfAccess ==
  MCSpec => Spec /\ F!Spec /\ S!Spec /\ B!Spec /\ L!Spec /\ V!Spec /\ H!Spec
<1>1. MCInit => Init /\ F!Init /\ S!Init /\ B!Init /\ L!Init /\ V!Init /\ H!Init
  BY DEF MCInit
<1>2. MCSpec <=> MCInit /\ [][MCNext]_allVars
  BY DEF MCSpec, allVars
<1> QED BY <1>1, <1>2, StepOfEachPart, PTL
        DEF Spec, F!Spec, S!Spec, B!Spec, L!Spec, V!Spec, H!Spec

(***************************************************************************)
(* The cached flag.                                                        *)
(***************************************************************************)
FlagEntry == [version : Nat, until : Nat]
FlagCommand == [op : {"del", "set"}, version : Nat, sent : Nat]
FlagCall == [pc : {"redis", "query", "store"}, at : Node, start : Nat, version : Nat]

FlagType ==
  /\ clock \in Nat /\ versions \in Seq(Nat) /\ Len(versions) > 0
  /\ local \in [Node -> {None} \cup FlagEntry] /\ redis \in {None} \cup FlagEntry
  /\ pipe \in [Node -> Seq(FlagCommand)] /\ call \in [Evaluator -> {F!Idle} \cup FlagCall]
  /\ lag \in Int

\* One of the definitions s that the row has had, replaced no earlier than x.
Held(s, v, x) == v \in 1 .. Len(s) /\ (v # Len(s) => x <= s[v + 1])

\* A call reads the row after it began and ends within the delay; what it sends
\* is executed within another; and a copy of what Redis keeps is kept for as
\* long once more.  Nothing lasts longer than its life from now.
LocalHeld ==
  \A i \in Node : local[i] # None =>
    /\ Held(versions, local[i].version, local[i].until + 1 - 2 * (CacheTtl + Delay))
    /\ local[i].until <= clock + CacheTtl

RedisHeld ==
  redis # None => /\ Held(versions, redis.version, redis.until - 2 * Delay - CacheTtl)
                  /\ clock < redis.until /\ redis.until <= clock + CacheTtl

PipeHeld ==
  \A i \in Node : \A n \in 1 .. Len(pipe[i]) :
    /\ pipe[i][n].sent <= clock /\ clock <= pipe[i][n].sent + Delay
    /\ pipe[i][n].op = "set" => Held(versions, pipe[i][n].version, pipe[i][n].sent - Delay)

CallHeld ==
  \A c \in Evaluator : call[c].pc # "idle" =>
    /\ call[c].start <= clock /\ clock <= call[c].start + Delay
    /\ call[c].pc = "store" => Held(versions, call[c].version, call[c].start)

FlagInv ==
  /\ FlagType /\ LocalHeld /\ RedisHeld /\ PipeHeld /\ CallHeld
  /\ lag < 2 * (CacheTtl + Delay)

LEMMA HeldEarlier ==
  ASSUME FlagType, NEW v \in Nat, NEW x \in Int, Held(versions, v, x), NEW y \in Int, y <= x
  PROVE  Held(versions, v, y)
<1>1. v \in 1 .. Len(versions)
  BY DEF Held
<1>2. ASSUME v # Len(versions) PROVE y <= versions[v + 1]
  <2>1. \A n \in 1 .. Len(versions) : versions[n] \in Nat
    BY DEF FlagType
  <2>2. v + 1 \in 1 .. Len(versions)
    BY <1>1, <1>2 DEF FlagType
  <2> DEFINE w == versions[v + 1]
  <2>3. w \in Nat /\ x <= w
    BY <1>2, <2>1, <2>2 DEF Held
  <2> HIDE DEF w
  <2>4. y <= w
    BY <2>3
  <2> QED BY <2>4 DEF w
<1> QED BY <1>1, <1>2 DEF Held

LEMMA BusyCall ==
  ASSUME FlagType, NEW c \in Evaluator, call[c].pc # "idle"
  PROVE  call[c] \in FlagCall
BY DEF FlagType, F!Idle

LEMMA SettingsAreNumbers == CacheTtl \in Nat /\ CacheTtl > 0 /\ Delay \in Nat
BY SettingsAssumption, LifetimesAssumption

LEMMA FlagInit == F!Init => FlagInv
<1> SUFFICES ASSUME F!Init PROVE FlagInv
  OBVIOUS
<1>1. FlagType
  BY DEF F!Init, FlagType
<1>2. F!Idle.pc = "idle"
  BY DEF F!Idle
<1>3. \A i \in Node : Len(pipe[i]) = 0
  BY DEF F!Init
<1> QED BY <1>1, <1>2, <1>3, SettingsAreNumbers
        DEF F!Init, FlagInv, LocalHeld, RedisHeld, PipeHeld, CallHeld

\* The margins that the lives of entries and the delays leave.
LEMMA Slack ==
  ASSUME NEW n \in Nat, NEW u \in Nat
  PROVE  LET T == CacheTtl
             D == Delay
         IN /\ u + 1 - 2 * (T + D) \in Int /\ u - 2 * D - T \in Int
            /\ u + 1 - T - 2 * D \in Int /\ n - D \in Int
            /\ n < u => /\ n < (u + 1 - 2 * (T + D)) + 2 * (T + D)
                        /\ n < (u - 2 * D - T) + 2 * (T + D)
            /\ n < u => n + 1 - T - 2 * D <= u - 2 * D - T
            /\ u + 1 - T - 2 * D <= u
            /\ n <= u + D => n < u + 2 * (T + D) /\ n - D <= u
BY SettingsAreNumbers

\* What decides lags by less than the bound.
LEMMA DecidesInTime ==
  ASSUME FlagType, NEW c \in Evaluator, NEW v \in Nat, NEW x \in Int, Held(versions, v, x),
         clock < x + 2 * (CacheTtl + Delay), F!Decide(c, v)
  PROVE  /\ lag' \in Int /\ lag' < 2 * (CacheTtl + Delay)
         /\ call' = [call EXCEPT ![c] = F!Idle]
<1> DEFINE bound == 2 * (CacheTtl + Delay)
           w == F!Replaced(v)
<1>1. v \in 1 .. Len(versions) /\ clock \in Nat /\ bound \in Nat /\ bound > 0
  BY SettingsAreNumbers DEF Held, FlagType
<1>2. w \in Nat /\ (w = clock \/ x <= w)
  <2>1. v # Len(versions) => v + 1 \in 1 .. Len(versions)
    BY <1>1 DEF FlagType
  <2>2. \A n \in 1 .. Len(versions) : versions[n] \in Nat
    BY DEF FlagType
  <2>3. v # Len(versions) => versions[v + 1] \in Nat
    BY <2>1, <2>2
  <2>4. v # Len(versions) => x <= versions[v + 1]
    BY DEF Held
  <2> QED BY <1>1, <2>3, <2>4 DEF F!Replaced, F!Current
<1>3. lag' = clock - w /\ call' = [call EXCEPT ![c] = F!Idle] /\ clock < x + bound
  BY DEF F!Decide
<1> HIDE DEF bound, w
<1>4. lag' \in Int /\ lag' < bound
  BY <1>1, <1>2, <1>3
<1> QED BY <1>3, <1>4 DEF bound

\* A call that ends leaves the others.
LEMMA CallEnds ==
  ASSUME FlagType, CallHeld, NEW c \in Evaluator, call' = [call EXCEPT ![c] = F!Idle],
         UNCHANGED <<clock, versions>>
  PROVE  call' \in [Evaluator -> {F!Idle} \cup FlagCall] /\ CallHeld'
<1>1. F!Idle.pc = "idle"
  BY DEF F!Idle
<1>2. \A d \in Evaluator : call'[d] = IF d = c THEN F!Idle ELSE call[d]
  BY DEF FlagType
<1> QED BY <1>1, <1>2 DEF FlagType, CallHeld, Held

LEMMA CallGoesOn ==
  ASSUME FlagType, CallHeld, NEW c \in Evaluator, NEW q \in FlagCall,
         call' = [call EXCEPT ![c] = q], UNCHANGED <<clock, versions>>,
         q.start <= clock, clock <= q.start + Delay, q.pc = "store" => Held(versions, q.version, q.start)
  PROVE  call' \in [Evaluator -> {F!Idle} \cup FlagCall] /\ CallHeld'
<1>2. \A d \in Evaluator : call'[d] = IF d = c THEN q ELSE call[d]
  BY DEF FlagType
<1> QED BY <1>2 DEF FlagType, CallHeld, Held

\* An instance keeps what it was given, for its life from the call.
LEMMA Kept ==
  ASSUME FlagType, LocalHeld, NEW q \in FlagCall, NEW v \in Nat, F!Keep(q, v), q.start <= clock,
         Held(versions, v, q.start + 1 - CacheTtl - 2 * Delay), UNCHANGED <<clock, versions>>
  PROVE  local' \in [Node -> {None} \cup FlagEntry] /\ LocalHeld'
<1> DEFINE e == [version |-> v, until |-> q.start + CacheTtl]
<1>1. q.start \in Nat /\ q.at \in Node
  BY DEF FlagCall
<1>2. e \in FlagEntry /\ e.version = v /\ e.until = q.start + CacheTtl
  BY <1>1, SettingsAreNumbers DEF FlagEntry
<1>3. local' = [local EXCEPT ![q.at] = e]
  BY DEF F!Keep
<1> HIDE DEF e
<1>4. \A i \in Node : local'[i] = IF i = q.at THEN e ELSE local[i]
  BY <1>3 DEF FlagType
<1>5. Held(versions, e.version, e.until + 1 - 2 * (CacheTtl + Delay)) /\ e.until <= clock + CacheTtl
  <2>1. e.until + 1 - 2 * (CacheTtl + Delay) = q.start + 1 - CacheTtl - 2 * Delay
    BY <1>1, <1>2, SettingsAreNumbers
  <2> QED BY <1>1, <1>2, <2>1, SettingsAreNumbers DEF FlagType
<1> QED BY <1>1, <1>2, <1>3, <1>4, <1>5 DEF FlagType, LocalHeld, Held

\* A command waits behind those sent before it.
LEMMA Sent ==
  ASSUME FlagType, PipeHeld, NEW i \in Node, NEW cmd \in FlagCommand, F!Send(i, cmd),
         UNCHANGED <<clock, versions>>, cmd.sent = clock,
         cmd.op = "set" => Held(versions, cmd.version, clock - Delay)
  PROVE  pipe' \in [Node -> Seq(FlagCommand)] /\ PipeHeld'
<1>1. pipe[i] \in Seq(FlagCommand) /\ clock \in Nat
  BY DEF FlagType
<1> DEFINE s == Append(pipe[i], cmd)
<1>2. /\ s \in Seq(FlagCommand) /\ Len(s) = Len(pipe[i]) + 1 /\ s[Len(s)] = cmd
      /\ \A n \in 1 .. Len(pipe[i]) : s[n] = pipe[i][n]
  BY <1>1
<1>3. pipe' = [pipe EXCEPT ![i] = s]
  BY DEF F!Send
<1> HIDE DEF s
<1>4. \A j \in Node : pipe'[j] = IF j = i THEN s ELSE pipe[j]
  BY <1>3 DEF FlagType
<1>5. \A n \in 1 .. Len(s) : n = Len(s) \/ n \in 1 .. Len(pipe[i])
  BY <1>1, <1>2
<1>6. ASSUME NEW n \in 1 .. Len(s)
      PROVE  /\ s[n].sent <= clock /\ clock <= s[n].sent + Delay
             /\ s[n].op = "set" => Held(versions, s[n].version, s[n].sent - Delay)
  <2>1. CASE n = Len(s)
    BY <1>1, <1>2, <2>1, SettingsAreNumbers
  <2>2. CASE n \in 1 .. Len(pipe[i])
    BY <1>2, <2>2 DEF PipeHeld
  <2> QED BY <1>5, <2>1, <2>2
<1>7. pipe' \in [Node -> Seq(FlagCommand)]
  BY <1>2, <1>3 DEF FlagType
<1> QED BY <1>4, <1>6, <1>7 DEF PipeHeld, Held

LEMMA FlagTick ==
  ASSUME FlagInv, F!Tick
  PROVE  FlagInv'
<1>1. /\ clock \in Nat /\ clock' = clock + 1
      /\ UNCHANGED <<versions, local, pipe, call, lag>>
  BY DEF F!Tick, FlagInv, FlagType
<1>2. redis' = redis \/ redis' = None
  BY DEF F!Tick
<1>3. FlagType'
  BY <1>1, <1>2 DEF FlagInv, FlagType
<1>4. LocalHeld'
  <2> SUFFICES ASSUME NEW i \in Node, local[i] # None
               PROVE  /\ Held(versions, local[i].version,
                              local[i].until + 1 - 2 * (CacheTtl + Delay))
                      /\ local[i].until <= clock + 1 + CacheTtl
    BY <1>1 DEF LocalHeld
  <2>1. local[i].until \in Nat
    BY DEF FlagInv, FlagType, FlagEntry
  <2> QED BY <1>1, <2>1, SettingsAreNumbers DEF FlagInv, LocalHeld
<1>5. RedisHeld'
  <2> SUFFICES ASSUME redis' # None PROVE RedisHeld'
    BY DEF RedisHeld
  <2>1. redis' = redis /\ redis # None /\ redis.until > clock + 1
    BY <1>1 DEF F!Tick
  <2>2. redis.until \in Nat
    BY <2>1 DEF FlagInv, FlagType, FlagEntry
  <2>3. /\ Held(versions, redis.version, redis.until - 2 * Delay - CacheTtl)
        /\ redis.until <= clock + CacheTtl
    BY <2>1 DEF FlagInv, RedisHeld
  <2>4. clock + 1 < redis.until /\ redis.until <= clock + 1 + CacheTtl
    BY <1>1, <2>1, <2>2, <2>3, SettingsAreNumbers
  <2> QED BY <1>1, <2>1, <2>3, <2>4 DEF RedisHeld
<1>6. CallHeld'
  <2> SUFFICES ASSUME NEW c \in Evaluator, call[c].pc # "idle"
               PROVE  /\ call[c].start <= clock + 1 /\ clock + 1 <= call[c].start + Delay
                      /\ call[c].pc = "store" => Held(versions, call[c].version, call[c].start)
    BY <1>1 DEF CallHeld, Held
  <2>1. call[c] # F!Idle /\ call[c].start \in Nat
    BY BusyCall DEF F!Idle, FlagCall, FlagInv
  <2> QED BY <1>1, <2>1, SettingsAreNumbers DEF F!Tick, FlagInv, CallHeld
<1>7. PipeHeld'
  <2> SUFFICES ASSUME NEW i \in Node, NEW n \in 1 .. Len(pipe[i])
               PROVE  /\ pipe[i][n].sent <= clock + 1 /\ clock + 1 <= pipe[i][n].sent + Delay
                      /\ pipe[i][n].op = "set" => Held(versions, pipe[i][n].version, pipe[i][n].sent - Delay)
    BY <1>1 DEF PipeHeld, Held
  <2>1. pipe[i] \in Seq(FlagCommand)
    BY DEF FlagInv, FlagType
  <2>2. pipe[i][n] \in FlagCommand /\ n \in DOMAIN pipe[i]
    BY <2>1
  <2>3. pipe[i][n].sent \in Nat
    BY <2>2 DEF FlagCommand
  <2> QED BY <1>1, <2>2, <2>3, SettingsAreNumbers DEF F!Tick, FlagInv, PipeHeld
<1> QED BY <1>1, <1>3, <1>4, <1>5, <1>6, <1>7 DEF FlagInv

\* An update ends no copy's claim: what it replaces, it replaces now.
LEMMA HeldByUpdate ==
  ASSUME FlagType, NEW v \in Nat, NEW x, Held(versions, v, x), x <= clock
  PROVE  Held(Append(versions, clock), v, x)
<1> DEFINE s == Append(versions, clock)
<1>1. /\ Len(s) = Len(versions) + 1 /\ s[Len(s)] = clock
      /\ \A n \in 1 .. Len(versions) : s[n] = versions[n]
      /\ Len(versions) \in Nat
  BY DEF FlagType
<1> HIDE DEF s
<1>2. v \in 1 .. Len(s) /\ (v # Len(s) => x <= s[v + 1])
  <2>1. v \in 1 .. Len(versions)
    BY DEF Held
  <2>2. CASE v = Len(versions)
    BY <1>1, <2>1, <2>2
  <2>3. CASE v # Len(versions)
    <3>1. v + 1 \in 1 .. Len(versions)
      BY <1>1, <2>1, <2>3
    <3> QED BY <1>1, <2>1, <2>3, <3>1 DEF Held
  <2> QED BY <2>2, <2>3
<1> QED BY <1>2 DEF Held, s

LEMMA FlagUpdate ==
  ASSUME FlagInv, NEW i \in Node, F!Update(i)
  PROVE  FlagInv'
<1> DEFINE cmd == [op |-> "del", version |-> 0, sent |-> clock]
           s == Append(pipe[i], cmd)
<1>a. FlagType /\ clock \in Nat
  BY DEF FlagInv, FlagType
<1>1. /\ versions' = Append(versions, clock) /\ local' = [local EXCEPT ![i] = None]
      /\ pipe' = [pipe EXCEPT ![i] = s] /\ UNCHANGED <<clock, redis, call, lag>>
  BY DEF F!Update, F!Send
<1>2. cmd \in FlagCommand /\ cmd.op # "set" /\ cmd.sent = clock
  BY <1>a DEF FlagCommand
<1>3. pipe[i] \in Seq(FlagCommand)
  BY <1>a DEF FlagType
<1> HIDE DEF cmd
<1>4. /\ s \in Seq(FlagCommand) /\ Len(s) = Len(pipe[i]) + 1 /\ s[Len(s)] = cmd
      /\ \A n \in 1 .. Len(pipe[i]) : s[n] = pipe[i][n]
      /\ \A n \in 1 .. Len(s) : n = Len(s) \/ n \in 1 .. Len(pipe[i])
  BY <1>2, <1>3
<1> HIDE DEF s
<1>5. /\ \A j \in Node : pipe'[j] = IF j = i THEN s ELSE pipe[j]
      /\ \A j \in Node : local'[j] = IF j = i THEN None ELSE local[j]
  BY <1>1, <1>a DEF FlagType
<1>6. FlagType'
  <2>1. Append(versions, clock) \in Seq(Nat) /\ Len(Append(versions, clock)) > 0
    BY <1>a DEF FlagType
  <2> QED BY <1>1, <1>4, <1>a, <2>1 DEF FlagType
<1>7. LocalHeld'
  <2> SUFFICES ASSUME NEW j \in Node, local'[j] # None
               PROVE  /\ Held(versions, local[j].version, local[j].until + 1 - 2 * (CacheTtl + Delay))'
                      /\ local'[j] = local[j] /\ local[j].until <= clock + CacheTtl
    BY <1>1 DEF LocalHeld, Held
  <2>1. local'[j] = local[j] /\ local[j] # None
        /\ local[j].until \in Nat /\ local[j].version \in Nat
    BY <1>5, <1>a DEF FlagType, FlagEntry
  <2>2. /\ Held(versions, local[j].version, local[j].until + 1 - 2 * (CacheTtl + Delay))
        /\ local[j].until <= clock + CacheTtl
    BY <2>1 DEF FlagInv, LocalHeld
  <2> DEFINE x == local[j].until + 1 - 2 * (CacheTtl + Delay)
  <2>3. x <= clock
    BY <1>a, <2>1, <2>2, SettingsAreNumbers
  <2>4. Held(Append(versions, clock), local[j].version, x)
    <3>1. Held(versions, local[j].version, x)
      BY <2>2
    <3> HIDE DEF x
    <3> QED BY <1>a, <2>1, <2>3, <3>1, HeldByUpdate
  <2> QED BY <1>1, <2>1, <2>2, <2>4
<1>8. RedisHeld'
  <2> SUFFICES ASSUME redis # None
               PROVE  Held(Append(versions, clock), redis.version,
                           redis.until - 2 * Delay - CacheTtl)
    BY <1>1 DEF FlagInv, RedisHeld
  <2>1. redis.version \in Nat /\ redis.until \in Nat
    BY <1>a DEF FlagType, FlagEntry
  <2> DEFINE x == redis.until - 2 * Delay - CacheTtl
  <2>2. Held(versions, redis.version, x) /\ x <= clock
    BY <1>a, <2>1, SettingsAreNumbers DEF FlagInv, RedisHeld
  <2> HIDE DEF x
  <2>3. Held(Append(versions, clock), redis.version, x)
    BY <1>a, <2>1, <2>2, HeldByUpdate
  <2> QED BY <2>3 DEF x
<1>9. CallHeld'
  <2> SUFFICES ASSUME NEW c \in Evaluator, call[c].pc = "store"
               PROVE  Held(Append(versions, clock), call[c].version, call[c].start)
    BY <1>1 DEF FlagInv, CallHeld
  <2>1. call[c].version \in Nat
    BY <1>a, BusyCall DEF FlagCall
  <2> QED BY <1>a, <2>1, HeldByUpdate DEF FlagInv, CallHeld
<1>10. PipeHeld'
  <2> SUFFICES ASSUME NEW j \in Node, NEW n \in 1 .. Len(pipe'[j])
               PROVE  LET m == pipe'[j][n]
                      IN /\ m.sent <= clock /\ clock <= m.sent + Delay
                         /\ m.op = "set" => Held(Append(versions, clock), m.version, m.sent - Delay)
    BY <1>1 DEF PipeHeld
  <2>1. CASE j = i /\ n = Len(s)
    BY <1>2, <1>4, <1>5, <1>a, <2>1, SettingsAreNumbers
  <2>2. CASE ~(j = i /\ n = Len(s))
    <3>1. n \in 1 .. Len(pipe[j]) /\ pipe'[j][n] = pipe[j][n]
      BY <1>4, <1>5, <2>2
    <3> DEFINE m == pipe[j][n]
    <3>2. pipe[j] \in Seq(FlagCommand)
      BY <1>a DEF FlagType
    <3>3. m \in FlagCommand
      BY <3>1, <3>2
    <3>4. m.version \in Nat /\ m.sent \in Nat
      BY <3>3 DEF FlagCommand
    <3>5. /\ m.sent <= clock /\ clock <= m.sent + Delay
          /\ m.op = "set" => Held(versions, m.version, m.sent - Delay)
      BY <3>1 DEF FlagInv, PipeHeld
    <3> HIDE DEF m
    <3>6. m.sent - Delay <= clock
      BY <1>a, <3>4, <3>5, SettingsAreNumbers
    <3>7. m.op = "set" => Held(Append(versions, clock), m.version, m.sent - Delay)
      BY <1>a, <3>4, <3>5, <3>6, HeldByUpdate
    <3> QED BY <3>1, <3>5, <3>7 DEF m
  <2> QED BY <2>1, <2>2
<1> QED BY <1>1, <1>6, <1>7, <1>8, <1>9, <1>10 DEF FlagInv

\* Redis takes over what a command set, or loses what it deleted.
LEMMA FlagExecute ==
  ASSUME FlagInv, NEW i \in Node, F!Execute(i)
  PROVE  FlagInv'
<1> DEFINE cmd == Head(pipe[i])
           e == [version |-> cmd.version, until |-> clock + CacheTtl]
<1>a. FlagType /\ clock \in Nat /\ pipe[i] \in Seq(FlagCommand)
  BY DEF FlagInv, FlagType
<1>1. /\ pipe[i] # <<>> /\ pipe' = [pipe EXCEPT ![i] = Tail(pipe[i])]
      /\ UNCHANGED <<clock, versions, local, call, lag>>
  BY DEF F!Execute
<1>2. redis' = redis \/ redis' = None \/ (cmd.op # "del" /\ redis' = e)
  BY DEF F!Execute
<1>3. /\ Tail(pipe[i]) \in Seq(FlagCommand) /\ cmd \in FlagCommand
      /\ cmd = pipe[i][1] /\ 1 \in 1 .. Len(pipe[i])
      /\ Len(Tail(pipe[i])) = Len(pipe[i]) - 1 /\ Len(pipe[i]) \in Nat
      /\ \A n \in 1 .. Len(Tail(pipe[i])) : Tail(pipe[i])[n] = pipe[i][n + 1]
  BY <1>1, <1>a
<1> HIDE DEF cmd
<1>4. /\ cmd.op \in {"del", "set"} /\ cmd.version \in Nat /\ cmd.sent \in Nat
      /\ clock <= cmd.sent + Delay
      /\ cmd.op = "set" => Held(versions, cmd.version, cmd.sent - Delay)
  BY <1>3 DEF FlagCommand, FlagInv, PipeHeld
<1>5. e \in FlagEntry /\ e.version = cmd.version /\ e.until = clock + CacheTtl
  BY <1>4, <1>a, SettingsAreNumbers DEF FlagEntry
<1> HIDE DEF e
<1>6. RedisHeld'
  <2>1. CASE redis' = redis \/ redis' = None
    BY <1>1, <2>1 DEF FlagInv, RedisHeld
  <2>2. CASE cmd.op = "set" /\ redis' = e
    <3> DEFINE x == e.until - 2 * Delay - CacheTtl
    <3>1. x <= cmd.sent - Delay /\ x \in Int
      BY <1>4, <1>5, <1>a, SettingsAreNumbers
    <3> HIDE DEF x
    <3>2. Held(versions, e.version, x)
      BY <1>4, <1>5, <1>a, <2>2, <3>1, SettingsAreNumbers, HeldEarlier
    <3>3. clock < e.until /\ e.until <= clock + CacheTtl
      BY <1>5, <1>a, SettingsAreNumbers
    <3>4. Held(versions, e.version, e.until - 2 * Delay - CacheTtl)
      BY <3>2 DEF x
    <3> QED BY <1>1, <2>2, <3>3, <3>4 DEF RedisHeld
  <2> QED BY <1>2, <1>4, <2>1, <2>2
<1>7. \A j \in Node : pipe'[j] = IF j = i THEN Tail(pipe[i]) ELSE pipe[j]
  BY <1>1, <1>a DEF FlagType
<1>8. PipeHeld'
  <2>1. ASSUME NEW j \in Node, NEW n \in 1 .. Len(pipe'[j])
        PROVE  \E m \in 1 .. Len(pipe[j]) : pipe'[j][n] = pipe[j][m]
    <3>1. CASE j = i
      <4>1. n \in 1 .. Len(Tail(pipe[i])) /\ pipe'[j][n] = Tail(pipe[i])[n]
        BY <1>7, <3>1
      <4>2. n + 1 \in 1 .. Len(pipe[i]) /\ pipe'[j][n] = pipe[i][n + 1]
        BY <1>3, <4>1
      <4> QED BY <3>1, <4>2
    <3>2. CASE j # i
      BY <1>7, <3>2
    <3> QED BY <3>1, <3>2
  <2>2. ASSUME NEW j \in Node, NEW n \in 1 .. Len(pipe'[j])
        PROVE  LET m == pipe'[j][n]
               IN /\ m.sent <= clock /\ clock <= m.sent + Delay
                  /\ m.op = "set" => Held(versions, m.version, m.sent - Delay)
    <3>1. PICK m \in 1 .. Len(pipe[j]) : pipe'[j][n] = pipe[j][m]
      BY <2>1
    <3> QED BY <3>1 DEF FlagInv, PipeHeld
  <2> QED BY <1>1, <2>2 DEF PipeHeld
<1>9. FlagType'
  BY <1>1, <1>2, <1>3, <1>5, <1>a DEF FlagType
<1> QED BY <1>1, <1>6, <1>8, <1>9 DEF FlagInv, LocalHeld, CallHeld

LEMMA FlagCalls ==
  ASSUME FlagInv, NEW c \in Evaluator,
         (\E i \in Node : F!Evaluate(c, i)) \/ F!AskRedis(c) \/ F!ReadRow(c) \/ F!Store(c)
  PROVE  FlagInv'
<1>a. FlagType /\ clock \in Nat /\ versions \in Seq(Nat)
  BY DEF FlagInv, FlagType
<1>b. CacheTtl \in Nat /\ CacheTtl > 0 /\ Delay \in Nat
  BY SettingsAreNumbers
<1>1. ASSUME NEW i \in Node, F!Evaluate(c, i) PROVE FlagInv'
  <2>1. UNCHANGED <<clock, versions, local, redis, pipe>>
    BY <1>1 DEF F!Evaluate
  <2>2. CASE F!Fresh(local[i]) /\ F!Decide(c, local[i].version)
    <3> DEFINE x == local[i].until + 1 - 2 * (CacheTtl + Delay)
    <3>1. /\ local[i].version \in Nat /\ local[i].until \in Nat /\ clock < local[i].until
          /\ local[i] # None
      BY <1>a, <2>2 DEF F!Fresh, FlagType, FlagEntry
    <3>2. Held(versions, local[i].version, x)
      BY <3>1 DEF FlagInv, LocalHeld
    <3>3. x \in Int /\ clock < x + 2 * (CacheTtl + Delay)
      BY <1>a, <1>b, <3>1, Slack
    <3> HIDE DEF x
    <3>4. /\ lag' \in Int /\ lag' < 2 * (CacheTtl + Delay)
          /\ call' = [call EXCEPT ![c] = F!Idle]
      BY <1>a, <2>2, <3>1, <3>2, <3>3, DecidesInTime
    <3>5. call' \in [Evaluator -> {F!Idle} \cup FlagCall] /\ CallHeld'
      BY <1>a, <2>1, <3>4, CallEnds DEF FlagInv
    <3> QED BY <2>1, <3>4, <3>5 DEF FlagInv, FlagType, LocalHeld, RedisHeld, PipeHeld
  <2>3. CASE ~F!Fresh(local[i])
    <3> DEFINE q == [pc |-> "redis", at |-> i, start |-> clock, version |-> 0]
    <3>1. /\ q \in FlagCall /\ q.start = clock /\ q.pc = "redis"
          /\ clock <= clock /\ clock <= clock + Delay
      BY <1>a, <1>b DEF FlagCall
    <3>2. call' = [call EXCEPT ![c] = q] /\ UNCHANGED lag
      BY <1>1, <2>3 DEF F!Evaluate
    <3> HIDE DEF q
    <3>3. q.start <= clock /\ clock <= q.start + Delay /\ q.pc # "store"
      BY <3>1
    <3>4. call' \in [Evaluator -> {F!Idle} \cup FlagCall] /\ CallHeld'
      BY <1>a, <2>1, <3>1, <3>2, <3>3, CallGoesOn DEF FlagInv
    <3> QED BY <2>1, <3>2, <3>4 DEF FlagInv, FlagType, LocalHeld, RedisHeld, PipeHeld
  <2> QED BY <1>1, <2>2, <2>3 DEF F!Evaluate
<1>2. ASSUME F!AskRedis(c) PROVE FlagInv'
  <2>1. UNCHANGED <<clock, versions, redis>> /\ call[c].pc = "redis"
    BY <1>2 DEF F!AskRedis
  <2>2. call[c] \in FlagCall /\ call[c].start \in Nat /\ call[c].start <= clock
        /\ clock <= call[c].start + Delay
    BY <1>a, <2>1, BusyCall DEF FlagCall, FlagInv, CallHeld
  <2>3. CASE redis # None /\ F!Keep(call[c], redis.version) /\ F!Hit(call[c])
             /\ F!Decide(c, redis.version)
    <3> DEFINE x == redis.until - 2 * Delay - CacheTtl
               y == call[c].start + 1 - CacheTtl - 2 * Delay
    <3>1. redis.version \in Nat /\ redis.until \in Nat /\ clock < redis.until
      BY <1>a, <2>3 DEF FlagType, FlagEntry, FlagInv, RedisHeld
    <3>2. Held(versions, redis.version, x)
      BY <2>3 DEF FlagInv, RedisHeld
    <3>3. /\ x \in Int /\ clock < x + 2 * (CacheTtl + Delay)
          /\ y \in Int /\ y <= x
      <4>1. call[c].start < redis.until
        BY <1>a, <2>2, <3>1
      <4> QED BY <1>a, <2>2, <3>1, <4>1, Slack
    <3> HIDE DEF x
    <3>4. /\ lag' \in Int /\ lag' < 2 * (CacheTtl + Delay)
          /\ call' = [call EXCEPT ![c] = F!Idle]
      BY <1>a, <2>3, <3>1, <3>2, <3>3, DecidesInTime
    <3>5. call' \in [Evaluator -> {F!Idle} \cup FlagCall] /\ CallHeld'
      BY <1>a, <2>1, <3>4, CallEnds DEF FlagInv
    <3>6. Held(versions, redis.version, y)
      <4> HIDE DEF y
      <4> QED BY <1>a, <3>1, <3>2, <3>3, HeldEarlier
    <3>7. local' \in [Node -> {None} \cup FlagEntry] /\ LocalHeld'
      BY <1>a, <2>1, <2>2, <2>3, <3>1, <3>6, Kept DEF FlagInv
    <3> QED BY <2>1, <2>3, <3>4, <3>5, <3>7 DEF F!Hit, FlagInv, FlagType, RedisHeld, PipeHeld
  <2>4. CASE call' = [call EXCEPT ![c].pc = "query"] /\ UNCHANGED <<local, pipe, lag>>
    <3> DEFINE q == [call[c] EXCEPT !.pc = "query"]
    <3>1. q \in FlagCall /\ q.start = call[c].start /\ q.pc = "query"
      BY <2>2 DEF FlagCall
    <3>2. call' = [call EXCEPT ![c] = q]
      BY <2>4
    <3> HIDE DEF q
    <3>3. call' \in [Evaluator -> {F!Idle} \cup FlagCall] /\ CallHeld'
      BY <1>a, <2>1, <2>2, <3>1, <3>2, CallGoesOn DEF FlagInv
    <3> QED BY <2>1, <2>4, <3>3 DEF FlagInv, FlagType, LocalHeld, RedisHeld, PipeHeld
  <2> QED BY <1>2, <2>3, <2>4 DEF F!AskRedis
<1>3. ASSUME F!ReadRow(c) PROVE FlagInv'
  <2>1. UNCHANGED <<clock, versions, local, redis, pipe, lag>> /\ call[c].pc = "query"
    BY <1>3 DEF F!ReadRow
  <2>2. call[c] \in FlagCall /\ call[c].start \in Nat /\ call[c].start <= clock
        /\ clock <= call[c].start + Delay
    BY <1>a, <2>1, BusyCall DEF FlagCall, FlagInv, CallHeld
  <2> DEFINE q == [call[c] EXCEPT !.pc = "store", !.version = Len(versions)]
  <2>3. Len(versions) \in Nat /\ Len(versions) > 0
    BY <1>a DEF FlagType
  <2>4. q \in FlagCall /\ q.start = call[c].start /\ q.version = Len(versions)
    BY <2>2, <2>3 DEF FlagCall
  <2>5. call' = [call EXCEPT ![c] = q]
    BY <1>3 DEF F!ReadRow, F!Current
  <2> HIDE DEF q
  <2>6. Held(versions, q.version, q.start)
    BY <1>a, <2>3, <2>4 DEF Held
  <2>7. call' \in [Evaluator -> {F!Idle} \cup FlagCall] /\ CallHeld'
    BY <1>a, <2>1, <2>2, <2>4, <2>5, <2>6, CallGoesOn DEF FlagInv
  <2> QED BY <2>1, <2>7 DEF FlagInv, FlagType, LocalHeld, RedisHeld, PipeHeld
<1>4. ASSUME F!Store(c) PROVE FlagInv'
  <2> DEFINE q == call[c]
             v == call[c].version
             cmd == [op |-> "set", version |-> v, sent |-> clock]
             y == call[c].start + 1 - CacheTtl - 2 * Delay
  <2>1. /\ UNCHANGED <<clock, versions, redis>> /\ q.pc = "store" /\ F!Keep(q, v)
        /\ F!Send(q.at, cmd) /\ F!Decide(c, v)
    BY <1>4 DEF F!Store
  <2>2. /\ q \in FlagCall /\ q.start \in Nat /\ q.start <= clock /\ v \in Nat /\ q.at \in Node
        /\ clock <= q.start + Delay /\ Held(versions, v, q.start)
    BY <1>a, <2>1, BusyCall DEF FlagCall, FlagInv, CallHeld
  <2>3. cmd \in FlagCommand /\ cmd.sent = clock /\ cmd.version = v
    BY <1>a, <2>2 DEF FlagCommand
  <2>4. /\ q.start \in Int /\ clock < q.start + 2 * (CacheTtl + Delay)
        /\ y \in Int /\ y <= q.start /\ clock - Delay \in Int /\ clock - Delay <= q.start
    <3>1. clock < q.start + 2 * (CacheTtl + Delay) /\ clock - Delay <= q.start
      BY <1>a, <2>2, Slack
    <3>2. y \in Int /\ y <= q.start
      BY <2>2, Slack
    <3>3. q.start \in Int /\ clock - Delay \in Int
      BY <1>a, <1>b, <2>2
    <3> HIDE DEF q, y
    <3> QED BY <3>1, <3>2, <3>3
  <2>5. Held(versions, v, y) /\ Held(versions, v, clock - Delay)
    <3> HIDE DEF q, v, y
    <3> QED BY <1>a, <2>2, <2>4, HeldEarlier
  <2>6. /\ lag' \in Int /\ lag' < 2 * (CacheTtl + Delay)
        /\ call' = [call EXCEPT ![c] = F!Idle]
    BY <1>a, <2>1, <2>2, <2>4, DecidesInTime
  <2>7. call' \in [Evaluator -> {F!Idle} \cup FlagCall] /\ CallHeld'
    BY <1>a, <2>1, <2>6, CallEnds DEF FlagInv
  <2>8. local' \in [Node -> {None} \cup FlagEntry] /\ LocalHeld'
    BY <1>a, <2>1, <2>2, <2>5, Kept DEF FlagInv
  <2>9. pipe' \in [Node -> Seq(FlagCommand)] /\ PipeHeld'
    <3> HIDE DEF cmd, v, q
    <3> QED BY <1>a, <2>1, <2>2, <2>3, <2>5, Sent DEF FlagInv
  <2> QED BY <2>1, <2>6, <2>7, <2>8, <2>9 DEF FlagInv, FlagType, RedisHeld
<1> QED BY <1>1, <1>2, <1>3, <1>4

LEMMA FlagNext == FlagInv /\ [F!Next]_(F!vars) => FlagInv'
<1> SUFFICES ASSUME FlagInv, [F!Next]_(F!vars) PROVE FlagInv'
  OBVIOUS
<1>1. CASE UNCHANGED F!vars
  BY <1>1 DEF F!vars, FlagInv, FlagType, LocalHeld, RedisHeld, PipeHeld, CallHeld
<1>2. CASE F!Next
  BY <1>2, FlagTick, FlagUpdate, FlagExecute, FlagCalls DEF F!Next
<1> QED BY <1>1, <1>2

(***************************************************************************)
(* The copy of the first page.                                             *)
(***************************************************************************)
\* A load of the page shown; the others are of a page that was left.
Current(l) == load[l] # H!Idle /\ ~load[l].old

\* Neither the copy, nor the time on the page, is newer than the server, and
\* what a load was answered is no older than the load.
TimesTrue ==
  /\ cached # None =>
       \A p \in H!Part : cached.since[p] <= cached.data[p] /\ cached.since[p] <= truth[p]
  /\ cachedAt # None => \A p \in H!Part : cachedAt[p] <= truth[p]
  /\ \A l \in Loader : load[l] # H!Idle =>
       \A p \in H!Part : /\ load[l].since[p] <= truth[p]
                         /\ load[l].got[p] \in Nat => load[l].since[p] <= load[l].got[p]
                         /\ load[l].at > 1 => load[l].got[p] # None

\* The one load of the page began no earlier than the time shown says, and
\* has shown what it was answered of the parts it is past.
OneLoad ==
  /\ \A l, k \in Loader : Current(l) /\ Current(k) => l = k
  /\ cachedAt # None => \A p \in H!Part : shown[p] # None /\ cachedAt[p] <= shown[p]
  /\ \A l \in Loader : Current(l) =>
       /\ cachedAt # None => \A p \in H!Part : cachedAt[p] <= load[l].since[p]
       /\ \A i \in 1 .. load[l].at - 1 :
            load[l].got[Parts[i]] # NotOk =>
              shown[Parts[i]] # None /\ load[l].since[Parts[i]] <= shown[Parts[i]]


CopyType ==
  /\ truth \in [H!Part -> Nat] /\ shown \in [H!Part -> Nat \cup {None}]
  /\ cachedAt \in {None} \cup [H!Part -> Nat]
  /\ cached \in {None} \cup [data : [H!Part -> Nat], since : [H!Part -> Nat]]
  /\ load \in [Loader -> {H!Idle} \cup H!Visit]

CopyInv ==
  /\ CopyType /\ TimesTrue
  /\ ~mounted => cachedAt = None /\ \A l \in Loader : ~Current(l)
  /\ ~overlapped => OneLoad

LEMMA VisitIs ==
  /\ \A q \in H!Visit : /\ q # H!Idle /\ q.at \in Nat \ {0} /\ q.since \in [H!Part -> Nat]
                        /\ q.got \in [H!Part -> Nat \cup {None, NotOk}]
  /\ H!Idle.at = 0
BY DEF H!Visit, H!Idle, H!Version

LEMMA CopyInit == H!Init => CopyInv
<1> SUFFICES ASSUME H!Init PROVE CopyInv
  OBVIOUS
<1>1. \A l \in Loader : load[l] = H!Idle
  BY DEF H!Init
<1>2. CopyType
  BY DEF H!Init, CopyType, H!Nothing
<1>3. TimesTrue /\ OneLoad /\ cachedAt = None /\ \A l \in Loader : ~Current(l)
  BY <1>1 DEF H!Init, TimesTrue, OneLoad, Current
<1> QED BY <1>2, <1>3 DEF CopyInv

\* Another state of the server is newer.
LEMMA Changing == ASSUME CopyInv, NEW p \in H!Part, H!Change(p) PROVE CopyInv'
<1>1. /\ truth' = [truth EXCEPT ![p] = @ + 1]
      /\ UNCHANGED <<shown, cachedAt, cached, mounted, load, overlapped>>
  BY DEF H!Change, H!page
<1>2. truth' \in [H!Part -> Nat] /\ \A x \in H!Part : truth[x] <= truth'[x]
  BY <1>1 DEF CopyInv, CopyType
<1>3. CopyType'
  BY <1>1, <1>2 DEF CopyInv, CopyType
<1>4. TimesTrue'
  <2>1. \A l \in Loader : load[l] # H!Idle => load[l] \in H!Visit
    BY DEF CopyInv, CopyType
  <2>2. ASSUME NEW x \in H!Part, NEW n \in Nat, n <= truth[x] PROVE n <= truth'[x]
    BY <1>2, <2>2 DEF CopyInv, CopyType
  <2>3. /\ cached # None => \A x \in H!Part : cached.since[x] \in Nat
        /\ cachedAt # None => \A x \in H!Part : cachedAt[x] \in Nat
        /\ \A l \in Loader : load[l] # H!Idle => \A x \in H!Part : load[l].since[x] \in Nat
    BY <2>1, VisitIs DEF CopyInv, CopyType
  <2> QED BY <1>1, <2>2, <2>3 DEF CopyInv, TimesTrue
<1>5. (~mounted => cachedAt = None /\ \A l \in Loader : ~Current(l))'
  BY <1>1 DEF CopyInv, Current
<1>6. (~overlapped => OneLoad)'
  BY <1>1 DEF CopyInv, OneLoad, Current
<1> QED BY <1>3, <1>4, <1>5, <1>6 DEF CopyInv

LEMMA LoadBecomes ==
  ASSUME CopyInv, NEW l \in Loader, NEW q \in {H!Idle} \cup H!Visit, load' = [load EXCEPT ![l] = q]
  PROVE  /\ load' \in [Loader -> {H!Idle} \cup H!Visit] /\ load'[l] = q
         /\ \A k \in Loader \ {l} : load'[k] = load[k]
BY DEF CopyInv, CopyType

\* A load begins, on a page that shows no time later than now.
Fetching ==
  /\ UNCHANGED <<truth, shown, cachedAt, cached>> /\ mounted' = TRUE
LEMMA FetchStep == ASSUME CopyInv, NEW l \in Loader, H!Fetch(l), Fetching PROVE CopyInv'
<1> DEFINE q == [at |-> 1, since |-> truth, got |-> H!Nothing, old |-> FALSE]
<1>1. q \in H!Visit /\ q # H!Idle
  <2>1. q \in H!Visit
    BY PartsAssumption DEF CopyInv, CopyType, H!Visit, H!Version, H!Nothing
  <2> QED BY <2>1, VisitIs
<1>2. /\ load' = [load EXCEPT ![l] = q] /\ load[l] = H!Idle
      /\ overlapped' = (overlapped \/ H!Underway)
  BY DEF H!Fetch
<1>3. /\ load' \in [Loader -> {H!Idle} \cup H!Visit] /\ load'[l] = q
      /\ \A k \in Loader \ {l} : load'[k] = load[k]
  BY <1>1, <1>2, LoadBecomes
<1>4. q.at = 1 /\ q.since = truth /\ (\A p \in H!Part : q.got[p] = None) /\ q.old = FALSE
  BY DEF H!Nothing
<1> HIDE DEF q
<1>5. CopyType'
  BY <1>3 DEF Fetching, CopyInv, CopyType
<1>6. TimesTrue'
  <2>1. \A p \in H!Part : truth[p] <= truth[p]
    BY DEF CopyInv, CopyType
  <2>2. ASSUME NEW k \in Loader, load'[k] # H!Idle, NEW p \in H!Part
        PROVE  /\ load'[k].since[p] <= truth'[p]
               /\ load'[k].got[p] \in Nat => load'[k].since[p] <= load'[k].got[p]
               /\ load'[k].at > 1 => load'[k].got[p] # None
    <3>1. CASE k = l
      BY <1>3, <1>4, <2>1, <3>1, PartsAssumption DEF Fetching
    <3>2. CASE k # l
      BY <1>3, <2>2, <3>2 DEF Fetching, CopyInv, TimesTrue
    <3> QED BY <3>1, <3>2
  <2> QED BY <2>2 DEF Fetching, CopyInv, TimesTrue
<1>7. (~overlapped => OneLoad)'
  <2> SUFFICES ASSUME ~overlapped' PROVE OneLoad'
    OBVIOUS
  <2>1. OneLoad /\ \A k \in Loader : ~Current(k)
    BY <1>2 DEF CopyInv, H!Underway, Current
  <2>2. \A k \in Loader : Current(k)' => k = l
    BY <1>3, <2>1 DEF Current
  <2>3. cachedAt' # None => \A p \in H!Part : cachedAt'[p] <= load'[l].since[p]
    BY <1>3, <1>4 DEF Fetching, CopyInv, TimesTrue
  <2>4. 1 .. load'[l].at - 1 = {}
    BY <1>3, <1>4
  <2> QED BY <2>1, <2>2, <2>3, <2>4 DEF Fetching, OneLoad
<1> QED BY <1>5, <1>6, <1>7 DEF Fetching, CopyInv

\* The copy is shown while no load of the page is under way, or a mark is set.
LEMMA CopyShown ==
  ASSUME CopyInv, H!ServeCached, UNCHANGED <<truth, cached>>, mounted' = TRUE,
         overlapped => overlapped', load' \in [Loader -> {H!Idle} \cup H!Visit],
         \A k \in Loader : load'[k] \in {load[k], H!Idle},
         ~overlapped' => \A k \in Loader : ~Current(k)'
  PROVE  CopyInv'
<1>1. \/ cached = None /\ UNCHANGED <<shown, cachedAt>>
      \/ cached # None /\ shown' = cached.data /\ cachedAt' = cached.since
  BY DEF H!ServeCached
<1>2. CopyType'
  BY <1>1 DEF CopyInv, CopyType
<1>3. TimesTrue'
  <2>1. cachedAt' # None => \A p \in H!Part : cachedAt'[p] <= truth'[p]
    BY <1>1 DEF CopyInv, TimesTrue
  <2> QED BY <2>1 DEF CopyInv, TimesTrue
<1>4. ASSUME ~overlapped', ~overlapped PROVE OneLoad'
  <2>1. cachedAt' # None => \A p \in H!Part : shown'[p] # None /\ cachedAt'[p] <= shown'[p]
    <3>1. CASE cached = None
      BY <1>1, <1>4, <3>1 DEF CopyInv, OneLoad
    <3>2. CASE cached # None
      BY <1>1, <3>2, PartsAssumption DEF CopyInv, CopyType, TimesTrue
    <3> QED BY <3>1, <3>2
  <2> QED BY <1>4, <2>1 DEF OneLoad
<1> QED BY <1>2, <1>3, <1>4 DEF CopyInv

\* What a route reads is no older than the load that asks.
LEMMA AnswerPartStep ==
  ASSUME CopyInv, NEW l \in Loader, NEW p \in H!Part, H!Answer(l, p) PROVE CopyInv'
<1>1. PICK a \in H!Reads(p) : load' = [load EXCEPT ![l].got[p] = a]
  BY DEF H!Answer
<1> DEFINE q == [load[l] EXCEPT !.got[p] = a]
<1>2. /\ load[l] \in H!Visit /\ load[l] # H!Idle /\ load[l].got[p] = None
      /\ UNCHANGED <<truth, shown, cachedAt, cached, mounted, overlapped>>
  BY DEF H!Answer, H!page, CopyInv, CopyType
<1>3. a = truth[p] \/ a = NotOk
  BY <1>1 DEF H!Reads
<1>4. /\ q \in H!Visit /\ q # H!Idle
      /\ q.at = load[l].at /\ q.since = load[l].since /\ q.old = load[l].old
      /\ q.got = [load[l].got EXCEPT ![p] = a]
  <2>1. a \in Nat \cup {NotOk}
    BY <1>3 DEF CopyInv, CopyType
  <2>2. q \in H!Visit
    BY <1>2, <2>1 DEF H!Visit
  <2> QED BY <1>2, <2>2, VisitIs
<1>5. load' = [load EXCEPT ![l] = q]
  BY <1>1, <1>2 DEF CopyInv, CopyType
<1> HIDE DEF q
<1>6. /\ load' \in [Loader -> {H!Idle} \cup H!Visit] /\ load'[l] = q
      /\ \A k \in Loader \ {l} : load'[k] = load[k]
  BY <1>4, <1>5, LoadBecomes
<1>7. load[l].got \in [H!Part -> Nat \cup {None, NotOk}] /\ load[l].at \in Nat \ {0}
  BY <1>2, VisitIs
<1>8. CopyType'
  BY <1>2, <1>6 DEF CopyInv, CopyType
<1>9. load[l].at = 1
  BY <1>2, <1>7 DEF CopyInv, TimesTrue
<1>10. TimesTrue'
  <2>1. ASSUME NEW x \in H!Part
        PROVE  /\ q.since[x] <= truth[x]
               /\ q.got[x] \in Nat => q.since[x] <= q.got[x]
    <3>1. CASE x = p
      BY <1>2, <1>3, <1>4, <1>7, <3>1, PartsAssumption DEF CopyInv, TimesTrue
    <3>2. CASE x # p
      BY <1>2, <1>4, <1>7, <3>2 DEF CopyInv, TimesTrue
    <3> QED BY <3>1, <3>2
  <2>2. ~(q.at > 1)
    BY <1>4, <1>9
  <2> QED BY <1>2, <1>6, <2>1, <2>2 DEF CopyInv, TimesTrue
<1>11. (~overlapped => OneLoad)'
  <2> SUFFICES ASSUME ~overlapped PROVE OneLoad'
    BY <1>2
  <2>1. \A k \in Loader : Current(k)' <=> Current(k)
    BY <1>2, <1>4, <1>6 DEF Current
  <2>2. 1 .. load'[l].at - 1 = {} /\ load'[l].since = load[l].since
    BY <1>4, <1>6, <1>9
  <2> QED BY <1>2, <1>6, <2>1, <2>2 DEF CopyInv, OneLoad
<1>12. (~mounted => cachedAt = None /\ \A k \in Loader : ~Current(k))'
  BY <1>2, <1>4, <1>6 DEF CopyInv, Current
<1> QED BY <1>8, <1>10, <1>11, <1>12 DEF CopyInv

LEMMA PartOf == \A i \in 1 .. Len(Parts) : Parts[i] \in H!Part
BY PartsAssumption

LEMMA ShowPartStep == ASSUME CopyInv, NEW l \in Loader, H!Show(l) PROVE CopyInv'
<1> DEFINE n == load[l].at
           p == Parts[n]
           g == load[l].got
           q == [load[l] EXCEPT !.at = n + 1]
<1>1. /\ load[l] # H!Idle /\ (\A x \in H!Part : g[x] # None) /\ n <= Len(Parts)
      /\ shown' = (IF load[l].old \/ g[p] = NotOk THEN shown ELSE [shown EXCEPT ![p] = g[p]])
      /\ load' = [load EXCEPT ![l].at = n + 1]
      /\ UNCHANGED <<truth, cachedAt, cached, mounted, overlapped>>
  <2>1. H!Answered(l)
    BY DEF H!Show
  <2>2. load[l] # H!Idle /\ None \notin H!Range(g)
    BY <2>1 DEF H!Answered
  <2>3. g \in [H!Part -> Nat \cup {None, NotOk}]
    BY <2>2, VisitIs DEF CopyInv, CopyType
  <2>4. \A x \in H!Part : g[x] # None
    BY <2>2, <2>3 DEF H!Range
  <2> QED BY <2>2, <2>4 DEF H!Show
<1>2. /\ load[l] \in H!Visit /\ n \in Nat \ {0} /\ g \in [H!Part -> Nat \cup {None, NotOk}]
      /\ n \in 1 .. Len(Parts) /\ p \in H!Part
  BY <1>1, VisitIs, PartOf, PartsAssumption DEF CopyInv, CopyType
<1>3. /\ q \in H!Visit /\ q # H!Idle /\ q.at = n + 1
      /\ q.since = load[l].since /\ q.old = load[l].old /\ q.got = g
  <2>1. q \in H!Visit
    BY <1>2, PartsAssumption DEF H!Visit
  <2> QED BY <1>2, <2>1, VisitIs DEF H!Visit
<1>4. load' = [load EXCEPT ![l] = q]
  BY <1>1 DEF CopyInv, CopyType
<1> HIDE DEF q
<1>5. /\ load' \in [Loader -> {H!Idle} \cup H!Visit] /\ load'[l] = q
      /\ \A k \in Loader \ {l} : load'[k] = load[k]
  BY <1>3, <1>4, LoadBecomes
<1>6. g[p] \in Nat \cup {NotOk}
  BY <1>1, <1>2
<1>7. CopyType'
  BY <1>1, <1>2, <1>5, <1>6 DEF CopyInv, CopyType
<1>8. TimesTrue'
  BY <1>1, <1>3, <1>5 DEF CopyInv, TimesTrue
<1>9. \A k \in Loader : Current(k)' <=> Current(k)
  BY <1>1, <1>3, <1>5 DEF Current
<1>10. ASSUME ~overlapped PROVE OneLoad'
  <2>a. OneLoad
    BY <1>10 DEF CopyInv
  <2>1. CASE load[l].old
    <3>1. ~Current(l) /\ shown' = shown
      BY <1>1, <2>1 DEF Current
    <3> QED BY <1>1, <1>5, <1>9, <2>a, <3>1 DEF OneLoad
  <2>2. CASE ~load[l].old
    <3>1. Current(l) /\ \A k \in Loader : Current(k)' => k = l
      BY <1>1, <1>9, <2>2, <2>a DEF Current, OneLoad
    <3>2. \A x \in H!Part \ {p} : shown'[x] = shown[x]
      BY <1>1, <1>2 DEF CopyInv, CopyType
    <3>3. shown'[p] = IF g[p] = NotOk THEN shown[p] ELSE g[p]
      BY <1>1, <1>2, <2>2 DEF CopyInv, CopyType
    <3>4. load[l].since \in [H!Part -> Nat] /\ (g[p] \in Nat => load[l].since[p] <= g[p])
      BY <1>1, <1>2, VisitIs DEF CopyInv, TimesTrue
    <3>5. cachedAt' # None => \A x \in H!Part : shown'[x] # None /\ cachedAt'[x] <= shown'[x]
      <4> SUFFICES ASSUME cachedAt # None PROVE shown'[p] # None /\ cachedAt[p] <= shown'[p]
        BY <1>1, <3>2, <2>a DEF OneLoad
      <4>1. cachedAt \in [H!Part -> Nat] /\ cachedAt[p] <= load[l].since[p]
        BY <1>2, <2>a, <3>1 DEF OneLoad, CopyInv, CopyType
      <4>2. CASE g[p] = NotOk
        BY <1>2, <2>a, <3>3, <4>2 DEF OneLoad
      <4>3. CASE g[p] \in Nat
        BY <1>2, <3>3, <3>4, <4>1, <4>3, PartsAssumption
      <4> QED BY <1>6, <4>2, <4>3
    <3>6. ASSUME NEW i \in 1 .. n, g[Parts[i]] # NotOk
          PROVE  shown'[Parts[i]] # None /\ load[l].since[Parts[i]] <= shown'[Parts[i]]
      <4>1. i \in 1 .. Len(Parts) /\ Parts[i] \in H!Part
        BY <1>2, PartOf, PartsAssumption
      <4>2. CASE Parts[i] = p
        BY <1>6, <3>3, <3>4, <3>6, <4>2, PartsAssumption
      <4>3. CASE Parts[i] # p
        <5>1. i \in 1 .. n - 1
          BY <1>2, <4>3
        <5> QED BY <2>a, <3>1, <3>2, <3>6, <4>1, <4>3, <5>1 DEF OneLoad
      <4> QED BY <4>2, <4>3
    <3>7. /\ load'[l].since = load[l].since /\ load'[l].got = g
          /\ 1 .. load'[l].at - 1 = 1 .. n
      BY <1>2, <1>3, <1>5
    <3>8. cachedAt' # None => \A x \in H!Part : cachedAt'[x] <= load'[l].since[x]
      BY <1>1, <2>a, <3>1, <3>7 DEF OneLoad
    <3> HIDE DEF n, p, g
    <3> QED BY <3>1, <3>5, <3>6, <3>7, <3>8 DEF OneLoad
  <2> QED BY <2>1, <2>2
<1>11. (~mounted => cachedAt = None /\ \A k \in Loader : ~Current(k))'
  BY <1>1, <1>9 DEF CopyInv
<1> QED BY <1>1, <1>7, <1>8, <1>10, <1>11 DEF CopyInv

\* A load that is over leaves the page as it is.
LEMMA LoadOver ==
  ASSUME CopyInv, NEW l \in Loader, load' = [load EXCEPT ![l] = H!Idle],
         UNCHANGED <<truth, shown, cached, mounted, overlapped>>,
         cachedAt' = cachedAt
  PROVE  CopyInv'
<1>1. /\ load' \in [Loader -> {H!Idle} \cup H!Visit] /\ load'[l] = H!Idle
      /\ \A k \in Loader \ {l} : load'[k] = load[k]
  BY LoadBecomes
<1>2. \A k \in Loader : (load'[k] # H!Idle => load'[k] = load[k]) /\ (Current(k)' => Current(k))
  BY <1>1 DEF Current
<1>3. CopyType' /\ TimesTrue'
  BY <1>1, <1>2 DEF CopyInv, CopyType, TimesTrue
<1>4. (~overlapped => OneLoad)'
  <2>1. \A k \in Loader : Current(k)' => load'[k] = load[k]
    BY <1>2 DEF Current
  <2> QED BY <1>2, <2>1 DEF CopyInv, OneLoad
<1> QED BY <1>2, <1>3, <1>4 DEF CopyInv

LEMMA FailStep == ASSUME CopyInv, NEW l \in Loader, H!Fail(l) PROVE CopyInv'
<1>1. /\ load[l] # H!Idle /\ load' = [load EXCEPT ![l] = H!Idle]
      /\ UNCHANGED <<truth, cached, mounted, overlapped>>
  BY DEF H!Fail
<1>2. CASE load[l].old
  <2>1. UNCHANGED <<shown, cachedAt>>
    BY <1>2 DEF H!Fail, H!page
  <2> QED BY <1>1, <2>1, LoadOver
<1>3. CASE ~load[l].old
  <2>1. H!ServeCached /\ Current(l)
    BY <1>1, <1>3 DEF H!Fail, Current
  <2>2. mounted = TRUE \/ mounted
    BY <2>1 DEF CopyInv
  <2>3. /\ load' \in [Loader -> {H!Idle} \cup H!Visit] /\ load'[l] = H!Idle
        /\ \A k \in Loader \ {l} : load'[k] = load[k]
    BY <1>1, LoadBecomes
  <2>4. ~overlapped => \A k \in Loader : ~Current(k)'
    BY <2>1, <2>3 DEF CopyInv, OneLoad, Current
  <2> QED BY <1>1, <2>1, <2>2, <2>3, <2>4, CopyShown
<1> QED BY <1>2, <1>3

\* A copy is written by a load that was answered every part, also one whose
\* page was left; the time on the page is that of its own load.
LEMMA FinishLoadStep == ASSUME CopyInv, NEW l \in Loader, H!Finish(l) PROVE CopyInv'
<1> DEFINE q == load[l]
<1>1. /\ q # H!Idle /\ (\A p \in H!Part : q.got[p] # None) /\ q.at > Len(Parts)
      /\ load' = [load EXCEPT ![l] = H!Idle]
      /\ UNCHANGED <<truth, shown, mounted, overlapped>>
      /\ q \in H!Visit /\ q.since \in [H!Part -> Nat]
      /\ q.got \in [H!Part -> Nat \cup {None, NotOk}]
  <2>1. H!Answered(l) /\ q \in H!Visit
    BY DEF H!Finish, H!Answered, CopyInv, CopyType
  <2>2. q # H!Idle /\ None \notin H!Range(q.got)
    BY <2>1 DEF H!Answered
  <2>3. q.got \in [H!Part -> Nat \cup {None, NotOk}] /\ q.since \in [H!Part -> Nat]
    BY <2>1, VisitIs
  <2>4. \A p \in H!Part : q.got[p] # None
    BY <2>2, <2>3 DEF H!Range
  <2> QED BY <2>1, <2>2, <2>3, <2>4 DEF H!Finish
<1>2. CASE ~H!Whole(q)
  <2>1. UNCHANGED <<cached, cachedAt>>
    BY <1>2 DEF H!Finish
  <2> QED BY <1>1, <2>1, LoadOver
<1>3. CASE H!Whole(q)
  <2>1. /\ cached' \in {cached, [data |-> q.got, since |-> q.since]}
        /\ cachedAt' = IF q.old THEN cachedAt ELSE q.since
    BY <1>3 DEF H!Finish, H!Write, H!Payload
  <2>2. q.got \in [H!Part -> Nat]
    <3>1. \A p \in H!Part : q.got[p] # NotOk
      BY <1>1, <1>3 DEF H!Whole, H!Range
    <3> QED BY <1>1, <3>1
  <2>3. \A p \in H!Part : q.since[p] <= q.got[p] /\ q.since[p] <= truth[p]
    BY <1>1, <2>2 DEF CopyInv, TimesTrue
  <2> DEFINE copy == [data |-> q.got, since |-> q.since]
  <2>4. /\ copy \in [data : [H!Part -> Nat], since : [H!Part -> Nat]]
        /\ copy.data = q.got /\ copy.since = q.since
    BY <1>1, <2>2
  <2> HIDE DEF copy
  <2>5. cached' \in {cached, copy}
    BY <2>1 DEF copy
  <2>6. /\ load' \in [Loader -> {H!Idle} \cup H!Visit] /\ load'[l] = H!Idle
        /\ \A k \in Loader \ {l} : load'[k] = load[k]
    BY <1>1, LoadBecomes
  <2>7. \A k \in Loader : (load'[k] # H!Idle => load'[k] = load[k]) /\ (Current(k)' => Current(k) /\ k # l)
    BY <2>6 DEF Current
  <2>8. CopyType'
    BY <1>1, <2>1, <2>4, <2>5, <2>6 DEF CopyInv, CopyType
  <2>9. TimesTrue'
    <3>1. cached' # None =>
            \A p \in H!Part : cached'.since[p] <= cached'.data[p] /\ cached'.since[p] <= truth'[p]
      BY <1>1, <2>3, <2>4, <2>5 DEF CopyInv, TimesTrue
    <3>2. cachedAt' # None => \A p \in H!Part : cachedAt'[p] <= truth'[p]
      BY <1>1, <2>1, <2>3 DEF CopyInv, TimesTrue
    <3> QED BY <1>1, <2>7, <3>1, <3>2 DEF CopyInv, TimesTrue
  <2>10. CASE q.old
    <3>1. cachedAt' = cachedAt
      BY <2>1, <2>10
    <3>2. (~overlapped => OneLoad)'
      <4>1. \A k \in Loader : Current(k)' => load'[k] = load[k]
        BY <2>7 DEF Current
      <4> QED BY <1>1, <2>7, <3>1, <4>1 DEF CopyInv, OneLoad
    <3> QED BY <1>1, <2>7, <2>8, <2>9, <3>1, <3>2 DEF CopyInv
  <2>11. CASE ~q.old
    <3>1. cachedAt' = q.since /\ Current(l)
      BY <1>1, <2>1, <2>11 DEF Current
    <3>2. ASSUME ~overlapped PROVE OneLoad'
      <4>a. OneLoad
        BY <3>2 DEF CopyInv
      <4>1. \A k \in Loader : ~Current(k)'
        BY <2>7, <3>1, <4>a DEF OneLoad
      <4>2. ASSUME NEW p \in H!Part PROVE shown[p] # None /\ q.since[p] <= shown[p]
        <5>1. PICK i \in 1 .. Len(Parts) : Parts[i] = p
          BY PartsAssumption DEF H!Part, H!Range
        <5>2. i \in 1 .. q.at - 1
          BY <1>1, VisitIs, PartsAssumption
        <5>3. q.got[p] # NotOk
          BY <2>2, PartsAssumption
        <5> QED BY <3>1, <4>a, <5>1, <5>2, <5>3 DEF OneLoad
      <4> QED BY <1>1, <3>1, <4>1, <4>2 DEF OneLoad
    <3>3. mounted
      BY <3>1 DEF CopyInv
    <3> QED BY <1>1, <2>8, <2>9, <3>2, <3>3 DEF CopyInv
  <2> QED BY <2>10, <2>11
<1> QED BY <1>2, <1>3

LEMMA BeginStep ==
  ASSUME CopyInv, NEW l \in Loader, H!loadDashboardData(l) \/ H!Open(l) \/ H!Online(l)
  PROVE  CopyInv'
<1>1. CASE H!Fetch(l) /\ Fetching
  BY <1>1, FetchStep
<1>2. CASE /\ H!ServeCached /\ ~mounted /\ mounted' = TRUE
           /\ UNCHANGED <<truth, cached, load, overlapped>>
  <2>1. \A k \in Loader : ~Current(k)'
    BY <1>2 DEF CopyInv, Current
  <2>2. load' \in [Loader -> {H!Idle} \cup H!Visit]
    BY <1>2 DEF CopyInv, CopyType
  <2> QED BY <1>2, <2>1, <2>2, CopyShown
<1>3. CASE UNCHANGED <<truth, shown, cachedAt, cached, mounted, load, overlapped>>
  BY <1>3 DEF CopyInv, CopyType, TimesTrue, OneLoad, Current
<1> QED BY <1>1, <1>2, <1>3 DEF H!loadDashboardData, H!Open, H!Online, H!page, Fetching

LEMMA OfflineStep == ASSUME CopyInv, H!Offline PROVE CopyInv'
<1>1. UNCHANGED <<truth, cached, mounted, load>> /\ overlapped' = (overlapped \/ H!Underway)
  BY DEF H!Offline
<1>2. CASE mounted
  <2>1. ~overlapped' => \A k \in Loader : ~Current(k)'
    BY <1>1 DEF H!Underway, Current
  <2>2. load' \in [Loader -> {H!Idle} \cup H!Visit]
    BY <1>1 DEF CopyInv, CopyType
  <2> QED BY <1>1, <1>2, <2>1, <2>2, CopyShown DEF H!Offline
<1>3. CASE ~mounted
  <2>1. UNCHANGED <<shown, cachedAt>>
    BY <1>3 DEF H!Offline, H!page
  <2> QED BY <1>1, <2>1 DEF CopyInv, CopyType, TimesTrue, OneLoad, Current
<1> QED BY <1>2, <1>3

LEMMA LeavePageStep == ASSUME CopyInv, H!Leave PROVE CopyInv'
<1>1. /\ mounted' = FALSE /\ shown' = H!Nothing /\ cachedAt' = None
      /\ load' = [l \in Loader |-> IF load[l] = H!Idle THEN H!Idle ELSE [load[l] EXCEPT !.old = TRUE]]
      /\ cached' \in {cached, None} /\ UNCHANGED <<truth, overlapped>>
  BY DEF H!Leave, H!Blank
<1>2. \A l \in Loader :
        \/ load[l] = H!Idle /\ load'[l] = H!Idle
        \/ /\ load[l] # H!Idle /\ load'[l] # H!Idle /\ load'[l] \in H!Visit /\ load'[l].old
           /\ load'[l].at = load[l].at /\ load'[l].since = load[l].since
           /\ load'[l].got = load[l].got
  <2> SUFFICES ASSUME NEW l \in Loader, load[l] # H!Idle
               PROVE  /\ load'[l] # H!Idle /\ load'[l] \in H!Visit /\ load'[l].old
                      /\ load'[l].at = load[l].at /\ load'[l].since = load[l].since
                      /\ load'[l].got = load[l].got
    BY <1>1
  <2>1. load[l] \in H!Visit
    BY DEF CopyInv, CopyType
  <2>2. load'[l] = [load[l] EXCEPT !.old = TRUE]
    BY <1>1
  <2>3. /\ load'[l] \in H!Visit /\ load'[l].old /\ load'[l].at = load[l].at
        /\ load'[l].since = load[l].since /\ load'[l].got = load[l].got
    BY <2>1, <2>2 DEF H!Visit
  <2> QED BY <2>3, VisitIs
<1>3. CopyType'
  <2>1. load' \in [Loader -> {H!Idle} \cup H!Visit]
    BY <1>1, <1>2
  <2> QED BY <1>1, <2>1 DEF CopyInv, CopyType, H!Nothing
<1>4. TimesTrue'
  BY <1>1, <1>2 DEF CopyInv, TimesTrue
<1>5. \A l \in Loader : ~Current(l)'
  BY <1>2 DEF Current
<1> QED BY <1>1, <1>3, <1>4, <1>5 DEF CopyInv, OneLoad

LEMMA ExpireStep == ASSUME CopyInv, H!Expire PROVE CopyInv'
<1>1. cached' = None /\ UNCHANGED <<truth, shown, cachedAt, mounted, load, overlapped>>
  BY DEF H!Expire, H!page
<1> QED BY <1>1 DEF CopyInv, CopyType, TimesTrue, OneLoad, Current

LEMMA CopyNext == CopyInv /\ [H!Next]_(H!vars) => CopyInv'
<1> SUFFICES ASSUME CopyInv, [H!Next]_(H!vars) PROVE CopyInv'
  OBVIOUS
<1>1. CASE UNCHANGED H!vars
  BY <1>1 DEF H!vars, H!page, CopyInv, CopyType, TimesTrue, OneLoad, Current
<1>2. CASE H!Next
  BY <1>2, Changing, BeginStep, AnswerPartStep, ShowPartStep, FinishLoadStep, FailStep,
     OfflineStep, LeavePageStep, ExpireStep DEF H!Next
<1> QED BY <1>1, <1>2

LEMMA CopyIsWhole == CopyInv => H!CopiesAreWhole
<1> SUFFICES ASSUME CopyInv PROVE H!CopiesAreWhole
  OBVIOUS
<1>1. ASSUME cached # None, NEW p \in H!Part PROVE cached.data[p] # None
  BY <1>1, PartsAssumption DEF CopyInv, CopyType
<1> QED BY <1>1 DEF CopyInv, TimesTrue, OneLoad, H!CopiesAreWhole

\* What an instance keeps in memory decides for a bounded time after it
\* changed: an officer's postings for the life of an entry, however slow the
\* query that filled it was, and a flag for the lives of two entries and two
\* delays, however updates, copies and late commands to Redis follow each other.
\* The copy a page keeps is whole and no older than it says, however its loads
\* overlap, fail and outlive the page; so is what the page shows, unless they
\* overlapped.
THEOREM CachesAlwaysLagBounded == MCSpec => []CachesLagBounded
<1>1. F!Spec => []FlagInv
  BY FlagInit, FlagNext, PTL DEF F!Spec
<1>2. FlagInv => F!StalenessBounded
  BY DEF FlagInv, F!StalenessBounded
<1>3. H!Spec => []CopyInv
  BY CopyInit, CopyNext, PTL DEF H!Spec
<1>4. RolesLagBounded /\ F!StalenessBounded /\ CopyInv => CachesLagBounded
  BY CopyIsWhole DEF CachesLagBounded
<1> QED BY <1>1, <1>2, <1>3, <1>4, PartsOfAccess, RolesLagAlwaysBounded, PTL

(***************************************************************************)
(* Codes, tokens and the password.  The requests of this part are "used",  *)
(* and what was used once is "spent".                                      *)
(***************************************************************************)
CodeRow == [code : S!Secret, expires : Nat, failed : Nat, until : Nat]
CodeRequest == [pc : {"rightCode", "wrongCode", "expiredCode", "findCitizen"},
                secret : S!Secret, row : CodeRow]
ResetRequest == [pc : {"set", "dropReset"}, secret : S!Secret, word : Word]
OtherRequest == [pc : {"idle", "cleanCodes", "cleanResets"}] \cup [pc : {"renew"}, word : Word]

SecretType ==
  /\ minute \in Nat /\ drawn \in 0 .. MaxSecrets
  /\ otp \in {None} \cup CodeRow /\ resets \subseteq [token : S!Secret, expires : Nat]
  /\ account \in [word : Word, old : BOOLEAN, known : BOOLEAN]
  /\ used \in [Request -> CodeRequest \cup ResetRequest \cup OtherRequest]
  /\ locked \in [S!Secret -> Nat]

\* No row holds the secret, and none will: those drawn after the n-th are new.
CodeGone(s, row, n) == s \in 1 .. n /\ (row # None => row.code # s)
TokenGone(s, rows, n) == s \in 1 .. n /\ \A t \in rows : t.token # s

\* What is drawn is a code or a token; a code is gone before its request is
\* answered, a token when it is.
OncePerSecret ==
  /\ ~reused
  /\ otp # None => TokenGone(otp.code, resets, drawn)
  /\ \A t \in resets : CodeGone(t.token, otp, drawn)
  /\ \A s \in spent : CodeGone(s, otp, drawn) /\ TokenGone(s, resets, drawn)
  /\ \A r \in Request :
       /\ used[r].pc \in {"rightCode", "findCitizen"} => TokenGone(used[r].secret, resets, drawn)
       /\ used[r].pc \in {"findCitizen", "set", "dropReset"} => CodeGone(used[r].secret, otp, drawn)

\* A row's lock ends no earlier than any lock its code ever had.
LocksKept ==
  /\ ~evaded
  /\ \A s \in S!Secret : s > drawn => locked[s] = 0
  /\ otp # None => /\ otp.until <= minute + LockTime /\ locked[otp.code] <= otp.until

\* So is the password a renewal will write.
ResetsCount ==
  /\ account.word = chosen \/ overtaken
  /\ \A r \in Request : used[r].pc = "renew" => used[r].word = chosen \/ overtaken

SecretInv == SecretType /\ OncePerSecret /\ LocksKept /\ ResetsCount

LEMMA SecretTypeOK == SecretInv => S!TypeOK
<1> SUFFICES ASSUME SecretInv PROVE S!TypeOK
  OBVIOUS
<1>1. otp # None => otp \in [code : 1 .. drawn, expires : Nat, failed : Nat, until : Nat]
  BY DEF SecretInv, SecretType, OncePerSecret, TokenGone, CodeRow
<1>2. \A t \in resets : t \in [token : 1 .. drawn, expires : Nat]
  BY DEF SecretInv, SecretType, OncePerSecret, CodeGone
<1> QED BY <1>1, <1>2 DEF SecretInv, SecretType, S!TypeOK

LEMMA SecretsBounds == MaxSecrets \in Nat /\ CodeLife \in Nat /\ LockTime \in Nat /\ ResetLife \in Nat
BY LifetimesAssumption

LEMMA SecretInit == S!Init => SecretInv
<1> SUFFICES ASSUME S!Init PROVE SecretInv
  OBVIOUS
<1>1. PICK w \in Word, old \in BOOLEAN, known \in BOOLEAN :
        account = [word |-> w, old |-> old, known |-> known] /\ chosen = w
  BY DEF S!Init
<1>2. S!Idle \in OtherRequest /\ S!Idle.pc = "idle"
  BY DEF S!Idle, OtherRequest
<1>3. account \in [word : Word, old : BOOLEAN, known : BOOLEAN] /\ account.word = chosen
  BY <1>1
<1>4. used \in [Request -> CodeRequest \cup ResetRequest \cup OtherRequest]
      /\ \A r \in Request : used[r].pc = "idle"
  BY <1>2 DEF S!Init
<1>5. locked \in [S!Secret -> Nat] /\ \A s \in S!Secret : locked[s] = 0
  BY DEF S!Init
<1>6. SecretType
  BY <1>3, <1>4, <1>5, SecretsBounds DEF S!Init, SecretType
<1> QED BY <1>3, <1>4, <1>5, <1>6 DEF S!Init, SecretInv, OncePerSecret, LocksKept, ResetsCount


LEMMA RequestFields ==
  ASSUME SecretType, NEW r \in Request
  PROVE  /\ used[r].pc \in {"rightCode", "wrongCode", "expiredCode", "findCitizen"}
              => used[r] \in CodeRequest
         /\ used[r].pc \in {"set", "dropReset"} => used[r] \in ResetRequest
         /\ used[r].pc = "renew" => used[r].word \in Word
         /\ used[r] = S!Idle => used[r].pc = "idle"
<1>1. used[r] \in CodeRequest \cup ResetRequest \cup OtherRequest
  BY DEF SecretType
<1> QED BY <1>1 DEF CodeRequest, ResetRequest, OtherRequest, S!Idle

\* What goes is gone, whatever is drawn meanwhile.
GoneStaysGone ==
  /\ \A s : CodeGone(s, otp, drawn) => CodeGone(s, otp', drawn')
  /\ \A s : TokenGone(s, resets, drawn) => TokenGone(s, resets', drawn')
  /\ otp' # None => TokenGone(otp'.code, resets', drawn')
  /\ \A t \in resets' : CodeGone(t.token, otp', drawn')

LEMMA RowsGo ==
  ASSUME SecretInv, drawn' = drawn, resets' \subseteq resets,
         otp' = None \/ (otp # None /\ otp'.code = otp.code)
  PROVE  GoneStaysGone
BY DEF GoneStaysGone, CodeGone, TokenGone, SecretInv, OncePerSecret

Requests == CodeRequest \cup ResetRequest \cup OtherRequest

\* One request goes on as q, or ends.
Goes(r, q) ==
  /\ used' \in [Request -> Requests] /\ used'[r] = q
  /\ \A x \in Request : x # r => used'[x] = used[x]

\* What the requests keep to, when one of them goes on or ends.
LEMMA Carried ==
  ASSUME SecretInv, NEW r \in Request, NEW q, Goes(r, q), GoneStaysGone,
         q.pc \in {"rightCode", "findCitizen"} => TokenGone(q.secret, resets', drawn'),
         q.pc \in {"findCitizen", "set", "dropReset"} => CodeGone(q.secret, otp', drawn'),
         ~reused',
         \A s \in spent' : \/ s \in spent
                           \/ CodeGone(s, otp', drawn') /\ TokenGone(s, resets', drawn')
  PROVE  OncePerSecret'
<1>5. \A s \in spent' : CodeGone(s, otp', drawn') /\ TokenGone(s, resets', drawn')
  BY DEF GoneStaysGone, SecretInv, OncePerSecret
<1>6. ASSUME NEW x \in Request
      PROVE  /\ used'[x].pc \in {"rightCode", "findCitizen"}
                  => TokenGone(used'[x].secret, resets', drawn')
             /\ used'[x].pc \in {"findCitizen", "set", "dropReset"}
                  => CodeGone(used'[x].secret, otp', drawn')
  <2>1. CASE x = r
    BY <2>1 DEF Goes
  <2>2. CASE x # r
    <3>1. /\ used'[x] = used[x]
          /\ used[x].pc \in {"rightCode", "findCitizen"} => TokenGone(used[x].secret, resets, drawn)
          /\ used[x].pc \in {"findCitizen", "set", "dropReset"} => CodeGone(used[x].secret, otp, drawn)
      BY <2>2 DEF Goes, SecretInv, OncePerSecret
    <3> QED BY <3>1 DEF GoneStaysGone
  <2> QED BY <2>1, <2>2
<1> QED BY <1>5, <1>6 DEF OncePerSecret, GoneStaysGone

LEMMA Becoming ==
  ASSUME SecretType, NEW r \in Request, NEW q \in Requests, used' = [used EXCEPT ![r] = q]
  PROVE  Goes(r, q)
BY DEF SecretType, Requests, Goes

LEMMA Ending ==
  ASSUME SecretType, NEW r \in Request, S!Done(r)
  PROVE  Goes(r, S!Idle) /\ S!Idle.pc = "idle"
<1>1. S!Idle \in OtherRequest /\ S!Idle.pc = "idle"
  BY DEF S!Idle, OtherRequest
<1> QED BY <1>1, Becoming DEF S!Done, Requests

LEMMA FromIdle == \A pc : [S!Idle EXCEPT !.pc = pc] = [pc |-> pc]
BY DEF S!Idle

\* A step that leaves the password and its renewals.
LEMMA PasswordKept ==
  ASSUME SecretInv, NEW r \in Request, NEW q, Goes(r, q), q.pc # "renew",
         account'.word = account.word, UNCHANGED <<chosen, overtaken>>
  PROVE  ResetsCount'
BY DEF SecretInv, ResetsCount, Goes

LEMMA LocksUntouched ==
  ASSUME SecretInv, UNCHANGED <<minute, drawn, locked, evaded>>, otp' \in {None, otp}
  PROVE  LocksKept'
BY DEF SecretInv, LocksKept

\* A new code, or a new token.
LEMMA Drawing ==
  ASSUME SecretInv, NEW r \in Request, S!SendCode(r) \/ S!RequestReset(r)
  PROVE  SecretInv'
<1>a. SecretType /\ OncePerSecret /\ LocksKept /\ drawn \in Nat /\ minute \in Nat
  BY DEF SecretInv, SecretType
<1>b. MaxSecrets \in Nat /\ CodeLife \in Nat /\ LockTime \in Nat /\ ResetLife \in Nat
  BY SecretsBounds
<1>1. drawn < MaxSecrets /\ drawn' = drawn + 1 /\ used[r] = S!Idle
  BY DEF S!SendCode, S!RequestReset, S!Draw
<1>2. drawn' \in S!Secret /\ drawn' \in 0 .. MaxSecrets /\ drawn < drawn' /\ drawn' \in Nat
  BY <1>a, <1>b, <1>1 DEF S!Secret
<1>3. \A s \in 1 .. drawn : s \in 1 .. drawn' /\ s # drawn'
  BY <1>a, <1>1
<1>4. ASSUME S!SendCode(r) PROVE SecretInv'
  <2> DEFINE row == S!Fresh(drawn + 1)
             q == [pc |-> "cleanCodes"]
  <2>1. /\ otp' = row /\ S!Goto(r, "cleanCodes")
        /\ UNCHANGED <<minute, account, chosen, overtaken, locked, evaded, resets, spent, reused>>
    BY <1>4 DEF S!SendCode, S!userVars
  <2>2. row \in CodeRow /\ row.code = drawn' /\ row.until = 0
    BY <1>a, <1>b, <1>1, <1>2 DEF S!Fresh, CodeRow
  <2> HIDE DEF row
  <2>3. Goes(r, q)
    <3>1. q \in OtherRequest
      BY DEF OtherRequest
    <3>2. used' = [used EXCEPT ![r] = q]
      BY <1>1, <2>1, FromIdle DEF S!Goto
    <3> QED BY <1>a, <3>1, <3>2, Becoming DEF Requests
  <2>4. /\ \A t \in resets : t.token \in 1 .. drawn
        /\ drawn' \in 1 .. drawn' /\ \A t \in resets : t.token # drawn'
    BY <1>2, <1>3, <1>a DEF OncePerSecret, CodeGone, S!Secret
  <2>5. None # row => GoneStaysGone
    BY <1>2, <1>3, <2>1, <2>2, <2>4 DEF GoneStaysGone, CodeGone, TokenGone
  <2>6. None = row => GoneStaysGone
    BY <1>2, <1>3, <2>1, <2>2, <2>4 DEF GoneStaysGone, CodeGone, TokenGone
  <2>7. OncePerSecret'
    BY <1>a, <2>1, <2>3, <2>5, <2>6, Carried DEF OncePerSecret
  <2>8. LocksKept'
    <3>1. locked[drawn'] = 0
      BY <1>2, <1>a DEF LocksKept
    <3>2. 0 <= minute + LockTime /\ \A s \in S!Secret : s > drawn' => s > drawn
      BY <1>a, <1>b, <1>1 DEF S!Secret
    <3> QED BY <1>2, <1>a, <2>1, <2>2, <3>1, <3>2 DEF LocksKept
  <2>9. SecretType'
    BY <1>2, <1>a, <2>1, <2>2, <2>3 DEF SecretType, Goes, Requests
  <2> QED BY <2>1, <2>3, <2>7, <2>8, <2>9, PasswordKept DEF SecretInv
<1>5. ASSUME S!RequestReset(r) PROVE SecretInv'
  <2> DEFINE t == [token |-> drawn + 1, expires |-> minute + ResetLife]
             q == [pc |-> "cleanResets"]
  <2>1. /\ resets' = resets \cup {t} /\ S!Goto(r, "cleanResets")
        /\ UNCHANGED <<minute, account, chosen, overtaken, otp, locked, evaded, spent, reused>>
    BY <1>5 DEF S!RequestReset, S!userVars, S!codeVars
  <2>2. t \in [token : S!Secret, expires : Nat] /\ t.token = drawn'
    BY <1>a, <1>b, <1>1, <1>2
  <2> HIDE DEF t
  <2>3. Goes(r, q)
    <3>1. q \in OtherRequest
      BY DEF OtherRequest
    <3>2. used' = [used EXCEPT ![r] = q]
      BY <1>1, <2>1, FromIdle DEF S!Goto
    <3> QED BY <1>a, <3>1, <3>2, Becoming DEF Requests
  <2>4. otp # None => otp.code \in 1 .. drawn
    BY <1>a DEF OncePerSecret, TokenGone
  <2>5. GoneStaysGone
    BY <1>2, <1>3, <1>a, <2>1, <2>2, <2>4 DEF GoneStaysGone, OncePerSecret, CodeGone, TokenGone
  <2>6. OncePerSecret'
    BY <1>a, <2>1, <2>3, <2>5, Carried DEF OncePerSecret
  <2>7. LocksKept'
    BY <1>1, <1>3, <1>a, <2>1 DEF LocksKept, S!Secret
  <2>8. SecretType'
    BY <1>2, <1>a, <2>1, <2>2, <2>3 DEF SecretType, Goes, Requests
  <2> QED BY <2>1, <2>3, <2>6, <2>7, <2>8, PasswordKept DEF SecretInv
<1> QED BY <1>4, <1>5

\* An attempt with a code: the row is live, so its code was not used, and not
\* locked, so that no earlier lock of the code is on.
LEMMA ReadingCode ==
  ASSUME SecretInv, NEW r \in Request, NEW s \in S!Secret, S!ReadCode(r, s)
  PROVE  SecretInv'
<1>a. SecretType /\ OncePerSecret /\ LocksKept /\ minute \in Nat
  BY DEF SecretInv, SecretType
<1> DEFINE pc == IF S!Expired(otp) THEN "expiredCode"
                 ELSE IF otp.code = s THEN "rightCode" ELSE "wrongCode"
           q == [pc |-> pc, secret |-> s, row |-> otp]
<1>1. /\ otp # None /\ ~S!Locked(otp) /\ used' = [used EXCEPT ![r] = q]
      /\ UNCHANGED <<minute, account, chosen, overtaken, otp, locked, resets, drawn, spent>>
      /\ IF pc = "rightCode" THEN S!Accept(s) /\ evaded' = (evaded \/ minute < locked[s])
         ELSE UNCHANGED <<reused, evaded>>
  BY DEF S!ReadCode, S!userVars
<1>2. /\ pc \in {"rightCode", "wrongCode", "expiredCode"}
      /\ pc = "rightCode" => otp.code = s
  OBVIOUS
<1> HIDE DEF pc
<1>3. otp \in CodeRow /\ otp.until \in Nat
  BY <1>1, <1>a DEF SecretType, CodeRow
<1>4. q \in CodeRequest /\ q.pc = pc /\ q.secret = s
  BY <1>2, <1>3 DEF CodeRequest
<1> HIDE DEF q
<1>5. Goes(r, q)
  BY <1>1, <1>4, <1>a, Becoming DEF Requests
<1>6. TokenGone(otp.code, resets, drawn) /\ (otp.code = s => s \notin spent)
  BY <1>1, <1>a DEF OncePerSecret, CodeGone
<1>7. ~reused'
  BY <1>1, <1>2, <1>6, <1>a DEF OncePerSecret, S!Accept
<1>8. GoneStaysGone
  BY <1>1, RowsGo
<1>9. OncePerSecret'
  BY <1>1, <1>2, <1>4, <1>5, <1>6, <1>7, <1>8, Carried
<1>10. ~evaded'
  <2>1. CASE pc = "rightCode"
    <3>1. locked[s] <= otp.until /\ otp.until <= minute /\ locked[s] \in Nat
      BY <1>1, <1>2, <1>3, <1>a, <2>1 DEF LocksKept, S!Locked, SecretType
    <3>2. ~(minute < locked[s])
      BY <1>3, <1>a, <3>1
    <3>3. ~evaded /\ evaded' = (evaded \/ minute < locked[s])
      BY <1>1, <1>a, <2>1 DEF LocksKept
    <3> QED BY <3>2, <3>3, Zenon
  <2>2. CASE pc # "rightCode"
    BY <1>1, <1>a, <2>2 DEF LocksKept
  <2> QED BY <2>1, <2>2
<1>11. LocksKept'
  BY <1>1, <1>10, <1>a DEF LocksKept
<1>12. SecretType'
  BY <1>1, <1>5, <1>a DEF SecretType, Goes, Requests
<1> QED BY <1>1, <1>2, <1>4, <1>5, <1>9, <1>11, <1>12, PasswordKept DEF SecretInv

\* A wrong code: the row's lock ends later than it did, if it changes.
LEMMA Counting ==
  ASSUME SecretInv, NEW r \in Request, S!CountWrongCode(r)
  PROVE  SecretInv'
<1>a. SecretType /\ OncePerSecret /\ LocksKept /\ minute \in Nat /\ LockTime \in Nat
  BY SecretsBounds DEF SecretInv, SecretType
<1> DEFINE seen == used[r].row
           failed == seen.failed + 1
           until == IF failed >= MaxWrong THEN minute + LockTime ELSE otp.until
           row == [otp EXCEPT !.failed = failed, !.until = until]
<1>1. /\ used[r].pc = "wrongCode" /\ S!Done(r)
      /\ otp' = IF otp = None THEN None ELSE S!Counted(otp, seen)
      /\ locked' = IF otp # None /\ S!Locked(otp')
                   THEN [locked EXCEPT ![otp.code] = otp'.until] ELSE locked
      /\ UNCHANGED <<minute, account, chosen, overtaken, evaded, resets, drawn, spent, reused>>
  BY DEF S!CountWrongCode, S!userVars
<1>2. Goes(r, S!Idle) /\ S!Idle.pc = "idle"
  BY <1>1, <1>a, Ending
<1>3. CASE otp = None
  <2>1. UNCHANGED <<otp, locked>>
    BY <1>1, <1>3
  <2>2. OncePerSecret'
    BY <1>1, <1>2, <1>a, <2>1, RowsGo, Carried DEF OncePerSecret
  <2> QED BY <1>1, <1>2, <1>a, <2>1, <2>2, PasswordKept, LocksUntouched
          DEF SecretInv, SecretType, Goes, Requests
<1>4. CASE otp # None
  <2>1. /\ otp \in CodeRow /\ otp.code \in S!Secret /\ otp.until \in Nat
        /\ otp.until <= minute + LockTime /\ locked[otp.code] <= otp.until
    BY <1>4, <1>a DEF SecretType, CodeRow, LocksKept
  <2>2. failed \in Nat
    BY <1>1, <1>a, RequestFields DEF CodeRequest, CodeRow
  <2>3. until \in Nat /\ otp.until <= until /\ until <= minute + LockTime
    BY <1>a, <2>1
  <2>4. S!Counted(otp, seen) = row
    BY <2>1 DEF S!Counted, CodeRow
  <2> HIDE DEF failed, until
  <2>5. row \in CodeRow /\ row.code = otp.code /\ row.until = until
    BY <2>1, <2>2, <2>3 DEF CodeRow
  <2>6. otp' = row
    BY <1>1, <1>4, <2>4
  <2> HIDE DEF row
  <2>7. /\ locked' \in [S!Secret -> Nat] /\ locked'[otp.code] \in Nat
        /\ \A s \in S!Secret : s # otp.code => locked'[s] = locked[s]
        /\ locked'[otp.code] \in {locked[otp.code], until}
    BY <1>1, <1>a, <2>1, <2>3, <2>5, <2>6 DEF SecretType
  <2>8. OncePerSecret'
    BY <1>1, <1>2, <1>4, <1>a, <2>5, <2>6, RowsGo, Carried DEF OncePerSecret
  <2>9. LocksKept'
    <3>1. otp.code \in 1 .. drawn
      BY <1>4, <1>a DEF OncePerSecret, TokenGone
    <3>2. \A s \in S!Secret : s > drawn => locked'[s] = 0
      BY <1>a, <2>7, <3>1 DEF LocksKept, SecretType
    <3>3. locked[otp.code] \in Nat
      BY <1>a, <2>1 DEF SecretType
    <3>4. locked'[otp.code] <= until
      BY <2>1, <2>3, <2>7, <3>3
    <3> QED BY <1>1, <1>a, <2>3, <2>5, <2>6, <3>2, <3>4 DEF LocksKept
  <2>10. SecretType'
    BY <1>1, <1>2, <1>a, <2>5, <2>6, <2>7 DEF SecretType, Goes, Requests
  <2> QED BY <1>1, <1>2, <2>8, <2>9, <2>10, PasswordKept DEF SecretInv
<1> QED BY <1>3, <1>4

\* A code that is used or expired, and the citizen it signs in.
LEMMA CodesGo ==
  ASSUME SecretInv, NEW r \in Request, S!CleanCodes(r) \/ S!DropCode(r) \/ S!FindCitizen(r)
  PROVE  SecretInv'
<1>a. SecretType /\ OncePerSecret /\ LocksKept
  BY DEF SecretInv
<1>1. ASSUME S!CleanCodes(r) PROVE SecretInv'
  <2>1. /\ S!Done(r) /\ otp' \in {None, otp}
        /\ UNCHANGED <<minute, account, chosen, overtaken, locked, evaded, resets, drawn, spent, reused>>
    BY <1>1 DEF S!CleanCodes, S!userVars
  <2>2. Goes(r, S!Idle) /\ S!Idle.pc = "idle"
    BY <1>a, <2>1, Ending
  <2>3. OncePerSecret'
    BY <1>a, <2>1, <2>2, RowsGo, Carried DEF OncePerSecret
  <2> QED BY <1>a, <2>1, <2>2, <2>3, PasswordKept, LocksUntouched
          DEF SecretInv, SecretType, Goes, Requests
<1>2. ASSUME S!DropCode(r) PROVE SecretInv'
  <2>1. /\ otp' = None /\ used[r].pc \in {"rightCode", "expiredCode"}
        /\ IF used[r].pc = "rightCode" THEN S!Goto(r, "findCitizen") ELSE S!Done(r)
        /\ UNCHANGED <<minute, account, chosen, overtaken, locked, evaded, resets, drawn, spent, reused>>
    BY <1>2 DEF S!DropCode, S!userVars
  <2>2. CASE used[r].pc = "rightCode"
    <3> DEFINE q == [used[r] EXCEPT !.pc = "findCitizen"]
    <3>1. q \in CodeRequest /\ q.pc = "findCitizen" /\ q.secret = used[r].secret
      BY <1>a, <2>2, RequestFields DEF CodeRequest
    <3>2. used' = [used EXCEPT ![r] = q]
      BY <2>1, <2>2 DEF S!Goto
    <3> HIDE DEF q
    <3>3. Goes(r, q)
      BY <1>a, <3>1, <3>2, Becoming DEF Requests
    <3>4. TokenGone(q.secret, resets', drawn') /\ CodeGone(q.secret, otp', drawn')
      BY <1>a, <2>1, <2>2, <3>1 DEF OncePerSecret, TokenGone, CodeGone
    <3>5. OncePerSecret'
      BY <1>a, <2>1, <3>1, <3>3, <3>4, RowsGo, Carried DEF OncePerSecret
    <3> QED BY <1>a, <2>1, <3>1, <3>3, <3>5, PasswordKept, LocksUntouched
            DEF SecretInv, SecretType, Goes, Requests
  <2>3. CASE used[r].pc # "rightCode"
    <3>2. Goes(r, S!Idle) /\ S!Idle.pc = "idle"
      BY <1>a, <2>1, <2>3, Ending
    <3>3. OncePerSecret'
      BY <1>a, <2>1, <3>2, RowsGo, Carried DEF OncePerSecret
    <3> QED BY <1>a, <2>1, <3>2, <3>3, PasswordKept, LocksUntouched
            DEF SecretInv, SecretType, Goes, Requests
  <2> QED BY <2>2, <2>3
<1>3. ASSUME S!FindCitizen(r) PROVE SecretInv'
  <2> DEFINE s == used[r].secret
  <2>1. /\ used[r].pc = "findCitizen" /\ account' = [account EXCEPT !.known = TRUE]
        /\ spent' = spent \cup {s} /\ S!Done(r)
        /\ UNCHANGED <<minute, chosen, overtaken, otp, locked, evaded, resets, drawn, reused>>
    BY <1>3 DEF S!FindCitizen, S!Answer, S!codeVars
  <2>2. Goes(r, S!Idle) /\ S!Idle.pc = "idle"
    BY <1>a, <2>1, Ending
  <2>3. CodeGone(s, otp', drawn') /\ TokenGone(s, resets', drawn')
    BY <1>a, <2>1 DEF OncePerSecret
  <2>4. OncePerSecret'
    BY <1>a, <2>1, <2>2, <2>3, RowsGo, Carried DEF OncePerSecret
  <2>5. account' \in [word : Word, old : BOOLEAN, known : BOOLEAN] /\ account'.word = account.word
    BY <1>a, <2>1 DEF SecretType
  <2> QED BY <1>a, <2>1, <2>2, <2>4, <2>5, PasswordKept, LocksUntouched
          DEF SecretInv, SecretType, Goes, Requests
<1> QED BY <1>1, <1>2, <1>3

\* The password, its renewal and its reset.
LEMMA PasswordChanges ==
  ASSUME SecretInv, NEW r \in Request,
         (\E w \in Word : S!Authenticate(r, w)) \/ S!Renew(r) \/ S!CleanResets(r)
  PROVE  SecretInv'
<1>a. SecretType /\ OncePerSecret /\ LocksKept /\ ResetsCount
  BY DEF SecretInv
<1>1. ASSUME NEW w \in Word, S!Authenticate(r, w) PROVE SecretInv'
  <2> DEFINE q == [pc |-> "renew", word |-> w]
  <2>1. /\ w = account.word /\ used' = [used EXCEPT ![r] = q]
        /\ UNCHANGED <<minute, account, chosen, overtaken, otp, locked, evaded, resets, drawn,
                       spent, reused>>
    BY <1>1 DEF S!Authenticate, S!Verifies, S!userVars, S!codeVars
  <2>2. q \in OtherRequest /\ q.pc = "renew" /\ q.word = w
    BY DEF OtherRequest
  <2> HIDE DEF q
  <2>3. Goes(r, q)
    BY <1>a, <2>1, <2>2, Becoming DEF Requests
  <2>4. OncePerSecret'
    BY <1>a, <2>1, <2>2, <2>3, RowsGo, Carried DEF OncePerSecret
  <2>5. ResetsCount'
    BY <1>a, <2>1, <2>2, <2>3 DEF ResetsCount, Goes
  <2> QED BY <1>a, <2>1, <2>3, <2>4, <2>5, LocksUntouched
          DEF SecretInv, SecretType, Goes, Requests
<1>2. ASSUME S!Renew(r) PROVE SecretInv'
  <2>1. /\ used[r].pc = "renew" /\ account' = [account EXCEPT !.word = used[r].word, !.old = FALSE]
        /\ S!Done(r)
        /\ UNCHANGED <<minute, chosen, overtaken, otp, locked, evaded, resets, drawn, spent, reused>>
    BY <1>2 DEF S!Renew, S!codeVars
  <2>2. Goes(r, S!Idle) /\ S!Idle.pc = "idle"
    BY <1>a, <2>1, Ending
  <2>3. OncePerSecret'
    BY <1>a, <2>1, <2>2, RowsGo, Carried DEF OncePerSecret
  <2>4. used[r].word \in Word /\ (used[r].word = chosen \/ overtaken)
    BY <1>a, <2>1, RequestFields DEF ResetsCount
  <2>5. account' \in [word : Word, old : BOOLEAN, known : BOOLEAN]
        /\ account'.word = used[r].word
    BY <1>a, <2>1, <2>4 DEF SecretType
  <2>6. ResetsCount'
    BY <1>a, <2>1, <2>2, <2>4, <2>5 DEF ResetsCount, Goes
  <2> QED BY <1>a, <2>1, <2>2, <2>3, <2>5, <2>6, LocksUntouched
          DEF SecretInv, SecretType, Goes, Requests
<1>3. ASSUME S!CleanResets(r) PROVE SecretInv'
  <2>1. /\ resets' \subseteq resets /\ S!Done(r)
        /\ UNCHANGED <<minute, account, chosen, overtaken, otp, locked, evaded, drawn, spent, reused>>
    BY <1>3 DEF S!CleanResets, S!userVars, S!codeVars
  <2>2. Goes(r, S!Idle) /\ S!Idle.pc = "idle"
    BY <1>a, <2>1, Ending
  <2>3. OncePerSecret'
    BY <1>a, <2>1, <2>2, RowsGo, Carried DEF OncePerSecret
  <2> QED BY <1>a, <2>1, <2>2, <2>3, PasswordKept, LocksUntouched
          DEF SecretInv, SecretType, Goes, Requests
<1> QED BY <1>1, <1>2, <1>3

LEMMA Resetting ==
  ASSUME SecretInv, NEW r \in Request,
         \/ \E t \in resets, w \in Word : S!ReadReset(r, t, w)
         \/ S!SetPassword(r) \/ S!DropReset(r)
  PROVE  SecretInv'
<1>a. SecretType /\ OncePerSecret /\ LocksKept /\ ResetsCount
  BY DEF SecretInv
<1>1. ASSUME NEW t \in resets, NEW w \in Word, S!ReadReset(r, t, w) PROVE SecretInv'
  <2> DEFINE q == [pc |-> "set", secret |-> t.token, word |-> w]
  <2>1. /\ S!Accept(t.token) /\ used' = [used EXCEPT ![r] = q]
        /\ UNCHANGED <<minute, account, chosen, overtaken, otp, locked, evaded, resets, drawn, spent>>
    BY <1>1 DEF S!ReadReset, S!userVars, S!codeVars
  <2>2. t.token \in S!Secret /\ CodeGone(t.token, otp, drawn) /\ t.token \notin spent
    BY <1>a DEF SecretType, OncePerSecret, TokenGone
  <2>3. q \in ResetRequest /\ q.pc = "set" /\ q.secret = t.token
    BY <2>2 DEF ResetRequest
  <2> HIDE DEF q
  <2>4. Goes(r, q)
    BY <1>a, <2>1, <2>3, Becoming DEF Requests
  <2>5. ~reused'
    BY <1>a, <2>1, <2>2 DEF OncePerSecret, S!Accept
  <2>6. OncePerSecret'
    BY <2>1, <2>2, <2>3, <2>4, <2>5, RowsGo, Carried
  <2> QED BY <1>a, <2>1, <2>3, <2>4, <2>6, PasswordKept, LocksUntouched
          DEF SecretInv, SecretType, Goes, Requests
<1>2. ASSUME S!SetPassword(r) PROVE SecretInv'
  <2> DEFINE q == [used[r] EXCEPT !.pc = "dropReset"]
  <2>1. /\ used[r].pc = "set" /\ used' = [used EXCEPT ![r] = q]
        /\ account' = [account EXCEPT !.word = used[r].word, !.old = FALSE]
        /\ chosen' = used[r].word /\ overtaken' = (overtaken \/ S!Upgrading)
        /\ UNCHANGED <<minute, otp, locked, evaded, resets, drawn, spent, reused>>
    BY <1>2 DEF S!SetPassword, S!Goto, S!codeVars
  <2>2. used[r] \in ResetRequest /\ used[r].word \in Word
    BY <1>a, <2>1, RequestFields DEF ResetRequest
  <2>3. q \in ResetRequest /\ q.pc = "dropReset" /\ q.secret = used[r].secret
    BY <2>2 DEF ResetRequest
  <2> HIDE DEF q
  <2>4. Goes(r, q)
    BY <1>a, <2>1, <2>3, Becoming DEF Requests
  <2>5. OncePerSecret'
    BY <1>a, <2>1, <2>3, <2>4, RowsGo, Carried DEF OncePerSecret
  <2>6. account' \in [word : Word, old : BOOLEAN, known : BOOLEAN] /\ account'.word = chosen'
    BY <1>a, <2>1, <2>2 DEF SecretType
  <2>7. \A x \in Request : used'[x].pc = "renew" => used[x].pc = "renew"
    BY <2>3, <2>4 DEF Goes
  <2>8. \A x \in Request : used'[x].pc = "renew" => overtaken'
    BY <2>1, <2>7 DEF S!Upgrading
  <2>9. ResetsCount'
    BY <2>6, <2>8 DEF ResetsCount
  <2> QED BY <1>a, <2>1, <2>4, <2>5, <2>6, <2>9, LocksUntouched
          DEF SecretInv, SecretType, Goes, Requests
<1>3. ASSUME S!DropReset(r) PROVE SecretInv'
  <2> DEFINE s == used[r].secret
  <2>1. /\ used[r].pc = "dropReset" /\ resets' = {t \in resets : t.token # s}
        /\ spent' = spent \cup {s} /\ S!Done(r)
        /\ UNCHANGED <<minute, account, chosen, overtaken, otp, locked, evaded, drawn, reused>>
    BY <1>3 DEF S!DropReset, S!Answer, S!userVars, S!codeVars
  <2>2. Goes(r, S!Idle) /\ S!Idle.pc = "idle"
    BY <1>a, <2>1, Ending
  <2>3. CodeGone(s, otp', drawn')
    BY <1>a, <2>1 DEF OncePerSecret
  <2>4. TokenGone(s, resets', drawn')
    BY <2>1, <2>3 DEF CodeGone, TokenGone
  <2>5. GoneStaysGone
    BY <2>1, RowsGo
  <2>6. OncePerSecret'
    BY <1>a, <2>1, <2>2, <2>3, <2>4, <2>5, Carried DEF OncePerSecret
  <2> QED BY <1>a, <2>1, <2>2, <2>6, PasswordKept, LocksUntouched
          DEF SecretInv, SecretType, Goes, Requests
<1> QED BY <1>1, <1>2, <1>3

LEMMA SecretNext == SecretInv /\ [S!Next]_(S!vars) => SecretInv'
<1> SUFFICES ASSUME SecretInv, [S!Next]_(S!vars) PROVE SecretInv'
  OBVIOUS
<1>a. SecretType /\ OncePerSecret /\ LocksKept /\ ResetsCount
  BY DEF SecretInv
<1>1. CASE UNCHANGED S!vars
  BY <1>1, <1>a DEF S!vars, S!userVars, S!codeVars, SecretInv, SecretType, OncePerSecret, LocksKept,
     ResetsCount
<1>2. CASE S!Tick
  <2>1. /\ minute' = minute + 1
        /\ UNCHANGED <<account, chosen, overtaken, otp, locked, evaded, resets, used, drawn, spent,
                       reused>>
    BY <1>2 DEF S!Tick, S!userVars, S!codeVars
  <2>2. minute \in Nat /\ LockTime \in Nat /\ (otp # None => otp.until \in Nat)
    BY <1>a, SecretsBounds DEF SecretType, CodeRow
  <2>3. LocksKept'
    BY <1>a, <2>1, <2>2 DEF LocksKept
  <2> QED BY <1>a, <2>1, <2>2, <2>3 DEF SecretInv, SecretType, OncePerSecret, ResetsCount
<1>3. ASSUME NEW r \in Request, S!Dies(r) PROVE SecretInv'
  <2>1. /\ S!Done(r)
        /\ UNCHANGED <<minute, account, chosen, overtaken, otp, locked, evaded, resets, drawn, spent,
                       reused>>
    BY <1>3 DEF S!Dies, S!userVars, S!codeVars
  <2>2. Goes(r, S!Idle) /\ S!Idle.pc = "idle"
    BY <1>a, <2>1, Ending
  <2>3. OncePerSecret'
    BY <1>a, <2>1, <2>2, RowsGo, Carried DEF OncePerSecret
  <2> QED BY <1>a, <2>1, <2>2, <2>3, PasswordKept, LocksUntouched
          DEF SecretInv, SecretType, Goes, Requests
<1>4. ASSUME NEW r \in Request, S!Serve(r) PROVE SecretInv'
  BY <1>3, <1>4, Drawing, ReadingCode, Counting, CodesGo, PasswordChanges, Resetting DEF S!Serve
<1> QED BY <1>1, <1>2, <1>4 DEF S!Next

\* What may be used once is used again only by requests that overlap: the
\* step-up challenge by no more than there are, a citizen's code or reset token
\* by none that begins after one was answered; no late count of a wrong code
\* takes a lock away; and the password in force is the last reset's unless the
\* renewal of an old hash was under way.
THEOREM SecretsAlwaysHold == MCSpec => []SecretsHold
<1>1. S!Spec => []SecretInv
  BY SecretInit, SecretNext, PTL DEF S!Spec
<1>2. SecretInv => S!CredentialsHold
  BY DEF SecretInv, OncePerSecret, LocksKept, ResetsCount, S!CredentialsHold, S!SecretsServeOnce,
         S!LocksHold, S!LastResetCounts
<1>3. ChallengeLimits /\ S!CredentialsHold => SecretsHold
  BY DEF SecretsHold
<1> QED BY <1>1, <1>2, <1>3, PartsOfAccess, ChallengeAlwaysLimited, PTL

(***************************************************************************)
(* The sign-in page.                                                       *)
(***************************************************************************)
Sends == {c \in forms : c.kind = "send"}
Attempts == {c \in forms : c.kind # "send"}

\* Each flag keeps a second request of its kind from being sent, and a code
\* under way was asked for under the number shown, unless that was edited.
LoginInv ==
  /\ \A c, d \in Sends : c = d
  /\ \A c, d \in Attempts : c = d
  /\ loading <=> Attempts # {}
  /\ sendingOtp <=> Sends # {}
  /\ loading \in BOOLEAN /\ sendingOtp \in BOOLEAN /\ otpSent \in BOOLEAN
  /\ \A c \in Sends : c.number = number \/ edited
  /\ otpSent => number = codeFor \/ edited

LEMMA LoginInit == L!Init => LoginInv
BY DEF L!Init, LoginInv, Sends, Attempts

\* One request of a kind that had none.
LEMMA Submitted ==
  ASSUME LoginInv, NEW kind \in {"password", "verify", "forgot", "reset"}, L!Submit(kind),
         UNCHANGED <<number, otpSent, sendingOtp, codeFor, edited>>
  PROVE  LoginInv'
<1> DEFINE c == [kind |-> kind, number |-> number]
<1>1. c.kind # "send" /\ forms' = forms \cup {c} /\ loading' = TRUE /\ ~loading
  BY DEF L!Submit, L!Sent
<1> HIDE DEF c
<1>2. Sends' = Sends /\ Attempts' = {c}
  BY <1>1 DEF Sends, Attempts, LoginInv
<1> QED BY <1>1, <1>2 DEF LoginInv

LEMMA CodeAskedFor ==
  ASSUME LoginInv, L!SendOTP
  PROVE  LoginInv'
<1> DEFINE c == [kind |-> "send", number |-> number]
<1>1. /\ forms' = forms \cup {c} /\ c.kind = "send" /\ c.number = number
      /\ ~sendingOtp /\ sendingOtp' = TRUE /\ ~otpSent
      /\ UNCHANGED <<number, otpSent, loading, codeFor>>
  BY DEF L!SendOTP, L!Sent
<1> HIDE DEF c
<1>2. Attempts' = Attempts /\ Sends' = {c}
  BY <1>1 DEF Sends, Attempts, LoginInv
<1> QED BY <1>1, <1>2 DEF LoginInv

LEMMA Answered ==
  ASSUME LoginInv, NEW c \in forms, L!Agree(c) \/ L!Refuse(c)
  PROVE  LoginInv'
<1>1. /\ forms' = forms \ {c} /\ loading' = (loading /\ c.kind = "send")
      /\ sendingOtp' = (sendingOtp /\ c.kind # "send")
      /\ UNCHANGED <<number, edited>>
  BY DEF L!Agree, L!Refuse, L!Ended
<1>2. CASE c.kind = "send"
  <2>1. Sends' = {} /\ Attempts' = Attempts
    BY <1>1, <1>2 DEF LoginInv, Sends, Attempts
  <2>2. loading' = loading /\ sendingOtp' = FALSE
    BY <1>1, <1>2 DEF LoginInv
  <2>3. c.number = number \/ edited
    BY <1>2 DEF LoginInv, Sends
  <2>4. otpSent' \in BOOLEAN /\ (otpSent' => number' = codeFor' \/ edited')
    <3>1. CASE L!Agree(c)
      BY <1>1, <1>2, <2>3, <3>1 DEF L!Agree, LoginInv
    <3>2. CASE L!Refuse(c)
      BY <1>1, <3>2 DEF L!Refuse, LoginInv, L!forms
    <3> QED BY <3>1, <3>2
  <2> QED BY <1>1, <2>1, <2>2, <2>4 DEF LoginInv
<1>3. CASE c.kind # "send"
  <2>1. Attempts' = {} /\ Sends' = Sends
    BY <1>1, <1>3 DEF LoginInv, Sends, Attempts
  <2>2. loading' = FALSE /\ sendingOtp' = sendingOtp
    BY <1>1, <1>3 DEF LoginInv
  <2>3. otpSent' = otpSent /\ codeFor' = codeFor
    BY <1>1, <1>3 DEF L!Agree, L!Refuse, LoginInv
  <2> QED BY <1>1, <2>1, <2>2, <2>3 DEF LoginInv
<1> QED BY <1>2, <1>3

LEMMA LoginNext == LoginInv /\ [L!Next]_(L!vars) => LoginInv'
<1> SUFFICES ASSUME LoginInv, [L!Next]_(L!vars) PROVE LoginInv'
  OBVIOUS
<1> USE DEF L!flags, L!forms
<1>1. CASE UNCHANGED L!vars
  BY <1>1 DEF L!vars, LoginInv, Sends, Attempts
<1>2. CASE L!SignIn \/ L!VerifyOTP \/ L!AskReset \/ L!ResetPassword
  BY <1>2, Submitted DEF L!SignIn, L!VerifyOTP, L!AskReset, L!ResetPassword
<1>3. ASSUME NEW n \in Number, L!Type(n) PROVE LoginInv'
  BY <1>3 DEF L!Type, LoginInv, Sends, Attempts
<1>4. CASE L!Resend \/ \E m \in {"password", "aadhar"} : L!ChooseTab(m)
  <2>1. otpSent' = FALSE /\ UNCHANGED <<number, sendingOtp, loading, forms, codeFor, edited>>
    BY <1>4 DEF L!Resend, L!ChooseTab
  <2>2. Sends' = Sends /\ Attempts' = Attempts
    BY <2>1 DEF Sends, Attempts
  <2> QED BY <2>1, <2>2 DEF LoginInv
<1>5. CASE L!Forgot \/ L!BackToLogin \/ L!CloseReset
  BY <1>5 DEF L!Forgot, L!BackToLogin, L!CloseReset, LoginInv, Sends, Attempts
<1> QED BY <1>1, <1>2, <1>3, <1>4, <1>5, CodeAskedFor, Answered DEF L!Next

LEMMA LoginAsShown == LoginInv => L!AsksForTheCodeSent /\ L!OneAttemptAtATime
<1> SUFFICES ASSUME LoginInv PROVE L!AsksForTheCodeSent /\ L!OneAttemptAtATime
  OBVIOUS
<1>1. L!Cardinality(Attempts) = Cardinality(Attempts)
  BY DEF L!Cardinality, Cardinality
<1>2. Attempts = {} \/ \E c : Attempts = {c}
  BY DEF LoginInv
<1>3. Cardinality(Attempts) \in {0, 1}
  BY <1>2, FS_EmptySet, FS_Singleton
<1>4. Cardinality(Attempts) <= 1
  BY <1>3
<1> QED BY <1>1, <1>4 DEF LoginInv, L!AsksForTheCodeSent, L!OneAttemptAtATime, Attempts

(***************************************************************************)
(* The officer's view of service configurations: view is its state,        *)
(* questions its requests under way, mixed the panes overtaken.            *)
(***************************************************************************)
PageFields == {"view", "listed", "service", "versions", "detail", "compareTab", "base", "other",
               "diff", "comparing", "left", "right", "listDiff", "loading", "listLoading"}

PageShape(p) ==
  /\ DOMAIN p = PageFields
  /\ p.view \in {"services", "versions", "detail"}
  /\ p.view = "services" <=> p.service = None

\* Two versions of a service are compared; the page loads one of three things.
CallShape(c) ==
  /\ c.pane \in {"page", "diff", "list"}
  /\ c.pane # "page" => None \notin {c.service, c.version, c.with}

AskedFor(c) == <<c.service, c.version, c.with>>

\* A comparison under way, or shown, is of what is selected.
DiffKept(p, C, m) ==
  "diff" \in m
  \/ /\ \A c \in C : c.pane = "diff" => AskedFor(c) = <<p.service, p.base, p.other>>
     /\ p.view = "detail" => p.diff = None \/ V!Tells(p.diff, p.service, p.base, p.other)

ListKept(p, C, m) ==
  "list" \in m
  \/ /\ \A c \in C : c.pane = "list" => AskedFor(c) = <<p.service, p.left, p.right>>
     /\ p.listDiff = None \/ V!Tells(p.listDiff, p.service, p.left, p.right)

\* What a load answers is where the page still is: a service's versions for
\* that service, a version for the one clicked.
Fits(p, c) ==
  \/ c.service = None
  \/ c.service # None /\ c.version = None /\ (p.view = "services" \/ c.service = p.service)
  \/ /\ c.service # None /\ c.version # None /\ p.view = "detail" /\ p.detail = None
     /\ c.service = p.service /\ c.version = p.base

Loads(C) == {c \in C : c.pane = "page"}

OwnLoaded(p) ==
  /\ p.view # "detail" => p.detail = None
  /\ p.view # "services" => p.versions \in {None, p.service}
  /\ p.view = "detail" => p.detail \in {None, <<p.service, p.base>>}

LoadKept(p, C, m) ==
  "page" \in m
  \/ /\ \A c, d \in Loads(C) : c = d
     /\ \A c \in Loads(C) : p.loading /\ Fits(p, c)
     /\ OwnLoaded(p)

ConfigInv ==
  /\ offline \in BOOLEAN /\ PageShape(view) /\ \A c \in questions : CallShape(c)
  /\ DiffKept(view, questions, mixed) /\ ListKept(view, questions, mixed)
  /\ LoadKept(view, questions, mixed)

\* What a comparison says turns the one content into the other.
LEMMA DiffTurns ==
  ASSUME NEW a, NEW b
  PROVE  V!Patched(a, V!Diff(a, b)) = {<<k, b[k]>> : k \in DOMAIN b}
<1> DEFINE d == V!Diff(a, b)
           A == {<<k, a[k]>> : k \in DOMAIN a}
           gone == d.removed \cup {e \in A : \E c \in d.changed : c[1] = e[1]}
           result == (A \ gone) \cup d.added \cup d.changed
<1>1. /\ d.added = {<<k, b[k]>> : k \in DOMAIN b \ DOMAIN a}
      /\ d.removed = {<<k, a[k]>> : k \in DOMAIN a \ DOMAIN b}
      /\ d.changed = {<<k, b[k]>> : k \in {x \in DOMAIN a \cap DOMAIN b : a[x] # b[x]}}
  BY DEF V!Diff
<1>2. V!Patched(a, d) = result
  BY Zenon DEF V!Patched
<1> HIDE DEF d
<1>3. ASSUME NEW k \in DOMAIN b PROVE <<k, b[k]>> \in result
  <2>1. CASE k \notin DOMAIN a
    BY <1>1, <1>3, <2>1
  <2>2. CASE k \in DOMAIN a /\ a[k] # b[k]
    BY <1>1, <1>3, <2>2
  <2>3. CASE k \in DOMAIN a /\ a[k] = b[k]
    <3>1. <<k, b[k]>> \in A /\ <<k, b[k]>>[1] = k
      BY <2>3
    <3>2. <<k, b[k]>> \notin d.removed
      BY <1>1, <1>3
    <3>3. \A c \in d.changed : c[1] # k
      BY <1>1, <2>3
    <3> QED BY <3>1, <3>2, <3>3
  <2> QED BY <2>1, <2>2, <2>3
<1>4. ASSUME NEW e \in result PROVE e \in {<<k, b[k]>> : k \in DOMAIN b}
  <2>1. CASE e \in d.added \cup d.changed
    BY <1>1, <2>1
  <2>2. CASE e \in A \ gone
    <3>1. PICK k \in DOMAIN a : e = <<k, a[k]>>
      BY <2>2
    <3>2. k \in DOMAIN b
      BY <1>1, <2>2, <3>1
    <3>3. ASSUME a[k] # b[k] PROVE FALSE
      <4>1. <<k, b[k]>> \in d.changed /\ <<k, b[k]>>[1] = e[1]
        BY <1>1, <3>1, <3>2, <3>3
      <4> QED BY <2>2, <4>1
    <3> QED BY <3>1, <3>2, <3>3
  <2> QED BY <1>4, <2>1, <2>2
<1> HIDE DEF result
<1>5. result = {<<k, b[k]>> : k \in DOMAIN b}
  BY <1>3, <1>4
<1> QED BY <1>2, <1>5 DEF d

LEMMA ConfigInit == V!Init => ConfigInv
<1> SUFFICES ASSUME V!Init PROVE ConfigInv
  OBVIOUS
<1>1. view = V!Fresh /\ questions = {V!Services} /\ mixed = {}
  BY DEF V!Init
<1>2. /\ DOMAIN view = PageFields /\ view.view = "services" /\ view.service = None
      /\ view.detail = None /\ view.listDiff = None /\ view.loading
  BY <1>1 DEF V!Fresh, PageFields
<1>3. V!Services.pane = "page" /\ V!Services.service = None
  BY DEF V!Services, V!Call
<1> HIDE DEF V!Services
<1>4. offline \in BOOLEAN
  BY DEF V!Init
<1> QED BY <1>1, <1>2, <1>3, <1>4 DEF ConfigInv, PageShape, CallShape, DiffKept, ListKept, LoadKept,
     OwnLoaded, Loads, Fits

(* A click makes the page p and asks N: per pane, what has to hold of p. *)
LEMMA DiffBecomes ==
  ASSUME DiffKept(view, questions, mixed), NEW p, NEW N, V!Become(p, N),
         \A c \in N : c.pane = "diff" => AskedFor(c) = <<p.service, p.base, p.other>>,
         "diff" \in mixed
         \/ (p.view = "detail" => p.diff = None \/ V!Tells(p.diff, p.service, p.base, p.other))
  PROVE  DiffKept(view', questions', mixed')
<1>1. /\ view' = p /\ questions' \subseteq questions \cup N
      /\ mixed' = mixed \cup V!Overtaken(p)
  BY DEF V!Become
<1>2. SUFFICES ASSUME "diff" \notin mixed' PROVE DiffKept(p, questions', mixed')
  BY <1>1 DEF DiffKept
<1>3. ASSUME NEW c \in questions, c.pane = "diff"
      PROVE  AskedFor(c) = <<p.service, p.base, p.other>>
  <2>1. V!Named(p, c.pane) = V!Named(view, c.pane)
    BY <1>1, <1>2, <1>3 DEF V!Overtaken
  <2>2. V!Named(p, c.pane) = <<p.service, p.base, p.other>>
        /\ V!Named(view, c.pane) = <<view.service, view.base, view.other>>
    BY <1>3 DEF V!Named
  <2> QED BY <1>1, <1>2, <1>3, <2>1, <2>2 DEF DiffKept
<1> QED BY <1>1, <1>2, <1>3 DEF DiffKept

LEMMA ListBecomes ==
  ASSUME ListKept(view, questions, mixed), NEW p, NEW N, V!Become(p, N),
         \A c \in N : c.pane = "list" => AskedFor(c) = <<p.service, p.left, p.right>>,
         "list" \in mixed
         \/ p.listDiff = None \/ V!Tells(p.listDiff, p.service, p.left, p.right)
  PROVE  ListKept(view', questions', mixed')
<1>1. /\ view' = p /\ questions' \subseteq questions \cup N
      /\ mixed' = mixed \cup V!Overtaken(p)
  BY DEF V!Become
<1>2. SUFFICES ASSUME "list" \notin mixed' PROVE ListKept(p, questions', mixed')
  BY <1>1 DEF ListKept
<1>3. ASSUME NEW c \in questions, c.pane = "list"
      PROVE  AskedFor(c) = <<p.service, p.left, p.right>>
  <2>1. V!Named(p, c.pane) = V!Named(view, c.pane)
    BY <1>1, <1>2, <1>3 DEF V!Overtaken
  <2>2. V!Named(p, c.pane) = <<p.service, p.left, p.right>>
        /\ V!Named(view, c.pane) = <<view.service, view.left, view.right>>
    BY <1>3 DEF V!Named
  <2> QED BY <1>1, <1>2, <1>3, <2>1, <2>2 DEF ListKept
<1> QED BY <1>1, <1>2, <1>3 DEF ListKept

\* Nothing new is loaded.
LEMMA LoadGoesOn ==
  ASSUME LoadKept(view, questions, mixed), NEW p, NEW N, V!Become(p, N),
         \A c \in N : c.pane # "page", p.loading = view.loading,
         \A c : Fits(view, c) => Fits(p, c), OwnLoaded(view) => OwnLoaded(p)
  PROVE  LoadKept(view', questions', mixed')
<1>1. /\ view' = p /\ questions \subseteq questions' /\ questions' \subseteq questions \cup N
      /\ mixed \subseteq mixed'
  BY DEF V!Become
<1>2. Loads(questions') = Loads(questions)
  BY <1>1 DEF Loads
<1> QED BY <1>1, <1>2 DEF LoadKept

\* One load begins on a page that waits for none.
LEMMA LoadBegins ==
  ASSUME LoadKept(view, questions, mixed), offline \in BOOLEAN,
         NEW p, NEW N, V!Become(p, N), ~view.loading, p.loading = ~offline,
         NEW c, \A d \in N : d.pane = "page" => d = c, Fits(p, c), OwnLoaded(view) => OwnLoaded(p)
  PROVE  LoadKept(view', questions', mixed')
<1>1. /\ view' = p /\ mixed \subseteq mixed'
      /\ questions' = IF offline THEN questions ELSE questions \cup N
  BY DEF V!Become
<1>2. SUFFICES ASSUME "page" \notin mixed PROVE LoadKept(view', questions', mixed')
  BY <1>1 DEF LoadKept
<1>3. Loads(questions) = {} /\ OwnLoaded(view)
  BY <1>2 DEF LoadKept
<1>4. CASE offline
  BY <1>1, <1>3, <1>4 DEF LoadKept
<1>5. CASE ~offline
  <2>1. Loads(questions') \subseteq {c} /\ p.loading
    BY <1>1, <1>3, <1>5 DEF Loads
  <2> QED BY <1>1, <1>3, <2>1 DEF LoadKept
<1> QED BY <1>4, <1>5

LEMMA Becomes ==
  ASSUME ConfigInv, NEW p, NEW N, V!Become(p, N), UNCHANGED offline,
         PageShape(p), \A c \in N : CallShape(c),
         DiffKept(view', questions', mixed'), ListKept(view', questions', mixed'),
         LoadKept(view', questions', mixed')
  PROVE  ConfigInv'
<1>1. view' = p /\ questions' \subseteq questions \cup N
  BY DEF V!Become
<1> QED BY <1>1 DEF ConfigInv

LEMMA ComparisonOf ==
  ASSUME NEW p, NEW c \in V!Comparison(p)
  PROVE  c.pane = "diff" /\ CallShape(c) /\ AskedFor(c) = <<p.service, p.base, p.other>>
<1>1. c = V!Call("diff", p.service, p.base, p.other) /\ None \notin {p.service, p.base, p.other}
  BY DEF V!Comparison
<1> QED BY <1>1 DEF V!Call, CallShape, AskedFor

LEMMA NoService == \A d, v, w : ~V!Tells(d, None, v, w)
BY PublishedAssumption DEF V!Tells, V!VersionsOf, V!Service

LEMMA ServiceChosen == ASSUME ConfigInv, NEW s \in V!Service, V!SelectService(s) PROVE ConfigInv'
<1> DEFINE p == [view EXCEPT !.view = "versions", !.service = s, !.versions = None,
                             !.loading = ~offline]
           c == V!Call("page", s, None, None)
           N == {c} \cup V!Comparison(p)
<1>1. /\ view.view = "services" /\ ~view.loading /\ V!Become(p, N) /\ UNCHANGED offline
  BY Zenon DEF V!SelectService
<1>2. s # None /\ PageShape(view) /\ view.service = None
  BY <1>1, PublishedAssumption DEF V!Service, ConfigInv, PageShape
<1>3. /\ DOMAIN p = PageFields /\ p.view = "versions" /\ p.service = s /\ p.versions = None
      /\ p.loading = ~offline /\ p.detail = view.detail /\ p.listDiff = view.listDiff
  BY <1>2 DEF PageShape, PageFields
<1>4. c.pane = "page" /\ c.service = s /\ c.version = None
  BY DEF V!Call
<1>5. \A d \in N : d = c \/ d \in V!Comparison(p)
  OBVIOUS
<1> HIDE DEF p, c, N
<1>6. \A d \in N : /\ CallShape(d) /\ d.pane # "list" /\ (d.pane = "page" => d = c)
                   /\ d.pane = "diff" => AskedFor(d) = <<p.service, p.base, p.other>>
  BY <1>4, <1>5, ComparisonOf DEF CallShape
<1>7. DiffKept(view', questions', mixed')
  BY <1>1, <1>3, <1>6, DiffBecomes DEF ConfigInv
<1>8. "list" \in mixed \/ p.listDiff = None
  BY <1>2, <1>3, NoService DEF ConfigInv, ListKept
<1>9. ListKept(view', questions', mixed')
  BY <1>1, <1>6, <1>8, ListBecomes DEF ConfigInv
<1>10. Fits(p, c) /\ (OwnLoaded(view) => OwnLoaded(p))
  BY <1>1, <1>2, <1>3, <1>4 DEF Fits, OwnLoaded
<1>11. LoadKept(view', questions', mixed')
  BY <1>1, <1>3, <1>6, <1>10, LoadBegins DEF ConfigInv
<1>12. PageShape(p)
  BY <1>2, <1>3 DEF PageShape
<1> QED BY <1>1, <1>6, <1>7, <1>9, <1>11, <1>12, Becomes

LEMMA VersionChosen == ASSUME ConfigInv, NEW v, V!SelectVersion(v) PROVE ConfigInv'
<1> DEFINE p == [view EXCEPT !.view = "detail", !.compareTab = FALSE, !.base = v, !.other = None,
                             !.diff = None, !.loading = ~offline]
           c == V!Call("page", view.service, v, None)
<1>1. /\ view.view = "versions" /\ ~view.loading /\ v \in V!VersionsOf(view.versions)
      /\ V!Become(p, {c}) /\ UNCHANGED offline
  BY Zenon DEF V!SelectVersion
<1>2. PageShape(view) /\ view.service # None
  BY <1>1 DEF ConfigInv, PageShape
<1>3. v # None
  BY <1>1, PublishedAssumption DEF V!VersionsOf, V!Service
<1>4. /\ DOMAIN p = PageFields /\ p.view = "detail" /\ p.service = view.service
      /\ p.versions = view.versions /\ p.loading = ~offline /\ p.detail = view.detail
      /\ p.base = v /\ p.diff = None /\ p.listDiff = view.listDiff
      /\ p.left = view.left /\ p.right = view.right
  BY <1>2 DEF PageShape, PageFields
<1>5. c.pane = "page" /\ c.service = view.service /\ c.version = v
  BY DEF V!Call
<1> HIDE DEF p, c
<1>6. DiffKept(view', questions', mixed')
  BY <1>1, <1>4, <1>5, DiffBecomes DEF ConfigInv
<1>7. "list" \in mixed \/ p.listDiff = None \/ V!Tells(p.listDiff, p.service, p.left, p.right)
  BY <1>4 DEF ConfigInv, ListKept
<1>8. ListKept(view', questions', mixed')
  BY <1>1, <1>5, <1>7, ListBecomes DEF ConfigInv
<1>9. OwnLoaded(view) => Fits(p, c) /\ OwnLoaded(p)
  BY <1>1, <1>2, <1>3, <1>4, <1>5 DEF Fits, OwnLoaded
<1>10. "page" \in mixed \/ OwnLoaded(view)
  BY DEF ConfigInv, LoadKept
<1>11. LoadKept(view', questions', mixed')
  <2>1. CASE "page" \in mixed
    BY <1>1, <2>1 DEF V!Become, LoadKept
  <2>2. CASE OwnLoaded(view)
    BY <1>1, <1>4, <1>9, <2>2, LoadBegins DEF ConfigInv
  <2> QED BY <1>10, <2>1, <2>2
<1>12. PageShape(p) /\ CallShape(c)
  BY <1>2, <1>4, <1>5 DEF PageShape, CallShape
<1> QED BY <1>1, <1>6, <1>8, <1>11, <1>12, Becomes

LEMMA GoneBack == ASSUME ConfigInv, V!BackToServices \/ V!BackToVersions PROVE ConfigInv'
<1>1. CASE V!BackToServices
  <2> DEFINE p == [view EXCEPT !.view = "services", !.service = None, !.versions = None,
                               !.detail = None, !.comparing = FALSE, !.listDiff = None]
  <2>1. view.view = "versions" /\ V!Become(p, {}) /\ UNCHANGED offline
    BY <1>1, Zenon DEF V!BackToServices
  <2>2. PageShape(view)
    BY DEF ConfigInv
  <2>3. /\ DOMAIN p = PageFields /\ p.view = "services" /\ p.service = None
        /\ p.detail = None /\ p.listDiff = None /\ p.loading = view.loading
    BY <2>2 DEF PageShape, PageFields
  <2> HIDE DEF p
  <2>4. DiffKept(view', questions', mixed') /\ ListKept(view', questions', mixed')
    BY <2>1, <2>3, DiffBecomes, ListBecomes DEF ConfigInv
  <2>5. OwnLoaded(p) /\ \A c : Fits(view, c) => Fits(p, c)
    BY <2>1, <2>3 DEF OwnLoaded, Fits
  <2>6. LoadKept(view', questions', mixed')
    BY <2>1, <2>3, <2>5, LoadGoesOn DEF ConfigInv
  <2> QED BY <2>1, <2>3, <2>4, <2>6, Becomes DEF PageShape
<1>2. CASE V!BackToVersions
  <2> DEFINE p == [view EXCEPT !.view = "versions", !.detail = None]
  <2>1. view.view = "detail" /\ view.detail # None /\ V!Become(p, {}) /\ UNCHANGED offline
    BY <1>2, Zenon DEF V!BackToVersions
  <2>2. PageShape(view)
    BY DEF ConfigInv
  <2>3. /\ DOMAIN p = PageFields /\ p.view = "versions" /\ p.service = view.service
        /\ p.versions = view.versions /\ p.detail = None /\ p.listDiff = view.listDiff
        /\ p.left = view.left /\ p.right = view.right /\ p.loading = view.loading
    BY <2>2 DEF PageShape, PageFields
  <2> HIDE DEF p
  <2>4. "list" \in mixed \/ p.listDiff = None \/ V!Tells(p.listDiff, p.service, p.left, p.right)
    BY <2>3 DEF ConfigInv, ListKept
  <2>5. DiffKept(view', questions', mixed') /\ ListKept(view', questions', mixed')
    BY <2>1, <2>3, <2>4, DiffBecomes, ListBecomes DEF ConfigInv
  <2>6. (OwnLoaded(view) => OwnLoaded(p)) /\ \A c : Fits(view, c) => Fits(p, c)
    BY <2>1, <2>2, <2>3 DEF OwnLoaded, Fits, PageShape
  <2>7. LoadKept(view', questions', mixed')
    BY <2>1, <2>3, <2>6, LoadGoesOn DEF ConfigInv
  <2>8. PageShape(p)
    BY <2>1, <2>2, <2>3 DEF PageShape
  <2> QED BY <2>1, <2>5, <2>7, <2>8, Becomes
<1> QED BY <1>1, <1>2

\* A click in a comparison leaves what was loaded.
SameLoads(p) ==
  /\ DOMAIN p = PageFields
  /\ p.view = view.view /\ p.service = view.service /\ p.versions = view.versions
  /\ p.detail = view.detail /\ p.base = view.base /\ p.loading = view.loading

LEMMA LoadsStay ==
  ASSUME ConfigInv, NEW p, NEW N, V!Become(p, N), SameLoads(p), \A c \in N : c.pane # "page"
  PROVE  LoadKept(view', questions', mixed') /\ PageShape(p)
<1>1. (OwnLoaded(view) => OwnLoaded(p)) /\ \A c : Fits(view, c) => Fits(p, c)
  BY DEF SameLoads, OwnLoaded, Fits
<1>2. LoadKept(view', questions', mixed')
  BY <1>1, LoadGoesOn DEF ConfigInv, SameLoads
<1>3. PageShape(p)
  BY DEF ConfigInv, PageShape, SameLoads
<1> QED BY <1>2, <1>3

LEMMA ComparedInDetail ==
  ASSUME ConfigInv, (\E b \in BOOLEAN : V!OpenTab(b)) \/ (\E v : V!ChooseOther(v))
  PROVE  ConfigInv'
<1>a. PageShape(view)
  BY DEF ConfigInv
<1> DEFINE P(p) ==
      /\ V!Become(p, V!Comparison(p)) /\ UNCHANGED offline /\ SameLoads(p)
      /\ p.left = view.left /\ p.right = view.right /\ p.listDiff = view.listDiff
      /\ \/ p.diff = None
         \/ p.diff = view.diff /\ p.other = view.other
<1>b. PICK p : P(p)
  <2>1. ASSUME NEW b \in BOOLEAN, V!OpenTab(b) PROVE \E p : P(p)
    <3> DEFINE p == [view EXCEPT !.compareTab = b]
    <3>1. V!Become(p, V!Comparison(p)) /\ UNCHANGED offline
      BY <2>1, Zenon DEF V!OpenTab
    <3>2. /\ SameLoads(p) /\ p.diff = view.diff /\ p.other = view.other
          /\ p.left = view.left /\ p.right = view.right /\ p.listDiff = view.listDiff
      BY <1>a DEF SameLoads, PageShape, PageFields
    <3> HIDE DEF p
    <3> QED BY <3>1, <3>2
  <2>2. ASSUME NEW v, V!ChooseOther(v) PROVE \E p : P(p)
    <3> DEFINE p == [view EXCEPT !.other = v, !.diff = None]
    <3>1. V!Become(p, V!Comparison(p)) /\ UNCHANGED offline
      BY <2>2, Zenon DEF V!ChooseOther
    <3>2. /\ SameLoads(p) /\ p.diff = None
          /\ p.left = view.left /\ p.right = view.right /\ p.listDiff = view.listDiff
      BY <1>a DEF SameLoads, PageShape, PageFields
    <3> HIDE DEF p
    <3> QED BY <3>1, <3>2
  <2> QED BY <2>1, <2>2
<1>1. P(p)
  BY <1>b
<1>2. \A c \in V!Comparison(p) : /\ CallShape(c) /\ c.pane = "diff"
                                 /\ AskedFor(c) = <<p.service, p.base, p.other>>
  BY ComparisonOf
<1>3. "diff" \in mixed
      \/ (p.view = "detail" => p.diff = None \/ V!Tells(p.diff, p.service, p.base, p.other))
  BY <1>1 DEF ConfigInv, DiffKept, SameLoads
<1>4. DiffKept(view', questions', mixed')
  BY <1>1, <1>2, <1>3, DiffBecomes DEF ConfigInv
<1>5. "list" \in mixed \/ p.listDiff = None \/ V!Tells(p.listDiff, p.service, p.left, p.right)
  BY <1>1 DEF ConfigInv, ListKept, SameLoads
<1>6. ListKept(view', questions', mixed')
  BY <1>1, <1>2, <1>5, ListBecomes DEF ConfigInv
<1>7. LoadKept(view', questions', mixed') /\ PageShape(p)
  BY <1>1, <1>2, LoadsStay
<1> QED BY <1>1, <1>2, <1>4, <1>6, <1>7, Becomes

LEMMA ComparedInList ==
  ASSUME ConfigInv,
         \/ V!ToggleCompare \/ V!CompareListed
         \/ \E v : \E side \in {"left", "right"} : V!ChooseListed(side, v)
  PROVE  ConfigInv'
<1>a. PageShape(view)
  BY DEF ConfigInv
<1> DEFINE wanted(p) == {V!Call("list", p.service, p.left, p.right)}
<1> DEFINE P(p) ==
      /\ UNCHANGED offline /\ SameLoads(p)
      /\ \/ V!Become(p, {})
         \/ V!Become(p, wanted(p)) /\ None \notin {p.service, p.left, p.right}
      /\ p.diff = view.diff /\ p.other = view.other
      /\ \/ p.listDiff = None
         \/ p.listDiff = view.listDiff /\ p.left = view.left /\ p.right = view.right
<1>1. PICK p : P(p)
  <2>1. ASSUME V!ToggleCompare PROVE \E p : P(p)
    <3> DEFINE p == [view EXCEPT !.comparing = ~@, !.listDiff = None]
    <3>1. V!Become(p, {}) /\ UNCHANGED offline
      BY <2>1, Zenon DEF V!ToggleCompare
    <3>2. SameLoads(p) /\ p.listDiff = None /\ p.diff = view.diff /\ p.other = view.other
      BY <1>a DEF SameLoads, PageShape, PageFields
    <3> HIDE DEF p
    <3> QED BY <3>1, <3>2
  <2>2. ASSUME NEW v, NEW side \in {"left", "right"}, V!ChooseListed(side, v) PROVE \E p : P(p)
    <3> DEFINE p == [view EXCEPT ![side] = v, !.listDiff = None]
    <3>1. V!Become(p, {}) /\ UNCHANGED offline
      BY <2>2, Zenon DEF V!ChooseListed
    <3>2. SameLoads(p) /\ p.listDiff = None /\ p.diff = view.diff /\ p.other = view.other
      BY <1>a DEF SameLoads, PageShape, PageFields
    <3> HIDE DEF p
    <3> QED BY <3>1, <3>2
  <2>3. ASSUME V!CompareListed PROVE \E p : P(p)
    <3> DEFINE p == [view EXCEPT !.listLoading = ~offline]
    <3>1. /\ V!Become(p, {V!Call("list", view.service, view.left, view.right)}) /\ UNCHANGED offline
          /\ view.view = "versions" /\ None \notin {view.left, view.right}
      BY <2>3, Zenon DEF V!CompareListed, V!ComparesList
    <3>2. /\ SameLoads(p) /\ p.diff = view.diff /\ p.other = view.other
          /\ p.listDiff = view.listDiff /\ p.left = view.left /\ p.right = view.right
      BY <1>a DEF SameLoads, PageShape, PageFields
    <3>3. None \notin {p.service, p.left, p.right} /\ p.service = view.service
      BY <1>a, <3>1, <3>2 DEF SameLoads, PageShape
    <3> HIDE DEF p
    <3> QED BY <3>1, <3>2, <3>3
  <2> QED BY <2>1, <2>2, <2>3
<1>2. ASSUME NEW N \in {{}, wanted(p)}, V!Become(p, N),
             N # {} => None \notin {p.service, p.left, p.right}
      PROVE  ConfigInv'
  <2>1. \A c \in N : /\ CallShape(c) /\ c.pane = "list"
                     /\ AskedFor(c) = <<p.service, p.left, p.right>>
    BY <1>2 DEF V!Call, CallShape, AskedFor
  <2>2. "diff" \in mixed
        \/ (p.view = "detail" => p.diff = None \/ V!Tells(p.diff, p.service, p.base, p.other))
    BY <1>1 DEF ConfigInv, DiffKept, SameLoads
  <2>3. DiffKept(view', questions', mixed')
    BY <1>2, <2>1, <2>2, DiffBecomes DEF ConfigInv
  <2>4. "list" \in mixed \/ p.listDiff = None \/ V!Tells(p.listDiff, p.service, p.left, p.right)
    BY <1>1 DEF ConfigInv, ListKept, SameLoads
  <2>5. ListKept(view', questions', mixed')
    BY <1>2, <2>1, <2>4, ListBecomes DEF ConfigInv
  <2>6. LoadKept(view', questions', mixed') /\ PageShape(p)
    BY <1>1, <1>2, <2>1, LoadsStay
  <2> QED BY <1>1, <1>2, <2>1, <2>3, <2>5, <2>6, Becomes
<1>3. CASE V!Become(p, {})
  BY <1>2, <1>3
<1>4. CASE V!Become(p, wanted(p)) /\ None \notin {p.service, p.left, p.right}
  BY <1>2, <1>4
<1> QED BY <1>1, <1>3, <1>4

LEMMA Connection == ASSUME ConfigInv, V!GoOnline \/ V!GoOffline PROVE ConfigInv'
<1>1. CASE V!GoOffline
  BY <1>1 DEF V!GoOffline, ConfigInv
<1>2. CASE V!GoOnline
  <2> DEFINE p == [view EXCEPT !.loading = TRUE]
  <2>1. /\ view' = p /\ questions' = questions \cup {V!Services} \cup V!Comparison(view)
        /\ mixed' = mixed \cup {c.pane : c \in {d \in questions : d.pane = "page"}}
        /\ offline' = FALSE
    BY <1>2 DEF V!GoOnline
  <2>2. PageShape(view)
    BY DEF ConfigInv
  <2>3. /\ DOMAIN p = PageFields /\ p.view = view.view /\ p.service = view.service
        /\ p.versions = view.versions /\ p.detail = view.detail /\ p.base = view.base
        /\ p.other = view.other /\ p.diff = view.diff /\ p.left = view.left
        /\ p.right = view.right /\ p.listDiff = view.listDiff /\ p.loading
    BY <2>2 DEF PageShape, PageFields
  <2> HIDE DEF p
  <2>4. V!Services.pane = "page" /\ V!Services.service = None
    BY DEF V!Services, V!Call
  <2>5. \A c \in V!Comparison(view) : /\ CallShape(c) /\ c.pane = "diff"
                                      /\ AskedFor(c) = <<view.service, view.base, view.other>>
    BY ComparisonOf
  <2> HIDE DEF V!Services
  <2>6. DiffKept(view', questions', mixed')
    BY <2>1, <2>3, <2>4, <2>5 DEF ConfigInv, DiffKept
  <2>7. ListKept(view', questions', mixed')
    BY <2>1, <2>3, <2>4, <2>5 DEF ConfigInv, ListKept
  <2>8. LoadKept(view', questions', mixed')
    <3>1. SUFFICES ASSUME "page" \notin mixed' PROVE LoadKept(view', questions', mixed')
      BY DEF LoadKept
    <3>2. Loads(questions) = {} /\ "page" \notin mixed
      BY <2>1, <3>1 DEF Loads
    <3>3. Loads(questions') \subseteq {V!Services}
      BY <2>1, <2>5, <3>2 DEF Loads
    <3>4. OwnLoaded(view) /\ (OwnLoaded(view) => OwnLoaded(p))
      BY <2>3, <3>2 DEF ConfigInv, LoadKept, OwnLoaded
    <3> QED BY <2>1, <2>3, <2>4, <3>3, <3>4 DEF LoadKept, Fits
  <2>9. PageShape(p) /\ \A c \in questions' : CallShape(c)
    BY <2>1, <2>2, <2>3, <2>4, <2>5 DEF PageShape, ConfigInv, CallShape
  <2> QED BY <2>1, <2>6, <2>7, <2>8, <2>9 DEF ConfigInv
<1> QED BY <1>1, <1>2

LEMMA LeftAlone == ASSUME ConfigInv, V!Leave PROVE ConfigInv'
<1>1. view' = V!Fresh /\ questions' = {V!Services} /\ mixed' = {} /\ offline' = offline
  BY DEF V!Leave
<1>2. /\ DOMAIN view' = PageFields /\ view'.view = "services" /\ view'.service = None
      /\ view'.detail = None /\ view'.listDiff = None /\ view'.loading
  BY <1>1 DEF V!Fresh, PageFields
<1>3. V!Services.pane = "page" /\ V!Services.service = None
  BY DEF V!Services, V!Call
<1> HIDE DEF V!Services
<1> QED BY <1>1, <1>2, <1>3 DEF ConfigInv, PageShape, CallShape, DiffKept, ListKept, LoadKept,
     OwnLoaded, Loads, Fits

\* A comparison that exists turns the one version into the other.
LEMMA ComparedTells ==
  ASSUME NEW c, V!Exists(c), CallShape(c), c.pane # "page"
  PROVE  V!Tells(V!Compared(c), c.service, c.version, c.with)
<1>1. {c.version, c.with} \subseteq V!VersionsOf(c.service)
  BY DEF V!Exists, CallShape
<1> QED BY <1>1, DiffTurns DEF V!Tells, V!Compared

\* A comparison answered or refused, in the detail of a version.
LEMMA DiffAnswered ==
  ASSUME ConfigInv, NEW c \in questions, c.pane = "diff", V!Answer(c) \/ V!Fail(c)
  PROVE  ConfigInv'
<1>1. PICK d : /\ view' = [view EXCEPT !.diff = d]
               /\ d = None \/ V!Tells(d, c.service, c.version, c.with)
  <2>1. CASE V!Answer(c)
    BY <2>1, ComparedTells DEF V!Answer, V!Stored, ConfigInv
  <2>2. CASE V!Fail(c)
    BY <2>2 DEF V!Fail, V!Refused
  <2> QED BY <2>1, <2>2
<1>2. questions' = questions \ {c} /\ mixed' = mixed /\ offline' = offline
  BY DEF V!Answer, V!Fail
<1>3. PageShape(view)
  BY DEF ConfigInv
<1>4. /\ DOMAIN view' = PageFields /\ view'.view = view.view /\ view'.service = view.service
      /\ view'.versions = view.versions /\ view'.detail = view.detail /\ view'.base = view.base
      /\ view'.other = view.other /\ view'.diff = d /\ view'.left = view.left
      /\ view'.right = view.right /\ view'.listDiff = view.listDiff
      /\ view'.loading = view.loading
  BY <1>1, <1>3 DEF PageShape, PageFields
<1>5. DiffKept(view', questions', mixed')
  BY <1>1, <1>2, <1>4 DEF ConfigInv, DiffKept, AskedFor
<1>6. ListKept(view', questions', mixed')
  BY <1>2, <1>4 DEF ConfigInv, ListKept
<1>7. LoadKept(view', questions', mixed')
  BY <1>2, <1>4 DEF ConfigInv, LoadKept, Loads, OwnLoaded, Fits
<1> QED BY <1>2, <1>3, <1>4, <1>5, <1>6, <1>7 DEF ConfigInv, PageShape

LEMMA ListAnswered ==
  ASSUME ConfigInv, NEW c \in questions, c.pane = "list", V!Answer(c) \/ V!Fail(c)
  PROVE  ConfigInv'
<1> DEFINE With(d) == [view EXCEPT !.listDiff = d, !.listLoading = FALSE]
<1>a. V!Stored(c) = With(V!Compared(c)) /\ V!Refused(c) = With(None)
  BY DEF V!Stored, V!Refused
<1> HIDE DEF With
<1>1. PICK d : view' = With(d) /\ (d = None \/ V!Tells(d, c.service, c.version, c.with))
  <2>1. CASE V!Answer(c)
    BY <1>a, <2>1, ComparedTells DEF V!Answer, ConfigInv
  <2>2. CASE V!Fail(c)
    BY <1>a, <2>2 DEF V!Fail
  <2> QED BY <2>1, <2>2
<1>2. questions' = questions \ {c} /\ mixed' = mixed /\ offline' = offline
  BY DEF V!Answer, V!Fail
<1>3. PageShape(view)
  BY DEF ConfigInv
<1>4. /\ DOMAIN view' = PageFields /\ view'.view = view.view /\ view'.service = view.service
      /\ view'.versions = view.versions /\ view'.detail = view.detail /\ view'.base = view.base
      /\ view'.other = view.other /\ view'.diff = view.diff /\ view'.left = view.left
      /\ view'.right = view.right /\ view'.listDiff = d
      /\ view'.loading = view.loading
  BY <1>1, <1>3 DEF With, PageShape, PageFields
<1>5. DiffKept(view', questions', mixed')
  BY <1>2, <1>4 DEF ConfigInv, DiffKept
<1>6. ListKept(view', questions', mixed')
  BY <1>1, <1>2, <1>4 DEF ConfigInv, ListKept, AskedFor
<1>7. LoadKept(view', questions', mixed')
  BY <1>2, <1>4 DEF ConfigInv, LoadKept, Loads, OwnLoaded, Fits
<1> QED BY <1>2, <1>3, <1>4, <1>5, <1>6, <1>7 DEF ConfigInv, PageShape

\* A load answered or refused: no other load waits.
LEMMA LoadAnswered ==
  ASSUME ConfigInv, NEW c \in questions, c.pane = "page", V!Answer(c) \/ V!Fail(c)
  PROVE  ConfigInv'
<1> DEFINE Stays(p) ==
      /\ DOMAIN p = PageFields /\ p.view = view.view
      /\ p.service = view.service /\ p.base = view.base /\ p.other = view.other
      /\ p.diff = view.diff /\ p.left = view.left /\ p.right = view.right
      /\ p.listDiff = view.listDiff
      /\ \/ p.versions = view.versions
         \/ c.service # None /\ c.version = None /\ p.versions = c.service
      /\ \/ p.detail = view.detail
         \/ c.service # None /\ c.version # None /\ p.detail = <<c.service, c.version>>
<1>1. Stays(view')
  <2>1. PageShape(view)
    BY DEF ConfigInv
  <2>2. view' \in {V!Stored(c), V!Refused(c)}
    BY DEF V!Answer, V!Fail
  <2>3. CASE view' = V!Refused(c)
    BY <2>1, <2>3 DEF V!Refused, PageShape, PageFields
  <2>4. CASE view' = V!Stored(c) /\ c.service = None
    <3>1. view' = [view EXCEPT !.listed = TRUE, !.loading = FALSE]
      BY <2>4 DEF V!Stored
    <3> QED BY <2>1, <3>1 DEF PageShape, PageFields
  <2>5. CASE view' = V!Stored(c) /\ c.service # None /\ c.version = None
    <3>1. view' = [view EXCEPT !.versions = c.service, !.loading = FALSE]
      BY <2>5 DEF V!Stored
    <3> QED BY <2>1, <2>5, <3>1 DEF PageShape, PageFields
  <2>6. CASE view' = V!Stored(c) /\ c.service # None /\ c.version # None
    <3>1. view' = [view EXCEPT !.detail = <<c.service, c.version>>, !.loading = FALSE]
      BY <2>6 DEF V!Stored
    <3> QED BY <2>1, <2>6, <3>1 DEF PageShape, PageFields
  <2> QED BY <2>2, <2>3, <2>4, <2>5, <2>6
<1>2. questions' = questions \ {c} /\ mixed' = mixed /\ offline' = offline
  BY DEF V!Answer, V!Fail
<1>3. DiffKept(view', questions', mixed') /\ ListKept(view', questions', mixed')
  BY <1>1, <1>2 DEF ConfigInv, DiffKept, ListKept
<1>4. LoadKept(view', questions', mixed')
  <2>1. SUFFICES ASSUME "page" \notin mixed PROVE LoadKept(view', questions', mixed')
    BY <1>2 DEF LoadKept
  <2>2. c \in Loads(questions) /\ Loads(questions') = Loads(questions) \ {c}
    BY <1>2 DEF Loads
  <2>3. Loads(questions') = {} /\ Fits(view, c) /\ OwnLoaded(view)
    BY <2>1, <2>2 DEF ConfigInv, LoadKept
  <2>4. OwnLoaded(view')
    BY <1>1, <2>3 DEF OwnLoaded, Fits
  <2> QED BY <1>1, <2>3, <2>4 DEF LoadKept
<1>5. PageShape(view')
  BY <1>1 DEF ConfigInv, PageShape
<1> QED BY <1>1, <1>2, <1>3, <1>4, <1>5 DEF ConfigInv

LEMMA ConfigNext == ConfigInv /\ [V!Next]_(V!vars) => ConfigInv'
<1> SUFFICES ASSUME ConfigInv, [V!Next]_(V!vars) PROVE ConfigInv'
  OBVIOUS
<1>1. CASE UNCHANGED V!vars
  BY <1>1 DEF V!vars, ConfigInv
<1>2. ASSUME NEW c \in questions, V!Answer(c) \/ V!Fail(c) PROVE ConfigInv'
  <2>1. c.pane \in {"page", "diff", "list"}
    BY DEF ConfigInv, CallShape
  <2> QED BY <1>2, <2>1, LoadAnswered, DiffAnswered, ListAnswered
<1>3. ASSUME NEW v, V!SelectVersion(v) \/ V!ChooseOther(v)
                    \/ \E side \in {"left", "right"} : V!ChooseListed(side, v)
      PROVE  ConfigInv'
  <2>1. CASE V!SelectVersion(v)
    BY <2>1, VersionChosen
  <2>2. CASE V!ChooseOther(v)
    BY <2>2, ComparedInDetail
  <2>3. CASE \E side \in {"left", "right"} : V!ChooseListed(side, v)
    BY <2>3, ComparedInList
  <2> QED BY <1>3, <2>1, <2>2, <2>3
<1>4. CASE V!ToggleCompare \/ V!CompareListed
  BY <1>4, ComparedInList
<1>5. CASE \E b \in BOOLEAN : V!OpenTab(b)
  BY <1>5, ComparedInDetail
<1>6. CASE V!Next
  BY <1>2, <1>3, <1>4, <1>5, <1>6, ServiceChosen, GoneBack, Connection, LeftAlone, Zenon
     DEF V!Next
<1> QED BY <1>1, <1>6

LEMMA ConfigAsShown == ConfigInv => V!ConfigAsSelected
<1> SUFFICES ASSUME ConfigInv PROVE V!ConfigAsSelected
  OBVIOUS
<1>1. V!LoadedAsSelected
  BY DEF ConfigInv, LoadKept, OwnLoaded, V!LoadedAsSelected
<1>2. V!ComparedAsSelected
  BY DEF ConfigInv, DiffKept, ListKept, V!ComparedAsSelected
<1> QED BY <1>1, <1>2 DEF V!ConfigAsSelected

(***************************************************************************)
(* One browser.                                                            *)
(***************************************************************************)
User == {None} \cup B!Account
Keeping(n) == [user : User, token : 0 .. n]
TabState(n) == [user : User, token : 0 .. n, checking : BOOLEAN, leaving : BOOLEAN]
Call(n) == [tab : B!Tab, kind : {"login", "me", "logout"}, account : User, with : 0 .. n,
            done : BOOLEAN, answer : 0 .. n]

BrowserType ==
  /\ owner \in Seq(B!Account) /\ cookie \in 0 .. Len(owner) /\ crossed \in BOOLEAN
  /\ stored \in [B!Portal -> Keeping(Len(owner))]
  /\ page \in [B!Tab -> TabState(Len(owner))]
  /\ calls \subseteq Call(Len(owner))
  /\ notices \subseteq CitizenTab

\* What is kept names a user if it has a token; what a portal stores some tab
\* of it shows; an officer's is always a token's.
StoredShown ==
  /\ \A t \in B!Tab : page[t].user = None => page[t].token = 0
  /\ \A p \in B!Portal : stored[p].user = None => stored[p].token = 0
  /\ \A p \in B!Portal : stored[p].user # None =>
       \E t \in B!Tab : B!PortalOf(t) = p /\ page[t].user = stored[p].user
  /\ stored["officer"].user # None => stored["officer"].token # 0

\* An answered sign-in made its session; a check answers what it carried.
Answers ==
  \A c \in calls :
    /\ c.kind = "login" => c.account \in B!Account
    /\ c.kind = "login" /\ c.done => c.answer # 0 /\ owner[c.answer] = c.account
    /\ c.kind = "me" /\ c.done => c.answer \in {0, c.with}

\* A citizen's page waits for its one check before anything else is asked.
CheckFirst ==
  /\ \A c, d \in calls : c.kind = "me" /\ d.kind = "me" /\ c.tab = d.tab => c = d
  /\ \A c \in calls : c.kind = "me" /\ c.tab \in CitizenTab =>
       page[c.tab].checking /\ \A d \in calls : d.kind = "login" => d.tab # c.tab
  /\ \A t \in CitizenTab : page[t].leaving => ~page[t].checking

OutOfReach ==
  \A t \in out :
    /\ t \in B!Tab /\ page[t].user = None
    /\ \A c \in calls : c.tab = t => c.kind # "login" /\ (t \in CitizenTab => c.kind # "me")

Emptied ==
  stored["citizen"].user = None => \A t \in CitizenTab \ notices : page[t].user = None

Checks == {c \in calls : c.kind = "me" /\ c.tab \in CitizenTab}

\* Unless accounts met, everything in the browser is one account's.
OneAccount ==
  crossed
  \/ /\ \A t \in B!Tab : page[t].token # 0 => owner[page[t].token] = page[t].user
     /\ \A p \in B!Portal : stored[p].token # 0 => owner[stored[p].token] = stored[p].user
     /\ cookie # 0 => \A t \in B!Tab : page[t].user \in {None, owner[cookie]}
     /\ \A c \in Checks : /\ cookie \in {0, c.with}
                          /\ c.with # 0 => /\ page[c.tab].user \in {None, owner[c.with]}
                                           /\ stored["citizen"].user \in {None, owner[c.with]}
     /\ \A c, d \in Checks : c.with = d.with \/ 0 \in {c.with, d.with}

BrowserInv ==
  BrowserType /\ StoredShown /\ Answers /\ CheckFirst /\ OutOfReach /\ Emptied /\ OneAccount

LEMMA Portals ==
  /\ None \notin B!Account /\ B!Portal = {"citizen", "officer"}
  /\ CitizenTab \subseteq B!Tab
  /\ \A t : B!PortalOf(t) \in B!Portal /\ (B!PortalOf(t) = "citizen" <=> t \in CitizenTab)
BY AccountsAssumption DEF B!Account, B!Portal, B!Tab, B!PortalOf

LEMMA BrowserInit == B!Init => BrowserInv
<1> SUFFICES ASSUME B!Init PROVE BrowserInv
  OBVIOUS
<1>1. /\ owner = <<>> /\ cookie = 0 /\ calls = {} /\ notices = {} /\ out = {} /\ crossed = FALSE
      /\ stored = [p \in B!Portal |-> B!Nobody] /\ page = [t \in B!Tab |-> B!Page(B!Nobody)]
  BY DEF B!Init
<1>2. /\ owner \in Seq(B!Account) /\ Len(owner) = 0
  BY <1>1
<1>3. /\ B!Nobody \in Keeping(0) /\ B!Nobody.user = None /\ B!Nobody.token = 0
      /\ B!Page(B!Nobody) \in TabState(0) /\ B!Page(B!Nobody).user = None
      /\ B!Page(B!Nobody).token = 0 /\ B!Page(B!Nobody).leaving = FALSE
  BY DEF B!Nobody, B!Page, Keeping, TabState, User
<1> HIDE DEF B!Nobody, B!Page
<1>4. BrowserType
  <2>1. stored \in [B!Portal -> Keeping(0)] /\ page \in [B!Tab -> TabState(0)]
    BY <1>1, <1>3
  <2>2. cookie \in 0 .. 0
    BY <1>1
  <2> QED BY <1>1, <1>2, <2>1, <2>2 DEF BrowserType
<1>5. StoredShown /\ CheckFirst /\ Emptied
  BY <1>1, <1>3, Portals DEF StoredShown, CheckFirst, Emptied
<1> QED BY <1>1, <1>3, <1>4, <1>5, Portals DEF BrowserInv, Answers, OutOfReach, OneAccount, Checks

LEMMA Loading == ASSUME BrowserInv, NEW t \in B!Tab, B!Load(t) PROVE BrowserInv'
<1> DEFINE p == B!PortalOf(t)
           s == stored[p]
           known == t \in CitizenTab \/ s.token # 0
           e == IF known THEN s ELSE B!Nobody
           here == t \in CitizenTab
           q == [B!Page(e) EXCEPT !.checking = here]
           k == B!Call(t, "me", None)
<1>a. /\ BrowserType /\ StoredShown /\ Answers /\ CheckFirst /\ OutOfReach /\ Emptied
      /\ OneAccount
  BY DEF BrowserInv
<1>1. /\ page' = [page EXCEPT ![t] = q] /\ calls' = {c \in calls : c.tab # t} \cup {k}
      /\ notices' = notices \ {t} /\ out' = out \ {t}
      /\ UNCHANGED <<owner, cookie, stored, crossed>>
  BY Zenon DEF B!Load
<1>2. p \in B!Portal /\ s \in Keeping(Len(owner)) /\ (p = "citizen" <=> t \in CitizenTab)
  BY <1>a, Portals DEF BrowserType
<1>3. ~known => s.user = None /\ s.token = 0
  BY <1>a, <1>2, Portals DEF StoredShown
<1>4. /\ q \in TabState(Len(owner)) /\ q.user = s.user /\ q.token = s.token
      /\ q.checking = here /\ q.leaving = FALSE
  <2> HIDE DEF s
  <2>1. s.user \in User /\ s.token \in 0 .. Len(owner)
    BY <1>2 DEF Keeping
  <2>2. e.user = s.user /\ e.token = s.token
    BY <1>3 DEF B!Nobody
  <2>3. here \in BOOLEAN
    OBVIOUS
  <2> HIDE DEF e, here
  <2> QED BY <2>1, <2>2, <2>3 DEF B!Page, TabState
<1>5. /\ k \in Call(Len(owner)) /\ k.tab = t /\ k.kind = "me" /\ k.with = cookie
      /\ k.done = FALSE
  BY <1>a DEF B!Call, Call, BrowserType, User
<1>6. page' \in [B!Tab -> TabState(Len(owner))] /\ page'[t] = q
      /\ \A x \in B!Tab : x # t => page'[x] = page[x]
  BY <1>a, <1>1, <1>4 DEF BrowserType
<1> HIDE DEF q, k, s, e, known
<1>7. BrowserType'
  BY <1>a, <1>1, <1>5, <1>6 DEF BrowserType
<1>8. StoredShown'
  <2>1. \A x \in B!Tab : page'[x].user = None => page'[x].token = 0
    BY <1>a, <1>2, <1>4, <1>6 DEF StoredShown, s
  <2>2. ASSUME NEW r \in B!Portal, stored[r].user # None
        PROVE  \E x \in B!Tab : B!PortalOf(x) = r /\ page'[x].user = stored[r].user
    <3>1. PICK x \in B!Tab : B!PortalOf(x) = r /\ page[x].user = stored[r].user
      BY <1>a, <2>2 DEF StoredShown
    <3>2. page'[x].user = stored[r].user
      BY <1>4, <1>6, <3>1 DEF s
    <3> QED BY <3>1, <3>2
  <2> QED BY <1>a, <1>1, <2>1, <2>2 DEF StoredShown
<1>9. Answers' /\ Emptied'
  <2>1. Answers'
    BY <1>a, <1>1, <1>5 DEF Answers
  <2>2. Emptied'
    BY <1>a, <1>1, <1>2, <1>4, <1>6, Portals DEF Emptied, s
  <2> QED BY <2>1, <2>2
<1>10. CheckFirst'
  <2>1. \A c \in calls' : c = k \/ (c \in calls /\ c.tab # t)
    BY <1>1
  <2>2. \A c, d \in calls' : c.kind = "me" /\ d.kind = "me" /\ c.tab = d.tab => c = d
    BY <1>a, <1>5, <2>1 DEF CheckFirst
  <2>3. ASSUME NEW c \in calls', c.kind = "me", c.tab \in CitizenTab
        PROVE  page'[c.tab].checking /\ \A d \in calls' : d.kind = "login" => d.tab # c.tab
    BY <1>a, <1>4, <1>5, <1>6, <2>1, <2>3, Portals DEF CheckFirst
  <2>4. \A x \in CitizenTab : page'[x].leaving => ~page'[x].checking
    BY <1>a, <1>4, <1>6, Portals DEF CheckFirst
  <2> QED BY <2>2, <2>3, <2>4 DEF CheckFirst
<1>11. OutOfReach'
  BY <1>a, <1>1, <1>5, <1>6 DEF OutOfReach
<1>12. OneAccount'
  <2>1. SUFFICES ASSUME ~crossed PROVE OneAccount'
    BY <1>1 DEF OneAccount
  <2>2. s.token # 0 => owner[s.token] = s.user
    BY <1>a, <1>2, <2>1 DEF OneAccount, s
  <2>3. ASSUME cookie # 0 PROVE s.user \in {None, owner[cookie]}
    BY <1>a, <1>2, <2>1, <2>3 DEF OneAccount, StoredShown, s
  <2>4. \A c \in Checks' : (c \in Checks /\ c.tab # t) \/ (c = k /\ t \in CitizenTab)
    BY <1>1, <1>5 DEF Checks
  <2>5. ASSUME NEW c \in Checks'
        PROVE  /\ cookie \in {0, c.with}
               /\ c.with # 0 => /\ page'[c.tab].user \in {None, owner[c.with]}
                                /\ stored["citizen"].user \in {None, owner[c.with]}
    <3>1. CASE c \in Checks /\ c.tab # t
      <4>1. c.tab \in B!Tab
        BY <3>1, Portals DEF Checks
      <4> QED BY <1>a, <1>6, <2>1, <3>1, <4>1 DEF OneAccount
    <3>2. CASE c = k /\ t \in CitizenTab
      BY <1>2, <1>4, <1>5, <1>6, <2>3, <3>2 DEF s
    <3> QED BY <2>4, <2>5, <3>1, <3>2
  <2>6. \A c, d \in Checks' : c.with = d.with \/ 0 \in {c.with, d.with}
    BY <1>a, <1>5, <2>1, <2>4 DEF OneAccount
  <2>7. \A x \in B!Tab : page'[x].token # 0 => owner[page'[x].token] = page'[x].user
    BY <1>a, <1>4, <1>6, <2>1, <2>2 DEF OneAccount
  <2>8. cookie # 0 => \A x \in B!Tab : page'[x].user \in {None, owner[cookie]}
    BY <1>a, <1>4, <1>6, <2>1, <2>3 DEF OneAccount
  <2>9. \A r \in B!Portal : stored[r].token # 0 => owner[stored[r].token] = stored[r].user
    BY <1>a, <2>1 DEF OneAccount
  <2> QED BY <1>1, <2>5, <2>6, <2>7, <2>8, <2>9 DEF OneAccount
<1> QED BY <1>7, <1>8, <1>9, <1>10, <1>11, <1>12 DEF BrowserInv

\* What a change of one tab is, for the others and for itself.
TabBecomes(t, q) ==
  /\ q \in TabState(Len(owner)) /\ page' = [page EXCEPT ![t] = q]
  /\ page' \in [B!Tab -> TabState(Len(owner))] /\ page'[t] = q
  /\ \A x \in B!Tab : x # t => page'[x] = page[x]

LEMMA TabAlone ==
  ASSUME BrowserType, NEW t \in B!Tab, NEW q \in TabState(Len(owner)),
         page' = [page EXCEPT ![t] = q]
  PROVE  TabBecomes(t, q)
BY DEF BrowserType, TabBecomes

LEMMA SigningIn ==
  ASSUME BrowserInv, NEW t \in B!Tab, NEW a \in B!Account, B!SignIn(t, a)
  PROVE  BrowserInv'
<1> DEFINE k == B!Call(t, "login", a)
<1>a. /\ BrowserType /\ StoredShown /\ Answers /\ CheckFirst /\ OutOfReach /\ Emptied
      /\ OneAccount
  BY DEF BrowserInv
<1>1. /\ ~page[t].checking /\ calls' = calls \cup {k} /\ out' = out \ {t}
      /\ UNCHANGED <<owner, cookie, stored, page, notices, crossed>>
  BY DEF B!SignIn
<1>2. /\ k \in Call(Len(owner)) /\ k.tab = t /\ k.kind = "login" /\ k.account = a
      /\ k.done = FALSE
  BY <1>a DEF B!Call, Call, BrowserType, User
<1> HIDE DEF k
<1>3. BrowserType' /\ StoredShown' /\ Emptied'
  BY <1>a, <1>1, <1>2 DEF BrowserType, StoredShown, Emptied
<1>4. Answers' /\ OutOfReach'
  BY <1>a, <1>1, <1>2 DEF Answers, OutOfReach
<1>5. CheckFirst'
  BY <1>a, <1>1, <1>2 DEF CheckFirst
<1>6. Checks' = Checks
  BY <1>1, <1>2 DEF Checks
<1>7. OneAccount'
  BY <1>a, <1>1, <1>6 DEF OneAccount
<1> QED BY <1>3, <1>4, <1>5, <1>7 DEF BrowserInv

\* A tab that goes on as it was, but for the flags of waiting and leaving.
LEMMA FlagChanges ==
  ASSUME BrowserInv, NEW t \in B!Tab, NEW q, TabBecomes(t, q),
         q.user = page[t].user, q.token = page[t].token, calls' \subseteq calls,
         t \in CitizenTab => /\ q.leaving => ~q.checking
                             /\ \A c \in calls' : c.kind = "me" /\ c.tab = t => q.checking,
         UNCHANGED <<owner, cookie, stored, notices, out, crossed>>
  PROVE  BrowserInv'
<1>a. /\ BrowserType /\ StoredShown /\ Answers /\ CheckFirst /\ OutOfReach /\ Emptied
      /\ OneAccount
  BY DEF BrowserInv
<1>1. /\ page' \in [B!Tab -> TabState(Len(owner))]
      /\ \A x \in B!Tab : page'[x].user = page[x].user /\ page'[x].token = page[x].token
      /\ \A x \in B!Tab : x # t => page'[x] = page[x]
      /\ page'[t] = q
  BY DEF TabBecomes
<1>2. BrowserType' /\ Answers'
  BY <1>a, <1>1 DEF BrowserType, Answers
<1>3. StoredShown'
  BY <1>a, <1>1 DEF StoredShown
<1>4. OutOfReach' /\ Emptied'
  BY <1>a, <1>1, Portals DEF OutOfReach, Emptied
<1>5. CheckFirst'
  BY <1>a, <1>1, Portals DEF CheckFirst
<1>6. Checks' \subseteq Checks
  BY DEF Checks
<1>7. OneAccount'
  BY <1>a, <1>1, <1>6, Portals DEF OneAccount, Checks
<1> QED BY <1>2, <1>3, <1>4, <1>5, <1>7 DEF BrowserInv

LEMMA SigningOut == ASSUME BrowserInv, NEW t \in B!Tab, B!SignOut(t) PROVE BrowserInv'
<1> DEFINE q == [page[t] EXCEPT !.leaving = TRUE]
<1>1. /\ ~page[t].checking /\ page' = [page EXCEPT ![t] = q] /\ t \in CitizenTab
      /\ UNCHANGED <<owner, cookie, stored, calls, notices, out, crossed>>
  BY DEF B!SignOut, B!Shown
<1>2. page[t] \in TabState(Len(owner)) /\ BrowserType
  BY DEF BrowserInv, BrowserType
<1>3. /\ q \in TabState(Len(owner)) /\ q.user = page[t].user /\ q.token = page[t].token
      /\ q.checking = page[t].checking
  BY <1>2 DEF TabState
<1> HIDE DEF q
<1>4. TabBecomes(t, q)
  BY <1>1, <1>2, <1>3, TabAlone
<1>5. \A c \in calls : c.kind = "me" /\ c.tab = t => q.checking
  BY <1>1, <1>3 DEF BrowserInv, CheckFirst
<1> QED BY <1>1, <1>3, <1>4, <1>5, FlagChanges

LEMMA Losing == ASSUME BrowserInv, NEW c \in calls, B!Lose(c) PROVE BrowserInv'
<1> DEFINE t == c.tab
           q == IF c.kind = "me" THEN [page[t] EXCEPT !.checking = FALSE] ELSE page[t]
<1>1. BrowserType /\ CheckFirst
  BY DEF BrowserInv
<1>2. c \in Call(Len(owner))
  BY <1>1 DEF BrowserType
<1>3. t \in B!Tab /\ page[t] \in TabState(Len(owner))
  BY <1>1, <1>2 DEF Call, BrowserType
<1>4. /\ page' = [page EXCEPT ![t] = q] /\ calls' = calls \ {c}
      /\ UNCHANGED <<owner, cookie, stored, notices, out, crossed>>
  <2>1. page = [page EXCEPT ![t] = page[t]]
    BY <1>1 DEF BrowserType
  <2> QED BY <2>1 DEF B!Lose
<1>5. /\ q \in TabState(Len(owner)) /\ q.user = page[t].user /\ q.token = page[t].token
      /\ q.checking = (page[t].checking /\ c.kind # "me") /\ q.leaving = page[t].leaving
  BY <1>3 DEF TabState
<1> HIDE DEF q
<1>6. TabBecomes(t, q)
  BY <1>1, <1>3, <1>4, <1>5, TabAlone
<1>7. t \in CitizenTab => /\ q.leaving => ~q.checking
                          /\ \A d \in calls' : d.kind = "me" /\ d.tab = t => q.checking
  BY <1>1, <1>4, <1>5 DEF CheckFirst
<1> QED BY <1>3, <1>4, <1>5, <1>6, <1>7, FlagChanges

LEMMA LogoutAnswered ==
  ASSUME BrowserInv, NEW c \in calls, B!AnswerLogout(c)
  PROVE  BrowserInv'
<1>1. /\ cookie' \in {0, cookie} /\ calls' = calls \ {c}
      /\ UNCHANGED <<owner, stored, page, notices, out, crossed>>
  BY DEF B!AnswerLogout, B!Answered
<1>2. /\ BrowserType /\ StoredShown /\ Answers /\ CheckFirst /\ OutOfReach /\ Emptied
      /\ OneAccount
  BY DEF BrowserInv
<1>3. Len(owner) \in Nat
  BY <1>2 DEF BrowserType
<1>4. BrowserType'
  BY <1>1, <1>2, <1>3 DEF BrowserType
<1>5. Checks' \subseteq Checks
  BY <1>1 DEF Checks
<1>6. OneAccount'
  BY <1>1, <1>2, <1>5 DEF OneAccount
<1>7. StoredShown' /\ Emptied' /\ Answers' /\ OutOfReach'
  BY <1>1, <1>2 DEF StoredShown, Emptied, Answers, OutOfReach
<1>8. CheckFirst'
  BY <1>1, <1>2 DEF CheckFirst
<1> QED BY <1>4, <1>6, <1>7, <1>8 DEF BrowserInv

\* A tab empties itself and what its portal keeps.
LEMMA Emptying ==
  ASSUME BrowserInv, NEW t \in B!Tab, NEW q, TabBecomes(t, q), q.user = None, q.token = 0,
         stored' = [stored EXCEPT ![B!PortalOf(t)] = B!Nobody], B!Tell(t, B!PortalOf(t)),
         \A c \in calls' : \/ c \in calls
                           \/ c \in Call(Len(owner)) /\ c.kind = "logout",
         t \in CitizenTab => /\ q.leaving => ~q.checking
                             /\ \A c \in calls' : c.tab = t => c.kind # "me",
         out' \subseteq out \cup {t},
         t \in out' => \A c \in calls' : c.tab = t => c.kind # "login",
         UNCHANGED <<owner, cookie, crossed>>
  PROVE  BrowserInv'
<1> DEFINE p == B!PortalOf(t)
<1>a. /\ BrowserType /\ StoredShown /\ Answers /\ CheckFirst /\ OutOfReach /\ Emptied
      /\ OneAccount
  BY DEF BrowserInv
<1>1. /\ page' \in [B!Tab -> TabState(Len(owner))] /\ page'[t] = q
      /\ \A x \in B!Tab : x # t => page'[x] = page[x]
  BY DEF TabBecomes
<1>2. p \in B!Portal /\ (p = "citizen" <=> t \in CitizenTab)
  BY Portals
<1>3. Len(owner) \in Nat /\ B!Nobody \in Keeping(Len(owner))
  <2>1. Len(owner) \in Nat
    BY <1>a DEF BrowserType
  <2> QED BY <2>1 DEF B!Nobody, Keeping, User
<1>4. B!Nobody.user = None /\ B!Nobody.token = 0
  BY DEF B!Nobody
<1> HIDE DEF B!Nobody, p
<1>5. /\ stored' \in [B!Portal -> Keeping(Len(owner))] /\ stored'[p] = B!Nobody
      /\ \A r \in B!Portal : r # p => stored'[r] = stored[r]
  BY <1>a, <1>2, <1>3 DEF BrowserType, p
<1>6. notices' = IF p = "citizen" THEN notices \cup (CitizenTab \ {t}) ELSE notices
  BY DEF B!Tell, p
<1>7. BrowserType'
  BY <1>a, <1>1, <1>5, <1>6 DEF BrowserType
<1>8. StoredShown'
  <2>1. \A x \in B!Tab : page'[x].user = None => page'[x].token = 0
    BY <1>a, <1>1 DEF StoredShown
  <2>2. \A r \in B!Portal : stored'[r].user = None => stored'[r].token = 0
    BY <1>a, <1>4, <1>5 DEF StoredShown
  <2>3. ASSUME NEW r \in B!Portal, stored'[r].user # None
        PROVE  \E x \in B!Tab : B!PortalOf(x) = r /\ page'[x].user = stored'[r].user
    <3>1. r # p /\ stored'[r] = stored[r]
      BY <1>4, <1>5, <2>3
    <3>2. PICK x \in B!Tab : B!PortalOf(x) = r /\ page[x].user = stored[r].user
      BY <1>a, <2>3, <3>1 DEF StoredShown
    <3> QED BY <1>1, <3>1, <3>2 DEF p
  <2>4. stored'["officer"].user # None => stored'["officer"].token # 0
    BY <1>a, <1>4, <1>5, Portals DEF StoredShown
  <2> QED BY <2>1, <2>2, <2>3, <2>4 DEF StoredShown
<1>9. Answers'
  BY <1>a DEF Answers
<1>10. CheckFirst'
  <2>1. \A c \in calls' : c.kind # "logout" => c \in calls
    OBVIOUS
  <2>2. \A c, d \in calls' : c.kind = "me" /\ d.kind = "me" /\ c.tab = d.tab => c = d
    BY <1>a, <2>1 DEF CheckFirst
  <2>3. ASSUME NEW c \in calls', c.kind = "me", c.tab \in CitizenTab
        PROVE  page'[c.tab].checking /\ \A d \in calls' : d.kind = "login" => d.tab # c.tab
    BY <1>a, <1>1, <2>1, <2>3, Portals DEF CheckFirst
  <2>4. \A x \in CitizenTab : page'[x].leaving => ~page'[x].checking
    BY <1>a, <1>1, Portals DEF CheckFirst
  <2> QED BY <2>2, <2>3, <2>4 DEF CheckFirst
<1>11. OutOfReach'
  BY <1>a, <1>1 DEF OutOfReach
<1>12. Emptied'
  BY <1>a, <1>1, <1>2, <1>5, <1>6, Portals DEF Emptied
<1>13. OneAccount'
  <2>1. SUFFICES ASSUME ~crossed PROVE OneAccount'
    BY DEF OneAccount
  <2>2. \A c \in Checks' : c \in Checks /\ c.tab \in B!Tab
    BY Portals DEF Checks
  <2>3. \A x \in B!Tab : page'[x].token # 0 => owner[page'[x].token] = page'[x].user
    BY <1>a, <1>1, <2>1 DEF OneAccount
  <2>4. \A r \in B!Portal : stored'[r].token # 0 => owner[stored'[r].token] = stored'[r].user
    BY <1>a, <1>4, <1>5, <2>1 DEF OneAccount
  <2>5. cookie # 0 => \A x \in B!Tab : page'[x].user \in {None, owner[cookie]}
    BY <1>a, <1>1, <2>1 DEF OneAccount
  <2>6. stored'["citizen"].user \in {None, stored["citizen"].user}
    BY <1>4, <1>5, Portals
  <2>7. \A c \in Checks' :
          /\ cookie \in {0, c.with}
          /\ c.with # 0 => /\ page'[c.tab].user \in {None, owner[c.with]}
                           /\ stored'["citizen"].user \in {None, owner[c.with]}
    BY <1>a, <1>1, <2>1, <2>2, <2>6 DEF OneAccount
  <2>8. \A c, d \in Checks' : c.with = d.with \/ 0 \in {c.with, d.with}
    BY <1>a, <2>1, <2>2 DEF OneAccount
  <2> QED BY <2>3, <2>4, <2>5, <2>7, <2>8 DEF OneAccount
<1> QED BY <1>7, <1>8, <1>9, <1>10, <1>11, <1>12, <1>13 DEF BrowserInv

\* A page that shows nobody, and waits or does not.
Blank(b) == [B!Page(B!Nobody) EXCEPT !.checking = b]

LEMMA BlankPage ==
  ASSUME BrowserType, NEW b \in BOOLEAN
  PROVE  /\ Blank(b) \in TabState(Len(owner)) /\ Blank(b).user = None /\ Blank(b).token = 0
         /\ Blank(b).checking = b /\ Blank(b).leaving = FALSE
<1>1. B!Nobody.user = None /\ B!Nobody.token = 0
  BY DEF B!Nobody
<1>2. None \in User /\ 0 \in 0 .. Len(owner)
  BY DEF User, BrowserType
<1> HIDE DEF B!Nobody
<1> QED BY <1>1, <1>2 DEF Blank, B!Page, TabState

LEMMA Leaving == ASSUME BrowserInv, NEW t \in B!Tab, B!Leave(t) PROVE BrowserInv'
<1> DEFINE q == Blank(page[t].checking)
           k == B!Call(t, "logout", None)
<1>a. BrowserType /\ CheckFirst /\ OutOfReach
  BY DEF BrowserInv
<1>1. /\ page' = [page EXCEPT ![t] = q] /\ calls' = calls \cup {k} /\ out' = out \cup {t}
      /\ ~B!Busy(t) /\ (t \in CitizenTab => page[t].leaving)
      /\ stored' = [stored EXCEPT ![B!PortalOf(t)] = B!Nobody] /\ B!Tell(t, B!PortalOf(t))
      /\ UNCHANGED <<owner, cookie, crossed>>
  BY DEF B!Leave, Blank
<1>2. page[t].checking \in BOOLEAN /\ Len(owner) \in Nat
  BY <1>a DEF BrowserType, TabState
<1>3. /\ q \in TabState(Len(owner)) /\ q.user = None /\ q.token = 0
      /\ q.checking = page[t].checking /\ q.leaving = FALSE
  BY <1>a, <1>2, BlankPage
<1>4. k \in Call(Len(owner)) /\ k.tab = t /\ k.kind = "logout"
  BY <1>a DEF B!Call, Call, BrowserType, User
<1> HIDE DEF q, k
<1>5. TabBecomes(t, q)
  BY <1>a, <1>1, <1>3, TabAlone
<1>6. \A c \in calls' : c \in calls \/ (c \in Call(Len(owner)) /\ c.kind = "logout")
  BY <1>1, <1>4
<1>7. \A c \in calls' : c.tab = t => c.kind # "login" /\ (t \in CitizenTab => c.kind # "me")
  BY <1>a, <1>1, <1>4 DEF CheckFirst, B!Busy
<1> QED BY <1>1, <1>3, <1>5, <1>6, <1>7, Emptying

LEMMA Hearing == ASSUME BrowserInv, NEW t \in B!Tab, B!Hear(t) PROVE BrowserInv'
<1> DEFINE q == B!Heard(page[t])
<1>a. /\ BrowserType /\ StoredShown /\ Answers /\ CheckFirst /\ OutOfReach /\ Emptied
      /\ OneAccount
  BY DEF BrowserInv
<1>1. /\ t \in notices /\ notices' = notices \ {t} /\ page' = [page EXCEPT ![t] = q]
      /\ UNCHANGED <<owner, cookie, stored, calls, out, crossed>>
  BY DEF B!Hear
<1>2. t \in CitizenTab /\ page[t] \in TabState(Len(owner)) /\ Len(owner) \in Nat
  BY <1>a, <1>1 DEF BrowserType
<1>3. /\ q \in TabState(Len(owner)) /\ q.checking = page[t].checking
      /\ q.leaving => page[t].leaving
      /\ \/ q.user = None /\ q.token = 0
         \/ q.user = page[t].user /\ q.token = page[t].token
      /\ IF stored["citizen"].user = None THEN q.user = None ELSE q.user = page[t].user
  <2>1. page[t].checking \in BOOLEAN
    BY <1>2 DEF TabState
  <2>2. q = IF stored["citizen"].user = None THEN Blank(page[t].checking) ELSE page[t]
    BY DEF B!Heard, Blank
  <2> HIDE DEF q
  <2>3. CASE stored["citizen"].user = None
    BY <1>a, <2>1, <2>2, <2>3, BlankPage
  <2>4. CASE stored["citizen"].user # None
    BY <1>2, <2>2, <2>4
  <2> QED BY <2>3, <2>4
<1> HIDE DEF q
<1>4. /\ page' \in [B!Tab -> TabState(Len(owner))] /\ page'[t] = q
      /\ \A x \in B!Tab : x # t => page'[x] = page[x]
  BY <1>a, <1>1, <1>3, TabAlone DEF TabBecomes
<1>5. BrowserType' /\ Answers'
  BY <1>a, <1>1, <1>4 DEF BrowserType, Answers
<1>6. StoredShown'
  <2>1. \A x \in B!Tab : page'[x].user = None => page'[x].token = 0
    BY <1>a, <1>3, <1>4 DEF StoredShown
  <2>2. ASSUME NEW r \in B!Portal, stored[r].user # None
        PROVE  \E x \in B!Tab : B!PortalOf(x) = r /\ page'[x].user = stored[r].user
    <3>1. PICK x \in B!Tab : B!PortalOf(x) = r /\ page[x].user = stored[r].user
      BY <1>a, <2>2 DEF StoredShown
    <3>2. x = t => r = "citizen"
      BY <1>2, <3>1, Portals
    <3> QED BY <1>3, <1>4, <2>2, <3>1, <3>2
  <2> QED BY <1>a, <1>1, <2>1, <2>2 DEF StoredShown
<1>7. CheckFirst' /\ OutOfReach'
  <2>1. CheckFirst'
    BY <1>a, <1>1, <1>3, <1>4, Portals DEF CheckFirst
  <2>2. OutOfReach'
    BY <1>a, <1>1, <1>3, <1>4 DEF OutOfReach
  <2> QED BY <2>1, <2>2
<1>8. Emptied'
  BY <1>a, <1>1, <1>3, <1>4, Portals DEF Emptied
<1>9. OneAccount'
  <2>1. Checks' = Checks /\ \A c \in Checks : c.tab \in B!Tab
    BY <1>1, Portals DEF Checks
  <2>2. SUFFICES ASSUME ~crossed PROVE OneAccount'
    BY <1>1 DEF OneAccount
  <2>3. \A x \in B!Tab : page'[x].token # 0 => owner[page'[x].token] = page'[x].user
    BY <1>a, <1>3, <1>4, <2>2 DEF OneAccount
  <2>4. \A x \in B!Tab : page'[x].user \in {None, page[x].user}
    BY <1>3, <1>4
  <2> QED BY <1>a, <1>1, <2>1, <2>2, <2>3, <2>4 DEF OneAccount
<1> QED BY <1>5, <1>6, <1>7, <1>8, <1>9 DEF BrowserInv

\* The server answers d in the place of c, and may begin a session.
LEMMA Serving == ASSUME BrowserInv, NEW c \in calls, B!Serve(c) PROVE BrowserInv'
<1>a. /\ BrowserType /\ StoredShown /\ Answers /\ CheckFirst /\ OutOfReach /\ Emptied
      /\ OneAccount
  BY DEF BrowserInv
<1>b. /\ Len(owner) \in Nat /\ c \in Call(Len(owner)) /\ owner \in Seq(B!Account)
      /\ c.kind = "login" => c.account \in B!Account
  BY <1>a DEF BrowserType, Answers
<1>1. PICK n \in Nat :
        /\ B!Served(c, n)
        /\ \/ c.kind = "login" /\ owner' = Append(owner, c.account) /\ n = Len(owner) + 1
           \/ c.kind # "login" /\ owner' = owner /\ n \in {0, c.with}
  <2>1. c.with \in Nat
    BY <1>b DEF Call
  <2>2. c.kind \in {"login", "me", "logout"}
    BY <1>b DEF Call
  <2> QED BY <1>b, <2>1, <2>2 DEF B!Serve
<1> DEFINE d == [c EXCEPT !.done = TRUE, !.answer = n]
<1>2. UNCHANGED <<cookie, stored, page, notices, out, crossed>>
  BY DEF B!Serve
<1>3. /\ owner' \in Seq(B!Account) /\ Len(owner') \in Nat /\ Len(owner) <= Len(owner')
      /\ \A s \in 0 .. Len(owner) : s # 0 => owner'[s] = owner[s]
      /\ n \in 0 .. Len(owner')
      /\ c.kind = "login" => n # 0 /\ owner'[n] = c.account
  <2>1. CASE c.kind = "login" /\ owner' = Append(owner, c.account) /\ n = Len(owner) + 1
    BY <1>b, <2>1
  <2>2. CASE c.kind # "login" /\ owner' = owner /\ n \in {0, c.with}
    BY <1>b, <2>2 DEF Call
  <2> QED BY <1>1, <2>1, <2>2
<1>4. \A s : s \in 0 .. Len(owner) => s \in 0 .. Len(owner')
  BY <1>b, <1>3
<1>5. /\ d \in Call(Len(owner')) /\ d.tab = c.tab /\ d.kind = c.kind /\ d.account = c.account
      /\ d.with = c.with /\ d.answer = n
  BY <1>b, <1>3, <1>4 DEF Call
<1> HIDE DEF d
<1>6. calls' = (calls \ {c}) \cup {d}
  BY <1>1 DEF d, B!Served
<1>7. BrowserType'
  <2>1. Keeping(Len(owner)) \subseteq Keeping(Len(owner'))
        /\ TabState(Len(owner)) \subseteq TabState(Len(owner'))
        /\ Call(Len(owner)) \subseteq Call(Len(owner'))
    BY <1>4 DEF Keeping, TabState, Call
  <2> HIDE DEF Keeping, TabState, Call
  <2>2. stored \in [B!Portal -> Keeping(Len(owner'))] /\ page \in [B!Tab -> TabState(Len(owner'))]
    BY <1>a, <2>1 DEF BrowserType
  <2>3. calls' \subseteq Call(Len(owner')) /\ cookie \in 0 .. Len(owner')
    BY <1>a, <1>4, <1>5, <1>6, <2>1 DEF BrowserType
  <2> QED BY <1>a, <1>2, <1>3, <2>2, <2>3 DEF BrowserType
<1>8. StoredShown' /\ Emptied'
  BY <1>a, <1>2 DEF StoredShown, Emptied
<1>9. Answers'
  <2>1. ASSUME NEW e \in calls, e \in Call(Len(owner))
        PROVE  /\ e.kind = "login" => e.account \in B!Account
               /\ e.kind = "login" /\ e.done => e.answer # 0 /\ owner'[e.answer] = e.account
               /\ e.kind = "me" /\ e.done => e.answer \in {0, e.with}
    <3>1. e.answer \in 0 .. Len(owner)
      BY <2>1 DEF Call
    <3> QED BY <1>a, <1>3, <3>1 DEF Answers
  <2>2. /\ d.kind = "login" => d.account \in B!Account
        /\ d.kind = "login" => d.answer # 0 /\ owner'[d.answer] = d.account
        /\ d.kind = "me" => d.answer \in {0, d.with}
    BY <1>b, <1>1, <1>3, <1>5
  <2>3. \A e \in calls : e \in Call(Len(owner))
    BY <1>a DEF BrowserType
  <2> QED BY <1>6, <2>1, <2>2, <2>3 DEF Answers
<1>10. \A e \in calls' : \E f \in calls : /\ e.tab = f.tab /\ e.kind = f.kind /\ e.with = f.with
                                          /\ (e = f /\ f # c) \/ (e = d /\ f = c)
  BY <1>5, <1>6
<1>11. CheckFirst'
  <2>1. ASSUME NEW e \in calls', NEW f \in calls', e.kind = "me", f.kind = "me", e.tab = f.tab
        PROVE  e = f
    BY <1>a, <1>10, <2>1 DEF CheckFirst
  <2>2. ASSUME NEW e \in calls', e.kind = "me", e.tab \in CitizenTab
        PROVE  page[e.tab].checking /\ \A f \in calls' : f.kind = "login" => f.tab # e.tab
    BY <1>a, <1>10, <2>2 DEF CheckFirst
  <2>3. \A x \in CitizenTab : page[x].leaving => ~page[x].checking
    BY <1>a DEF CheckFirst
  <2> QED BY <1>2, <2>1, <2>2, <2>3 DEF CheckFirst
<1>12. OutOfReach'
  BY <1>a, <1>2, <1>10 DEF OutOfReach
<1>13. OneAccount'
  <2>1. SUFFICES ASSUME ~crossed PROVE OneAccount'
    BY <1>2 DEF OneAccount
  <2>2. /\ \A x \in B!Tab : page[x].token \in 0 .. Len(owner)
        /\ \A r \in B!Portal : stored[r].token \in 0 .. Len(owner)
        /\ cookie \in 0 .. Len(owner)
    BY <1>a DEF BrowserType, TabState, Keeping
  <2>3. \A e \in Checks' : \E f \in Checks : e.tab = f.tab /\ e.with = f.with
    BY <1>10 DEF Checks
  <2>4. \A f \in Checks : f.with \in 0 .. Len(owner)
    BY <1>a DEF Checks, BrowserType, Call
  <2>5. \A x \in B!Tab : page[x].token # 0 => owner'[page[x].token] = page[x].user
    BY <1>a, <1>3, <2>1, <2>2 DEF OneAccount
  <2>6. \A r \in B!Portal : stored[r].token # 0 => owner'[stored[r].token] = stored[r].user
    BY <1>a, <1>3, <2>1, <2>2 DEF OneAccount
  <2>7. cookie # 0 => \A x \in B!Tab : page[x].user \in {None, owner'[cookie]}
    BY <1>a, <1>3, <2>1, <2>2 DEF OneAccount
  <2>8. \A f \in Checks :
          /\ cookie \in {0, f.with}
          /\ f.with # 0 => /\ page[f.tab].user \in {None, owner'[f.with]}
                           /\ stored["citizen"].user \in {None, owner'[f.with]}
    BY <1>a, <1>3, <2>1, <2>4 DEF OneAccount
  <2>9. \A e \in Checks' :
          /\ cookie \in {0, e.with}
          /\ e.with # 0 => /\ page[e.tab].user \in {None, owner'[e.with]}
                           /\ stored["citizen"].user \in {None, owner'[e.with]}
    BY <2>3, <2>8
  <2>10. \A e, f \in Checks' : e.with = f.with \/ 0 \in {e.with, f.with}
    BY <1>a, <2>1, <2>3 DEF OneAccount
  <2> QED BY <1>2, <2>5, <2>6, <2>7, <2>9, <2>10 DEF OneAccount
<1> QED BY <1>7, <1>8, <1>9, <1>11, <1>12, <1>13 DEF BrowserInv

LEMMA SignInAnswered ==
  ASSUME BrowserInv, NEW c \in calls, B!AnswerLogin(c)
  PROVE  BrowserInv'
<1> DEFINE t == c.tab
           p == B!PortalOf(t)
           a == c.account
           s == [user |-> a, token |-> c.answer]
           q == B!Page(s)
<1>a. /\ BrowserType /\ StoredShown /\ Answers /\ CheckFirst /\ OutOfReach /\ Emptied
      /\ OneAccount
  BY DEF BrowserInv
<1>1. /\ c.kind = "login" /\ c.done /\ calls' = calls \ {c} /\ cookie' = c.answer
      /\ crossed' = (crossed \/ B!Meets(c, a)) /\ UNCHANGED <<owner, out>>
  BY DEF B!AnswerLogin, B!Answered
<1>2. /\ c \in Call(Len(owner)) /\ a \in B!Account /\ c.answer # 0 /\ owner[c.answer] = a
      /\ t \in B!Tab /\ c.answer \in 0 .. Len(owner)
  BY <1>a, <1>1 DEF BrowserType, Answers, Call
<1>3. crossed' \in BOOLEAN
  BY <1>1, <1>a DEF BrowserType
<1>4. Answers'
  BY <1>a, <1>1 DEF Answers
<1>5. CASE ~B!MayEnter(a, t)
  <2>1. crossed' /\ UNCHANGED <<page, stored, notices>>
    BY <1>1, <1>5 DEF B!AnswerLogin, B!Meets
  <2>2. BrowserType' /\ StoredShown' /\ Emptied'
    BY <1>a, <1>1, <1>2, <1>3, <2>1 DEF BrowserType, StoredShown, Emptied
  <2>3. CheckFirst' /\ OutOfReach'
    BY <1>a, <1>1, <2>1 DEF CheckFirst, OutOfReach
  <2> QED BY <1>4, <2>1, <2>2, <2>3 DEF BrowserInv, OneAccount
<1>6. CASE B!MayEnter(a, t)
  <2>1. /\ page' = [page EXCEPT ![t] = q] /\ stored' = [stored EXCEPT ![p] = s]
        /\ notices' = IF p = "citizen" THEN notices \cup (CitizenTab \ {t}) ELSE notices
    BY <1>6 DEF B!AnswerLogin, B!Tell
  <2>2. s \in Keeping(Len(owner)) /\ s.user = a /\ s.token = c.answer
    BY <1>2 DEF Keeping, User
  <2> HIDE DEF s
  <2>3. /\ q \in TabState(Len(owner)) /\ q.user = a /\ q.token = c.answer
        /\ q.checking = FALSE /\ q.leaving = FALSE
    BY <2>2 DEF B!Page, TabState, Keeping
  <2> HIDE DEF q
  <2>4. p \in B!Portal /\ (p = "citizen" <=> t \in CitizenTab) /\ a # None
    BY <1>2, Portals
  <2>5. /\ page' \in [B!Tab -> TabState(Len(owner))] /\ page'[t] = q
        /\ \A x \in B!Tab : x # t => page'[x] = page[x]
    BY <1>a, <1>2, <2>1, <2>3, TabAlone DEF TabBecomes
  <2> HIDE DEF p
  <2>6. /\ stored' \in [B!Portal -> Keeping(Len(owner))] /\ stored'[p] = s
        /\ \A r \in B!Portal : r # p => stored'[r] = stored[r]
    BY <1>a, <2>1, <2>2, <2>4 DEF BrowserType
  <2>7. BrowserType'
    BY <1>a, <1>1, <1>2, <1>3, <2>1, <2>5, <2>6 DEF BrowserType
  <2>8. StoredShown'
    <3>1. \A x \in B!Tab : page'[x].user = None => page'[x].token = 0
      BY <1>a, <2>3, <2>4, <2>5 DEF StoredShown
    <3>2. \A r \in B!Portal : stored'[r].user = None => stored'[r].token = 0
      BY <1>a, <2>2, <2>4, <2>6 DEF StoredShown
    <3>3. ASSUME NEW r \in B!Portal, stored'[r].user # None
          PROVE  \E x \in B!Tab : B!PortalOf(x) = r /\ page'[x].user = stored'[r].user
      <4>1. CASE r = p
        BY <1>2, <2>2, <2>3, <2>5, <2>6, <4>1 DEF p
      <4>2. CASE r # p
        <5>1. PICK x \in B!Tab : B!PortalOf(x) = r /\ page[x].user = stored[r].user
          BY <1>a, <2>6, <3>3, <4>2 DEF StoredShown
        <5>2. x # t /\ stored'[r] = stored[r]
          BY <2>6, <4>2, <5>1 DEF p
        <5> QED BY <2>5, <5>1, <5>2
      <4> QED BY <4>1, <4>2
    <3>4. stored'["officer"].user # None => stored'["officer"].token # 0
      BY <1>a, <1>2, <2>2, <2>6, Portals DEF StoredShown
    <3> QED BY <3>1, <3>2, <3>3, <3>4 DEF StoredShown
  <2>9. \A d \in calls : d.kind = "me" /\ d.tab \in CitizenTab => d.tab # t
    BY <1>a, <1>1 DEF CheckFirst
  <2>10. CheckFirst'
    <3>1. \A d, e \in calls' : d.kind = "me" /\ e.kind = "me" /\ d.tab = e.tab => d = e
      BY <1>a, <1>1 DEF CheckFirst
    <3>2. ASSUME NEW d \in calls', d.kind = "me", d.tab \in CitizenTab
          PROVE  page'[d.tab].checking /\ \A e \in calls' : e.kind = "login" => e.tab # d.tab
      BY <1>a, <1>1, <2>5, <2>9, <3>2, Portals DEF CheckFirst
    <3>3. \A x \in CitizenTab : page'[x].leaving => ~page'[x].checking
      BY <1>a, <2>3, <2>5, Portals DEF CheckFirst
    <3> QED BY <3>1, <3>2, <3>3 DEF CheckFirst
  <2>11. OutOfReach'
    <3>1. t \notin out
      BY <1>a, <1>1 DEF OutOfReach
    <3> QED BY <1>a, <1>1, <2>5, <3>1 DEF OutOfReach
  <2>12. Emptied'
    <3>1. CASE p = "citizen"
      BY <2>2, <2>4, <2>6, <3>1 DEF Emptied
    <3>2. CASE p # "citizen"
      BY <1>a, <2>1, <2>4, <2>5, <2>6, <3>2, Portals DEF Emptied
    <3> QED BY <3>1, <3>2
  <2>13. OneAccount'
    <3>1. SUFFICES ASSUME ~crossed, ~B!Meets(c, a) PROVE OneAccount'
      BY <1>1 DEF OneAccount
    <3>2. \A x \in B!Tab \ {t} : /\ page[x].user \in {None, a}
                                 /\ \A d \in calls : d.tab = x => d.kind # "me"
      BY <3>1 DEF B!Meets
    <3>3. Checks' = {}
      BY <1>1, <2>9, <3>2, Portals DEF Checks
    <3>4. \A x \in B!Tab : page'[x].token # 0 => owner[page'[x].token] = page'[x].user
      BY <1>a, <1>2, <2>3, <2>5, <3>1 DEF OneAccount
    <3>5. \A r \in B!Portal : stored'[r].token # 0 => owner[stored'[r].token] = stored'[r].user
      BY <1>a, <1>2, <2>2, <2>6, <3>1 DEF OneAccount
    <3>6. \A x \in B!Tab : page'[x].user \in {None, owner[c.answer]}
      BY <1>2, <2>3, <2>5, <3>2
    <3> QED BY <1>1, <3>3, <3>4, <3>5, <3>6 DEF OneAccount
  <2> QED BY <1>4, <2>7, <2>8, <2>10, <2>11, <2>12, <2>13 DEF BrowserInv
<1> QED BY <1>5, <1>6

\* A check that names a user is the page's and the entry's, with their tokens.
LEMMA CheckAnswered ==
  ASSUME BrowserInv, NEW c \in calls, B!AnswerCheck(c)
  PROVE  BrowserInv'
<1> DEFINE t == c.tab
           p == B!PortalOf(t)
           a == owner[c.answer]
<1>a. /\ BrowserType /\ StoredShown /\ Answers /\ CheckFirst /\ OutOfReach /\ Emptied
      /\ OneAccount
  BY DEF BrowserInv
<1>1. /\ c.kind = "me" /\ c.done /\ calls' = calls \ {c}
      /\ UNCHANGED <<owner, cookie, out, crossed>>
  BY DEF B!AnswerCheck, B!Answered
<1>2. /\ c \in Call(Len(owner)) /\ t \in B!Tab /\ c.answer \in {0, c.with}
      /\ c.answer \in 0 .. Len(owner)
  BY <1>a, <1>1 DEF BrowserType, Answers, Call
<1>3. t \in CitizenTab => \A d \in calls' : d.tab = t => d.kind # "me"
  BY <1>a, <1>1 DEF CheckFirst
<1>4. CASE c.answer = 0 /\ page' = [page EXCEPT ![t] = B!Page(B!Nobody)]
           /\ stored' = [stored EXCEPT ![p] = B!Nobody] /\ B!Tell(t, p)
  <2> DEFINE q == B!Page(B!Nobody)
  <2>1. q \in TabState(Len(owner)) /\ q.user = None /\ q.token = 0 /\ q.leaving = FALSE
    BY <1>a DEF B!Page, B!Nobody, TabState, User, BrowserType
  <2> HIDE DEF q
  <2>2. TabBecomes(t, q)
    BY <1>a, <1>2, <1>4, <2>1, TabAlone DEF q
  <2>3. t \in out' => \A d \in calls' : d.tab = t => d.kind # "login"
    BY <1>a, <1>1 DEF OutOfReach
  <2> QED BY <1>1, <1>2, <1>3, <1>4, <2>1, <2>2, <2>3, Emptying
<1>5. CASE UNCHANGED <<page, stored, notices>> /\ t \in OfficerTab
  <2>1. BrowserType' /\ StoredShown' /\ Emptied' /\ Answers'
    BY <1>a, <1>1, <1>5 DEF BrowserType, StoredShown, Emptied, Answers
  <2>2. CheckFirst' /\ OutOfReach'
    BY <1>a, <1>1, <1>5 DEF CheckFirst, OutOfReach
  <2>3. Checks' \subseteq Checks
    BY <1>1 DEF Checks
  <2>4. OneAccount'
    BY <1>a, <1>1, <1>5, <2>3 DEF OneAccount
  <2> QED BY <2>1, <2>2, <2>4 DEF BrowserInv
<1>6. CASE c.answer # 0 /\ t \in CitizenTab
           /\ page' = [page EXCEPT ![t] = [@ EXCEPT !.user = a, !.checking = FALSE]]
           /\ stored' = [stored EXCEPT ![p].user = a] /\ B!Tell(t, p)
  <2> DEFINE q == [page[t] EXCEPT !.user = a, !.checking = FALSE]
             s == [stored["citizen"] EXCEPT !.user = a]
  <2>1. c \in Checks /\ c.answer = c.with /\ c.with # 0 /\ c.with \in 1 .. Len(owner)
    BY <1>1, <1>2, <1>6 DEF Checks
  <2>2. a \in B!Account /\ a # None /\ p = "citizen" /\ "citizen" \in B!Portal
    BY <1>a, <1>6, <2>1, Portals DEF BrowserType
  <2>3. page' = [page EXCEPT ![t] = q] /\ stored' = [stored EXCEPT !["citizen"] = s]
    BY <1>6, <2>2
  <2>4. /\ q \in TabState(Len(owner)) /\ q.user = a /\ q.token = page[t].token
        /\ q.checking = FALSE /\ q.leaving = page[t].leaving
    BY <1>a, <1>2, <2>2 DEF BrowserType, TabState, User
  <2>5. s \in Keeping(Len(owner)) /\ s.user = a /\ s.token = stored["citizen"].token
    BY <1>a, <2>2 DEF BrowserType, Keeping, User
  <2> HIDE DEF q, s, a
  <2>6. /\ page' \in [B!Tab -> TabState(Len(owner))] /\ page'[t] = q
        /\ \A x \in B!Tab : x # t => page'[x] = page[x]
    BY <1>a, <1>2, <2>3, <2>4, TabAlone DEF TabBecomes
  <2>7. /\ stored' \in [B!Portal -> Keeping(Len(owner))] /\ stored'["citizen"] = s
        /\ \A r \in B!Portal : r # "citizen" => stored'[r] = stored[r]
    BY <1>a, <2>2, <2>3, <2>5 DEF BrowserType
  <2>8. BrowserType'
    <3>1. notices' \subseteq CitizenTab
      BY <1>a, <1>6, <2>2 DEF BrowserType, B!Tell
    <3> QED BY <1>a, <1>1, <2>6, <2>7, <3>1 DEF BrowserType
  <2>9. StoredShown'
    <3>1. \A x \in B!Tab : page'[x].user = None => page'[x].token = 0
      BY <1>a, <2>2, <2>4, <2>6 DEF StoredShown
    <3>2. \A r \in B!Portal : stored'[r].user = None => stored'[r].token = 0
      BY <1>a, <2>2, <2>5, <2>7 DEF StoredShown
    <3>3. ASSUME NEW r \in B!Portal, stored'[r].user # None
          PROVE  \E x \in B!Tab : B!PortalOf(x) = r /\ page'[x].user = stored'[r].user
      <4>1. CASE r = "citizen"
        BY <1>2, <2>2, <2>4, <2>5, <2>6, <2>7, <4>1
      <4>2. CASE r # "citizen"
        <5>1. PICK x \in B!Tab : B!PortalOf(x) = r /\ page[x].user = stored[r].user
          BY <1>a, <2>7, <3>3, <4>2 DEF StoredShown
        <5>2. x # t /\ stored'[r] = stored[r]
          BY <2>2, <2>7, <4>2, <5>1
        <5> QED BY <2>6, <5>1, <5>2
      <4> QED BY <4>1, <4>2
    <3>4. stored'["officer"].user # None => stored'["officer"].token # 0
      BY <1>a, <2>7, Portals DEF StoredShown
    <3> QED BY <3>1, <3>2, <3>3, <3>4 DEF StoredShown
  <2>10. Answers' /\ Emptied'
    BY <1>a, <1>1, <2>2, <2>5, <2>7 DEF Answers, Emptied
  <2>11. CheckFirst'
    <3>1. \A d, e \in calls' : d.kind = "me" /\ e.kind = "me" /\ d.tab = e.tab => d = e
      BY <1>a, <1>1 DEF CheckFirst
    <3>2. ASSUME NEW d \in calls', d.kind = "me", d.tab \in CitizenTab
          PROVE  page'[d.tab].checking /\ \A e \in calls' : e.kind = "login" => e.tab # d.tab
      BY <1>a, <1>1, <1>3, <1>6, <2>6, <3>2, Portals DEF CheckFirst
    <3>3. \A x \in CitizenTab : page'[x].leaving => ~page'[x].checking
      BY <1>a, <2>4, <2>6, Portals DEF CheckFirst
    <3> QED BY <3>1, <3>2, <3>3 DEF CheckFirst
  <2>12. OutOfReach'
    <3>1. t \notin out
      BY <1>a, <1>1, <1>6 DEF OutOfReach
    <3> QED BY <1>a, <1>1, <2>6, <3>1 DEF OutOfReach
  <2>13. OneAccount'
    <3>1. SUFFICES ASSUME ~crossed PROVE OneAccount'
      BY <1>1 DEF OneAccount
    <3>2. /\ cookie \in {0, c.with} /\ owner[c.with] = a
          /\ page[t].user \in {None, a} /\ stored["citizen"].user \in {None, a}
      BY <1>a, <2>1, <3>1 DEF OneAccount, a
    <3>3. page[t].token # 0 => owner[page[t].token] = a
      BY <1>a, <1>2, <3>1, <3>2 DEF OneAccount, StoredShown
    <3>4. stored["citizen"].token # 0 => owner[stored["citizen"].token] = a
      BY <1>a, <2>2, <3>1, <3>2 DEF OneAccount, StoredShown
    <3>5. \A x \in B!Tab : page'[x].token # 0 => owner[page'[x].token] = page'[x].user
      BY <1>a, <2>4, <2>6, <3>1, <3>3 DEF OneAccount
    <3>6. \A r \in B!Portal : stored'[r].token # 0 => owner[stored'[r].token] = stored'[r].user
      BY <1>a, <2>5, <2>7, <3>1, <3>4 DEF OneAccount
    <3>7. cookie # 0 => \A x \in B!Tab : page'[x].user \in {None, owner[cookie]}
      BY <1>a, <2>4, <2>6, <3>1, <3>2 DEF OneAccount
    <3>8. Checks' = Checks \ {c} /\ \A d \in Checks' : d.tab \in B!Tab \ {t}
      BY <1>1, <1>3, Portals DEF Checks
    <3>9. \A d \in Checks' : d.with # 0 => d.with = c.with
      BY <1>a, <2>1, <3>1, <3>8 DEF OneAccount
    <3>10. \A d \in Checks' :
             /\ cookie \in {0, d.with}
             /\ d.with # 0 => /\ page'[d.tab].user \in {None, owner[d.with]}
                              /\ stored'["citizen"].user \in {None, owner[d.with]}
      BY <1>a, <2>5, <2>6, <2>7, <3>1, <3>2, <3>8, <3>9 DEF OneAccount
    <3>11. \A d, e \in Checks' : d.with = e.with \/ 0 \in {d.with, e.with}
      BY <1>a, <3>1, <3>8 DEF OneAccount
    <3> QED BY <1>1, <3>5, <3>6, <3>7, <3>10, <3>11 DEF OneAccount
  <2> QED BY <2>8, <2>9, <2>10, <2>11, <2>12, <2>13 DEF BrowserInv
<1> QED BY <1>4, <1>5, <1>6 DEF B!AnswerCheck

LEMMA BrowserNext == BrowserInv /\ [B!Next]_(B!vars) => BrowserInv'
<1> SUFFICES ASSUME BrowserInv, [B!Next]_(B!vars) PROVE BrowserInv'
  OBVIOUS
<1>1. CASE UNCHANGED B!vars
  <2>1. UNCHANGED <<owner, cookie, stored, page, calls, notices, out, crossed>>
    BY <1>1 DEF B!vars
  <2> QED BY <2>1 DEF BrowserInv, BrowserType, StoredShown, Answers, CheckFirst, OutOfReach,
       Emptied, OneAccount, Checks
<1>2. CASE B!Next
  BY <1>2, Loading, SigningOut, Leaving, Hearing, SigningIn, Serving, SignInAnswered,
     CheckAnswered, LogoutAnswered, Losing DEF B!Next
<1> QED BY <1>1, <1>2

LEMMA BrowserAsShown == BrowserInv => B!PagesActAsShown
<1> SUFFICES ASSUME BrowserInv PROVE B!PagesActAsShown
  OBVIOUS
<1>1. B!TabsAgree /\ B!SignedOutStaysOut
  BY DEF BrowserInv, Emptied, OutOfReach, B!TabsAgree, B!SignedOutStaysOut
<1>2. B!ActsAsShown
  BY DEF BrowserInv, OneAccount, B!ActsAsShown, B!Acting, B!Valid
<1> QED BY <1>1, <1>2 DEF B!PagesActAsShown

\* Pages act for whom they show unless accounts met in the browser, nothing
\* brings a user back into a tab that signed out, the page asks for the code
\* that was sent, one attempt to sign in at a time, and the officer's view
\* shows, and compares, what was selected.
THEOREM PagesAlwaysActAsShown == MCSpec => []PagesActAsShown
<1>1. B!Spec => []BrowserInv
  BY BrowserInit, BrowserNext, PTL DEF B!Spec
<1>2. L!Spec => []LoginInv
  BY LoginInit, LoginNext, PTL DEF L!Spec
<1>3. V!Spec => []ConfigInv
  BY ConfigInit, ConfigNext, PTL DEF V!Spec
<1>4. BrowserInv /\ LoginInv /\ ConfigInv => PagesActAsShown
  BY BrowserAsShown, LoginAsShown, ConfigAsShown DEF PagesActAsShown
<1> QED BY <1>1, <1>2, <1>3, <1>4, PartsOfAccess, PTL
=============================================================================
