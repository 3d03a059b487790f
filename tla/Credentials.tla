---------------------------- MODULE Credentials ----------------------------
(***************************************************************************)
(* How one citizen proves who he is (auth.ts): the password and its reset, *)
(* and the one-time code sent for an Aadhaar number.  A code and a reset   *)
(* token are rows; each database statement is a step, and none of them is  *)
(* in a transaction.  Codes and tokens are numbered in the order they are  *)
(* drawn.                                                                  *)
(***************************************************************************)
EXTENDS Naturals, FiniteSets

CONSTANTS
  Request,    \* requests under way at once
  Word,       \* passwords
  CodeLife,   \* ten minutes
  LockTime,   \* OTP_LOCK_MINUTES
  ResetLife,  \* an hour
  MaxWrong,   \* OTP_MAX_ATTEMPTS
  MaxTime,    \* bound on the clock
  MaxSecrets, \* bound on the codes and tokens drawn
  MaxTries,   \* bound on the attempts to use one
  None        \* absent

VARIABLES
  now,
  otp,      \* the row of otp_store for the number, or None
  account,  \* the row of "user": password, whether its hash is of the old kind,
            \* and whether the number is stored with it
  resets,   \* the rows of password_reset_token
  req,      \* the requests under way
  drawn, tries,
  used,     \* history: secrets a request was answered for
  reused,   \* history: a secret was accepted although it is in used
  locked,   \* history: until when each code was locked, 0 if it was not
  evaded,   \* history: a code was accepted that a lock should have kept
  chosen,   \* history: the password last set by a reset
  overtaken \* history: a reset overlapped the renewal of an old hash

userVars == <<account, chosen, overtaken>>
codeVars == <<otp, locked, evaded>>
vars == <<now, userVars, codeVars, resets, req, drawn, tries, used, reused>>

Secret == 1 .. MaxSecrets
Idle == [pc |-> "idle"]
Goto(r, pc) == req' = [req EXCEPT ![r].pc = pc]
Done(r) == req' = [req EXCEPT ![r] = Idle]

Init ==
  /\ now = 0 /\ otp = None /\ resets = {}
  /\ \E w \in Word, old, known \in BOOLEAN :
       account = [word |-> w, old |-> old, known |-> known] /\ chosen = w
  /\ req = [r \in Request |-> Idle]
  /\ drawn = 0 /\ tries = 0 /\ used = {} /\ reused = FALSE
  /\ locked = [s \in Secret |-> 0] /\ evaded = FALSE /\ overtaken = FALSE

Tick == now < MaxTime /\ now' = now + 1
        /\ UNCHANGED <<userVars, codeVars, resets, req, drawn, tries, used, reused>>

Draw == drawn < MaxSecrets /\ drawn' = drawn + 1
Try == tries < MaxTries /\ tries' = tries + 1

\* What a request was answered for counts as used from then on.
Accept(s) == reused' = (reused \/ s \in used)
Answer(r, s) == used' = used \cup {s} /\ Done(r)

(***************************************************************************)
(* One-time codes.                                                         *)
(***************************************************************************)
Fresh(s) == [code |-> s, expires |-> now + CodeLife, failed |-> 0, until |-> 0]

\* sendAadharOTP: the new code replaces the old one, its count and its lock.
SendCode(r) ==
  /\ req[r] = Idle /\ Draw
  /\ otp' = Fresh(drawn + 1)
  /\ Goto(r, "cleanCodes")
  /\ UNCHANGED <<now, userVars, locked, evaded, resets, tries, used, reused>>

CleanCodes(r) ==
  /\ req[r].pc = "cleanCodes"
  /\ otp' = IF otp # None /\ otp.expires < now THEN None ELSE otp
  /\ Done(r)
  /\ UNCHANGED <<now, userVars, locked, evaded, resets, drawn, tries, used, reused>>

Locked(row) == now < row.until
Expired(row) == now > row.expires

\* verifyAadharOTP reads the row and decides by it alone.
ReadCode(r, s) ==
  /\ req[r] = Idle /\ Try /\ s <= drawn /\ otp # None /\ ~Locked(otp)
  /\ LET pc == IF Expired(otp) THEN "expiredCode"
               ELSE IF otp.code = s THEN "rightCode" ELSE "wrongCode"
     IN /\ req' = [req EXCEPT ![r] = [pc |-> pc, secret |-> s, row |-> otp]]
        /\ IF pc = "rightCode"
           THEN Accept(s) /\ evaded' = (evaded \/ now < locked[s])
           ELSE UNCHANGED <<reused, evaded>>
  /\ UNCHANGED <<now, userVars, otp, locked, resets, drawn, used>>

\* Fault: the row is written back as it was read.
CountedOnCopy(row, seen) ==
  IF seen.failed + 1 >= MaxWrong
  THEN [seen EXCEPT !.failed = @ + 1, !.until = now + LockTime]
  ELSE [seen EXCEPT !.failed = @ + 1]

\* Two UPDATEs that set the count from what was read; one of them locks too.
Counted(row, seen) ==
  IF seen.failed + 1 >= MaxWrong
  THEN [row EXCEPT !.failed = seen.failed + 1, !.until = now + LockTime]
  ELSE [row EXCEPT !.failed = seen.failed + 1]

CountWrongCode(r) ==
  /\ req[r].pc = "wrongCode"
  /\ otp' = IF otp = None THEN None ELSE Counted(otp, req[r].row)
  /\ locked' = IF otp # None /\ Locked(otp')
               THEN [locked EXCEPT ![otp.code] = otp'.until] ELSE locked
  /\ Done(r)
  /\ UNCHANGED <<now, userVars, evaded, resets, drawn, tries, used, reused>>

\* By number: the row may hold a later code by now.
DropCode(r) ==
  /\ req[r].pc \in {"rightCode", "expiredCode"}
  /\ otp' = None
  /\ IF req[r].pc = "rightCode" THEN Goto(r, "findCitizen") ELSE Done(r)
  /\ UNCHANGED <<now, userVars, locked, evaded, resets, drawn, tries, used, reused>>

\* The citizen is found by the number, or by the login and the number stored.
FindCitizen(r) ==
  /\ req[r].pc = "findCitizen"
  /\ account' = [account EXCEPT !.known = TRUE]
  /\ Answer(r, req[r].secret)
  /\ UNCHANGED <<now, chosen, overtaken, codeVars, resets, drawn, tries, reused>>

(***************************************************************************)
(* The password.                                                           *)
(***************************************************************************)
Verifies(w) == account.word = w

\* authenticate: a hash of the old kind is to be renewed before the answer.
Authenticate(r, w) ==
  /\ req[r] = Idle /\ Try /\ Verifies(w) /\ account.old
  /\ req' = [req EXCEPT ![r] = [pc |-> "renew", word |-> w]]
  /\ UNCHANGED <<now, userVars, codeVars, resets, drawn, used, reused>>

\* Whatever the hash is by now.
Renew(r) ==
  /\ req[r].pc = "renew"
  /\ account' = [account EXCEPT !.word = req[r].word, !.old = FALSE]
  /\ Done(r)
  /\ UNCHANGED <<now, chosen, overtaken, codeVars, resets, drawn, tries, used, reused>>

RequestReset(r) ==
  /\ req[r] = Idle /\ Draw
  /\ resets' = resets \cup {[token |-> drawn + 1, expires |-> now + ResetLife]}
  /\ Goto(r, "cleanResets")
  /\ UNCHANGED <<now, userVars, codeVars, tries, used, reused>>

CleanResets(r) ==
  /\ req[r].pc = "cleanResets"
  /\ resets' = {t \in resets : t.expires >= now}
  /\ Done(r)
  /\ UNCHANGED <<now, userVars, codeVars, drawn, tries, used, reused>>

\* resetPassword: the token is read, the password set, the token deleted.
ReadReset(r, t, w) ==
  /\ req[r] = Idle /\ Try /\ t \in resets /\ ~Expired(t)
  /\ Accept(t.token)
  /\ req' = [req EXCEPT ![r] = [pc |-> "set", secret |-> t.token, word |-> w]]
  /\ UNCHANGED <<now, userVars, codeVars, resets, drawn, used>>

Upgrading == \E r \in Request : req[r].pc = "renew"

SetPassword(r) ==
  /\ req[r].pc = "set"
  /\ account' = [account EXCEPT !.word = req[r].word, !.old = FALSE]
  /\ chosen' = req[r].word
  /\ overtaken' = (overtaken \/ Upgrading)
  /\ Goto(r, "dropReset")
  /\ UNCHANGED <<now, codeVars, resets, drawn, tries, used, reused>>

DropReset(r) ==
  /\ req[r].pc = "dropReset"
  /\ resets' = {t \in resets : t.token # req[r].secret}
  /\ Answer(r, req[r].secret)
  /\ UNCHANGED <<now, userVars, codeVars, drawn, tries, reused>>

\* The process ends, or a statement fails: what was written stays.
Dies(r) ==
  /\ req[r] # Idle /\ Done(r)
  /\ UNCHANGED <<now, userVars, codeVars, resets, drawn, tries, used, reused>>

Serve(r) ==
  \/ SendCode(r) \/ CleanCodes(r) \/ CountWrongCode(r) \/ DropCode(r) \/ FindCitizen(r)
  \/ Renew(r) \/ RequestReset(r) \/ CleanResets(r) \/ SetPassword(r) \/ DropReset(r)
  \/ Dies(r)
  \/ \E s \in Secret : ReadCode(r, s)
  \/ \E w \in Word : Authenticate(r, w) \/ \E t \in resets : ReadReset(r, t, w)

Next == Tick \/ \E r \in Request : Serve(r)

Spec == Init /\ [][Next]_vars

(***************************************************************************)
(* Properties.                                                             *)
(***************************************************************************)
\* The rows have the shape the code gives them.
TypeOK ==
  /\ otp \in {None} \cup [code : 1 .. drawn, expires : Nat, failed : Nat, until : Nat]
  /\ resets \subseteq [token : 1 .. drawn, expires : Nat]
  /\ account \in [word : Word, old : BOOLEAN, known : BOOLEAN]

\* A code that signed a citizen in, or a token that set a password, is not
\* accepted from a request that begins after that was answered, although
\* neither is read and deleted in one statement: only requests that overlap
\* share one, and a new code does not bring an old one back.
SecretsServeOnce == ~reused

\* Wrong attempts that overlap may count as one, but once a code is locked no
\* late count of another request unlocks it.
LocksHold == ~evaded

\* The password in force is the one the last reset set; an old one returns
\* only where the renewal of its hash was under way at the reset.
LastResetCounts == account.word = chosen \/ overtaken

CredentialsHold == SecretsServeOnce /\ LocksHold /\ LastResetCounts
=============================================================================
