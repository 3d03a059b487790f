------------------------------ MODULE LoginPage ------------------------------
(***************************************************************************)
(* The citizen's sign-in page (Login.tsx): the panels of the password and  *)
(* of the Aadhaar number, the form that asks for a password reset and the  *)
(* one that takes the token.  One flag says that a request is under way,   *)
(* another that a code is being sent.  What the server does with a code or *)
(* a token is in Credentials; here it answers yes or no.                   *)
(***************************************************************************)
EXTENDS Naturals, FiniteSets

CONSTANTS
  Number,    \* Aadhaar numbers
  MaxClicks, \* bound on what is typed and clicked
  None

VARIABLES
  method,   \* "password" or "aadhar"
  number,   \* what the field of the number holds
  otpSent, sendingOtp, loading,
  forgot,   \* showForgotPassword
  asked,    \* forgotPasswordSent
  done,     \* resetSuccess
  timers,   \* timeouts that will close the form of the token
  calls,    \* requests under way
  user,     \* whether the page has signed somebody in
  codeFor,  \* history: the number the last code was sent to
  edited,   \* history: the number was edited while a code was being sent
  clicks

flags == <<otpSent, sendingOtp, loading>>
forms == <<forgot, asked, done, timers>>
vars == <<method, number, flags, forms, calls, user, codeFor, edited, clicks>>

Init ==
  /\ method = "password" /\ number \in Number
  /\ otpSent = FALSE /\ sendingOtp = FALSE /\ loading = FALSE
  /\ forgot = FALSE /\ asked = FALSE /\ done = FALSE /\ timers = 0
  /\ calls = {} /\ user = FALSE /\ codeFor = None /\ edited = FALSE /\ clicks = 0

Click == ~user /\ clicks < MaxClicks /\ clicks' = clicks + 1
Panel(m) == ~forgot /\ method = m
Sent(kind) == calls \cup {[kind |-> kind, number |-> number]}

\* The field of the number is there until a code was sent, also while it is.
Type(n) ==
  /\ Click /\ Panel("aadhar") /\ ~otpSent /\ n # number
  /\ number' = n /\ edited' = (edited \/ sendingOtp)
  /\ UNCHANGED <<method, flags, forms, calls, user, codeFor>>

\* A tab can be chosen at any time; the code is then to be sent again.
ChooseTab(m) ==
  /\ Click /\ ~forgot
  /\ method' = m /\ otpSent' = FALSE
  /\ UNCHANGED <<number, sendingOtp, loading, forms, calls, user, codeFor, edited>>

Submit(kind) == ~loading /\ loading' = TRUE /\ calls' = Sent(kind)

SignIn ==
  /\ Click /\ Panel("password") /\ Submit("password")
  /\ UNCHANGED <<method, number, otpSent, sendingOtp, forms, user, codeFor, edited>>

SendOTP ==
  /\ Click /\ Panel("aadhar") /\ ~otpSent /\ ~sendingOtp
  /\ sendingOtp' = TRUE /\ calls' = Sent("send") /\ edited' = FALSE
  /\ UNCHANGED <<method, number, otpSent, loading, forms, user, codeFor>>

VerifyOTP ==
  /\ Click /\ Panel("aadhar") /\ otpSent /\ Submit("verify")
  /\ UNCHANGED <<method, number, otpSent, sendingOtp, forms, user, codeFor, edited>>

Resend ==
  /\ Click /\ Panel("aadhar") /\ otpSent /\ otpSent' = FALSE
  /\ UNCHANGED <<method, number, sendingOtp, loading, forms, calls, user, codeFor, edited>>

Forgot ==
  /\ Click /\ Panel("password") /\ forgot' = TRUE
  /\ UNCHANGED <<method, number, flags, asked, done, timers, calls, user, codeFor, edited>>

AskReset ==
  /\ Click /\ forgot /\ ~asked /\ Submit("forgot")
  /\ UNCHANGED <<method, number, otpSent, sendingOtp, forms, user, codeFor, edited>>

ResetPassword ==
  /\ Click /\ forgot /\ asked /\ Submit("reset")
  /\ UNCHANGED <<method, number, otpSent, sendingOtp, forms, user, codeFor, edited>>

\* From the form of the token the next visit begins by asking again.
BackToLogin ==
  /\ Click /\ forgot
  /\ forgot' = FALSE /\ asked' = FALSE
  /\ UNCHANGED <<method, number, flags, done, timers, calls, user, codeFor, edited>>

\* 2.5 seconds after a reset; the timer is not stopped by anything.
CloseReset ==
  /\ timers > 0 /\ timers' = timers - 1
  /\ forgot' = FALSE /\ method' = "password" /\ done' = FALSE
  /\ UNCHANGED <<number, flags, asked, calls, user, codeFor, edited, clicks>>

Ended(c) == calls' = calls \ {c} /\ loading' = (loading /\ c.kind = "send")
            /\ sendingOtp' = (sendingOtp /\ c.kind # "send")

Agree(c) ==
  /\ c \in calls /\ ~user /\ Ended(c)
  /\ otpSent' = (otpSent \/ c.kind = "send")
  /\ codeFor' = IF c.kind = "send" THEN c.number ELSE codeFor
  /\ user' = (c.kind \in {"password", "verify"})
  /\ asked' = (asked \/ c.kind = "forgot")
  /\ IF c.kind = "reset" THEN done' = TRUE /\ timers' = timers + 1 ELSE UNCHANGED <<done, timers>>
  /\ UNCHANGED <<method, number, forgot, edited, clicks>>

\* A refusal, an account of another kind, or no answer.
Refuse(c) ==
  /\ c \in calls /\ ~user /\ Ended(c)
  /\ UNCHANGED <<method, number, otpSent, forms, user, codeFor, edited, clicks>>

Next ==
  \/ SignIn \/ SendOTP \/ VerifyOTP \/ Resend \/ Forgot \/ AskReset \/ ResetPassword
  \/ BackToLogin \/ CloseReset
  \/ \E n \in Number : Type(n)
  \/ \E m \in {"password", "aadhar"} : ChooseTab(m)
  \/ \E c \in calls : Agree(c) \/ Refuse(c)

Spec == Init /\ [][Next]_vars

(***************************************************************************)
(* Properties.                                                             *)
(***************************************************************************)
\* The flags are set exactly while a request of their kind is under way.
TypeOK ==
  /\ method \in {"password", "aadhar"} /\ number \in Number
  /\ loading <=> \E c \in calls : c.kind # "send"
  /\ sendingOtp <=> \E c \in calls : c.kind = "send"
  /\ timers \in 0 .. MaxClicks

\* A code is asked for under the number it was sent to, unless the number was
\* edited while it was being sent, and whatever panels were visited meanwhile.
AsksForTheCodeSent == otpSent => number = codeFor \/ edited

\* Two attempts to sign in never run at once, whichever panel each began in;
\* the answer of one cannot end the wait for another.
OneAttemptAtATime == Cardinality({c \in calls : c.kind # "send"}) <= 1
=============================================================================
