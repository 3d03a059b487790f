----------------------------- MODULE DetailPage -----------------------------
(***************************************************************************)
(* The page of one application in the citizen's browser                    *)
(* (ApplicationDetail.tsx): the answer to an officer's query and the       *)
(* payment of dues.  It is given two copies that App.tsx loads separately, *)
(* the application and its detail with the queries, and it stays mounted   *)
(* when a second click or the browser's history opens another application. *)
(* Every fetch is served and answered in steps of its own, in any order,   *)
(* or is lost.                                                             *)
(*                                                                         *)
(* Every application is for a no due certificate with one due, and its     *)
(* queries unlock one field, whose value is the number of the edit that    *)
(* wrote it.  The message of an answer, documents, declarations and        *)
(* downloads are left out; the ledger is in NdcLedger.                     *)
(***************************************************************************)
EXTENDS Naturals, FiniteSets

CONSTANTS
  App,
  MaxQueries, \* bound on the queries of an application
  MaxEdits,   \* bound on what is typed, here and in another session
  MaxCalls,   \* bound on the calls under way when one is clicked
  MaxLosses,  \* bound on lost calls
  MaxClicks,  \* bound on what the citizen starts
  None        \* absent

VARIABLES
  row,        \* server: queries asked, whether the last is pending, the field, the due
  online,
  cache,      \* rows this device keeps
  current, detail,        \* currentApplication, applicationDetail
  form,       \* responseData: the field, whether it was typed, the application it is from
  responding,
  ledger, loading,        \* ndcPaymentStatus with its application, ndcPaymentStatusLoading
  paying, posting,        \* showNdcPaymentPage, ndcPostingDueCode
  calls,
  wrong,      \* history: what an accepted answer got wrong
  outdated,   \* history: where a form was seeded with, or overtaken by, other data
  mixed,      \* history: a payment was posted while another page or fetch went on
  edits, losses, clicks

copies == <<cache, current, detail>>
answering == <<form, responding>>
dues == <<ledger, loading, paying, posting>>
bounds == <<edits, losses, clicks>>
vars == <<row, online, copies, answering, dues, calls, wrong, outdated, mixed, bounds>>

Call(kind, a) ==
  [kind |-> kind, arn |-> a, query |-> None, form |-> None, answer |-> None,
   refused |-> FALSE, mounted |-> TRUE, seeded |-> TRUE]

\* The parts of a row the copies keep.
Application(r) == [arn |-> r.arn, value |-> r.value, pending |-> r.pending]
Detail(r) == [arn |-> r.arn, asked |-> r.asked, pending |-> r.pending]
Ledger(r) == [arn |-> r.arn, paid |-> r.paid]
Seed(r) == [of |-> r.arn, value |-> r.value, typed |-> FALSE]

Init ==
  /\ row = [a \in App |-> [arn |-> a, asked |-> 1, pending |-> TRUE, value |-> 0, paid |-> FALSE]]
  /\ online = TRUE /\ cache = [a \in App |-> None] /\ current = None /\ detail = None
  /\ form = None /\ responding = FALSE
  /\ ledger = None /\ loading = FALSE /\ paying = FALSE /\ posting = FALSE
  /\ calls = {} /\ wrong = {} /\ outdated = {} /\ mixed = FALSE
  /\ edits = 0 /\ losses = 0 /\ clicks = 0

Click == clicks < MaxClicks /\ clicks' = clicks + 1
Ask(c) == Cardinality(calls) < MaxCalls /\ calls' = calls \cup {c}
Posting == posting \/ \E c \in calls : c.kind = "post"

(***************************************************************************)
(* Opening, with the effects that follow a change of application.arn.      *)
(***************************************************************************)
\* Detail and payments are loaded again, on this or that application.
Refetch(a) == {Call("load", a), Call("status", a)}

\* Fault: the payment effect has no cleanup.
NotStopped(cs) == cs

\* The cleanup of the payment effect: nothing becomes of a fetch it cancels.
Stopped(cs) == {c \in cs : c.kind # "status"}

\* An answer on its way is of an older form now.
Superseded(cs) == {[c EXCEPT !.seeded = @ /\ c.kind # "respond"] : c \in cs}

\* The two effects: a new form, the payment page closed, its fetch replaced.
Reset(r, cs) ==
  /\ form' = Seed(r) /\ paying' = FALSE
  /\ loading' = online
  /\ calls' = Superseded(Stopped(cs)) \cup (IF online THEN Refetch(r.arn) ELSE {})
  /\ outdated' = (IF r.value = row[r.arn].value THEN outdated ELSE outdated \cup {r.arn})
  /\ mixed' = (mixed \/ Posting)

\* setCurrentApplication and setApplicationDetail, of the row r that came.
Become(r, cs) ==
  /\ current' = Application(r) /\ detail' = Detail(r)
  /\ IF current # None /\ current.arn = r.arn
     THEN calls' = cs /\ UNCHANGED <<form, paying, loading, outdated, mixed>>
     ELSE Reset(r, cs)

\* openApplication, from a list or the history.
Open(a) ==
  /\ online /\ Click /\ Ask(Call("open", a))
  /\ UNCHANGED <<row, online, copies, answering, dues, wrong, outdated, mixed, edits, losses>>

OpenCached(a) ==
  /\ ~online /\ cache[a] # None /\ Click /\ Become(cache[a], calls)
  /\ UNCHANGED <<row, online, cache, responding, ledger, posting, wrong, edits, losses>>

\* onBack: the page is unmounted; its calls go on without it.
Leave ==
  /\ current # None
  /\ current' = None /\ detail' = None /\ form' = None /\ responding' = FALSE
  /\ ledger' = None /\ loading' = FALSE /\ paying' = FALSE /\ posting' = FALSE
  /\ calls' = {[c EXCEPT !.mounted = c.kind \notin {"respond", "post"}] : c \in Stopped(calls)}
  /\ UNCHANGED <<row, online, cache, wrong, outdated, mixed, bounds>>

\* Without a network the payments are not fetched; with it they are again,
\* and so is the detail.
GoOffline ==
  /\ online /\ Click /\ online' = FALSE /\ loading' = FALSE
  /\ calls' = Stopped(calls)
  /\ UNCHANGED <<row, copies, answering, ledger, paying, posting, wrong, outdated, mixed, edits,
                 losses>>

GoOnline ==
  /\ ~online /\ online' = TRUE
  /\ IF current = None THEN UNCHANGED <<loading, calls, mixed>>
     ELSE /\ loading' = TRUE /\ calls' = calls \cup Refetch(current.arn)
          /\ mixed' = (mixed \/ Posting)
  /\ UNCHANGED <<row, copies, answering, ledger, paying, posting, wrong, outdated, bounds>>

(***************************************************************************)
(* The answer to a query.                                                  *)
(***************************************************************************)
\* pendingQuery is of the detail, QUERY_PENDING of the application.
Answerable ==
  current # None /\ current.pending /\ detail # None /\ detail.pending /\ online /\ ~responding

Type ==
  /\ Answerable /\ edits < MaxEdits /\ edits' = edits + 1
  /\ form' = [form EXCEPT !.value = edits', !.typed = TRUE]
  /\ UNCHANGED <<row, online, copies, responding, dues, calls, wrong, outdated, mixed, losses,
                 clicks>>

\* handleQueryResponse: every unlocked field is sent, typed or not.
Respond ==
  /\ Answerable /\ Click /\ responding' = TRUE
  /\ Ask([Call("respond", current.arn) EXCEPT !.query = <<detail.arn, detail.asked>>,
                                              !.form = form])
  /\ UNCHANGED <<row, online, copies, form, dues, wrong, outdated, mixed, edits, losses>>

(***************************************************************************)
(* Payments.                                                               *)
(***************************************************************************)
OpenPayments ==
  /\ current # None /\ ledger # None /\ ~ledger.paid /\ ~paying /\ paying' = TRUE
  /\ UNCHANGED <<row, online, copies, answering, ledger, loading, posting, calls, wrong, outdated,
                 mixed, bounds>>

\* handleNdcPaymentPost, for the application shown.
Pay ==
  /\ current # None /\ paying /\ ledger # None /\ ~ledger.paid /\ online /\ ~posting /\ Click
  /\ posting' = TRUE /\ Ask(Call("post", current.arn)) /\ mixed' = (mixed \/ loading)
  /\ UNCHANGED <<row, online, copies, answering, ledger, loading, paying, wrong, outdated, edits,
                 losses>>

(***************************************************************************)
(* The server, officers and another session.                               *)
(***************************************************************************)
AskQuery(a) ==
  /\ ~row[a].pending /\ row[a].asked < MaxQueries
  /\ row' = [row EXCEPT ![a].pending = TRUE, ![a].asked = @ + 1]
  /\ UNCHANGED <<online, copies, answering, dues, calls, wrong, outdated, mixed, bounds>>

OtherAnswers(a) ==
  /\ row[a].pending /\ edits < MaxEdits /\ edits' = edits + 1
  /\ row' = [row EXCEPT ![a].pending = FALSE, ![a].value = edits']
  /\ outdated' = (IF form # None /\ form.of = a THEN outdated \cup {a} ELSE outdated)
  /\ UNCHANGED <<online, copies, answering, dues, calls, wrong, mixed, losses, clicks>>

\* Fault: the query is looked for by its id alone.
AcceptedById(c) ==
  row[c.query[1]].pending /\ row[c.query[1]].asked = c.query[2] /\ row[c.arn].pending

\* respondToQuery: WHERE query_id = $1 AND arn = $2, still PENDING.
Accepted(c) == row[c.arn].pending /\ c.query = <<c.arn, row[c.arn].asked>>

ServeResponse(c) ==
  /\ c.kind = "respond"
  /\ LET r == row[c.arn]
     IN IF Accepted(c)
        THEN /\ row' = [row EXCEPT ![c.arn].pending = FALSE, ![c.arn].value = c.form.value]
             /\ wrong' = wrong
                  \cup (IF c.form.of # c.arn \/ c.query[1] # c.arn THEN {"misplaced"} ELSE {})
                  \cup (IF ~c.form.typed /\ c.form.value # r.value /\ c.arn \notin outdated
                        THEN {"reverted"} ELSE {})
             /\ outdated' = (IF c.seeded THEN outdated ELSE outdated \cup {c.arn})
             /\ calls' = (calls \ {c}) \cup {[c EXCEPT !.answer = row'[c.arn]]}
        ELSE /\ calls' = (calls \ {c}) \cup {[c EXCEPT !.answer = r, !.refused = TRUE]}
             /\ UNCHANGED <<row, wrong, outdated>>

ServeOther(c) ==
  /\ c.kind # "respond"
  /\ row' = IF c.kind = "post" THEN [row EXCEPT ![c.arn].paid = TRUE] ELSE row
  /\ calls' = (calls \ {c}) \cup {[c EXCEPT !.answer = row'[c.arn]]}
  /\ UNCHANGED <<wrong, outdated>>

Serve(c) ==
  /\ c.answer = None
  /\ ServeResponse(c) \/ ServeOther(c)
  /\ UNCHANGED <<online, copies, answering, dues, mixed, bounds>>

(***************************************************************************)
(* What the page does with the answers.                                    *)
(***************************************************************************)
Stored(c, lost) == cache' = IF lost THEN cache ELSE [cache EXCEPT ![c.arn] = c.answer]

\* From the cache where the network failed.
AnswerOpen(c, lost) ==
  LET r == IF lost THEN cache[c.arn] ELSE c.answer
  IN /\ c.kind = "open" /\ Stored(c, lost)
     /\ IF r = None
        THEN calls' = calls \ {c}
             /\ UNCHANGED <<current, detail, form, paying, loading, outdated, mixed>>
        ELSE Become(r, calls \ {c})
     /\ UNCHANGED <<responding, ledger, posting>>

\* loadApplicationDetail: of whichever application it was asked for.
AnswerLoad(c, lost) ==
  LET r == IF lost THEN cache[c.arn] ELSE c.answer
  IN /\ c.kind = "load" /\ Stored(c, lost) /\ calls' = calls \ {c}
     /\ detail' = IF r = None THEN detail ELSE Detail(r)
     /\ UNCHANGED <<current, answering, dues, outdated, mixed>>

\* onQueryResponded loads the detail again, but not the application.
Responded == UNCHANGED form

AnswerRespond(c, lost) ==
  /\ c.kind = "respond"
  /\ responding' = (responding /\ ~c.mounted)
  /\ IF lost \/ c.refused THEN calls' = calls \ {c} /\ UNCHANGED form
     ELSE /\ calls' = (calls \ {c}) \cup {Call("load", c.arn)}
          /\ IF c.mounted THEN Responded ELSE UNCHANGED form
  /\ UNCHANGED <<copies, dues, outdated, mixed>>

AnswerStatus(c, lost) ==
  /\ c.kind = "status" /\ calls' = calls \ {c}
  /\ ledger' = (IF lost THEN None ELSE Ledger(c.answer)) /\ loading' = FALSE
  /\ UNCHANGED <<copies, answering, paying, posting, outdated, mixed>>

\* Whatever application is shown by now.
AnswerPost(c, lost) ==
  /\ c.kind = "post" /\ calls' = calls \ {c}
  /\ ledger' = IF lost \/ ~c.mounted THEN ledger ELSE Ledger(c.answer)
  /\ posting' = (posting /\ ~c.mounted)
  /\ UNCHANGED <<copies, answering, loading, paying, outdated, mixed>>

Handle(c, lost) ==
  /\ AnswerOpen(c, lost) \/ AnswerLoad(c, lost) \/ AnswerRespond(c, lost)
       \/ AnswerStatus(c, lost) \/ AnswerPost(c, lost)
  /\ UNCHANGED <<row, online, wrong, edits, clicks>>

Answer(c) == c.answer # None /\ Handle(c, FALSE) /\ UNCHANGED losses
Lose(c) == losses < MaxLosses /\ losses' = losses + 1 /\ Handle(c, TRUE)

Next ==
  \/ Leave \/ GoOffline \/ GoOnline \/ Type \/ Respond \/ OpenPayments \/ Pay
  \/ \E a \in App : Open(a) \/ OpenCached(a) \/ AskQuery(a) \/ OtherAnswers(a)
  \/ \E c \in calls : Serve(c) \/ Answer(c) \/ Lose(c)

Spec == Init /\ [][Next]_vars

(***************************************************************************)
(* Properties.                                                             *)
(***************************************************************************)
TypeOK ==
  /\ \A a \in App : row[a].asked \in 1 .. MaxQueries /\ row[a].value \in 0 .. MaxEdits
  /\ wrong \subseteq {"misplaced", "reverted"} /\ DOMAIN cache = App
  /\ {online, responding, loading, paying, posting, mixed} \subseteq BOOLEAN
  /\ outdated \subseteq App

\* An answer the server accepts answers the query that was shown, with the
\* fields of that application's form (ApplicationDetail.tsx:361 takes the
\* query from one copy and the application from another), and changes no
\* field that was not typed, unless the form was opened with data already
\* overtaken or another session has answered since.
AnswersAsShown == wrong = {}

\* Once the payments are loaded, they are those of the application shown, whose
\* dues the buttons beside them pay (ApplicationDetail.tsx:816), unless a
\* posting overlapped the opening of another application or another fetch.
PaysAsShown ==
  current # None /\ ledger # None /\ ~loading /\ ~mixed /\ online => ledger.arn = current.arn
=============================================================================
