-------------------------- MODULE PropertyRegister --------------------------
(***************************************************************************)
(* The properties applications are about (properties.ts): one row per UPN, *)
(* found or made from an application's data when it is created, statement  *)
(* by statement, and again inside the transaction that submits it; and the *)
(* check for duplicates a citizen's form makes before it creates one.      *)
(*                                                                         *)
(* One citizen, one service and one authority.  The master data of a       *)
(* property (COALESCE per column), the citizen's own list of properties,   *)
(* queries and rejections are left out.                                    *)
(***************************************************************************)
EXTENDS Naturals, FiniteSets, Sequences

CONSTANTS
  Arn,      \* applications
  Upn,      \* property numbers
  Request,  \* requests under way at once
  Stages,   \* the states an application passes, DRAFT first
  MaxWork,  \* bound on the requests
  None      \* absent

VARIABLES
  app,      \* applications: state and the UPN their data names
  rows,     \* UPNs with a property row, as committed
  linked,   \* application_property
  req,      \* requests under way
  named,    \* history: UPNs an application's data ever named
  missed,   \* history: states of duplicates nobody was warned of
  work

vars == <<app, rows, linked, req, named, missed, work>>

Idle == [op |-> "idle"]
Missing == [state |-> None, upn |-> None]
Exists(a) == app[a].state # None
At(a, s) == app[a].state = s

\* States the duplicate check counts as in progress, of all packs.
InProgress ==
  {"DRAFT", "SUBMITTED", "PENDING_AT_CLERK", "IN_PROGRESS", "QUERY_PENDING", "RESUBMITTED",
   "PENDING_AT_SR_ASSISTANT", "PENDING_AT_SR_ASSISTANT_ACCOUNTS", "PENDING_AT_ACCOUNT_OFFICER",
   "PENDING_AT_JUNIOR_ENGINEER", "PENDING_AT_SDE", "PENDING_AT_SDO", "PENDING_AT_SDO_PH",
   "PENDING_AT_DRAFTSMAN"}

Disposed == {"APPROVED", "REJECTED", "CLOSED"}

Init ==
  /\ app = [a \in Arn |-> Missing] /\ rows = {} /\ linked = {}
  /\ req = [r \in Request |-> Idle]
  /\ named = [a \in Arn |-> {}] /\ missed = {} /\ work = 0

Begin(r, q) ==
  /\ req[r] = Idle /\ work < MaxWork /\ work' = work + 1
  /\ req' = [req EXCEPT ![r] = q]

Step(r, q) == req' = [req EXCEPT ![r] = q] /\ UNCHANGED work

(***************************************************************************)
(* The check: the property, then the applications linked to it, or all of  *)
(* them when there is no such property.                                    *)
(***************************************************************************)
StartCheck(r, u) ==
  /\ Begin(r, [op |-> "check", upn |-> u, found |-> u \in rows])
  /\ UNCHANGED <<app, rows, linked, named, missed>>

\* checkDuplicateApplication
Existing(q) ==
  {a \in Arn : app[a].state \in InProgress /\ (q.found => <<a, q.upn>> \in linked)}

AnswerCheck(r) ==
  /\ req[r].op = "check"
  /\ missed' = IF Existing(req[r]) # {} THEN missed
               ELSE missed \cup {app[a].state : a \in {b \in Arn : /\ Exists(b) /\ app[b].state \notin Disposed
                                                                   /\ <<b, req[r].upn>> \in linked}}
  /\ Step(r, Idle)
  /\ UNCHANGED <<app, rows, linked, named>>

(***************************************************************************)
(* createApplication: every statement commits on its own, and what fails   *)
(* of the property is logged.                                              *)
(***************************************************************************)
Create(r, a, u) ==
  /\ ~Exists(a)
  /\ Begin(r, [op |-> "create", arn |-> a, upn |-> u, at |-> "find"])
  /\ app' = [app EXCEPT ![a] = [state |-> "DRAFT", upn |-> u]]
  /\ named' = [named EXCEPT ![a] = {u}]
  /\ UNCHANGED <<rows, linked, missed>>

\* A later save of the draft; it does not touch the property.
Rename(a, u) ==
  /\ At(a, "DRAFT") /\ work < MaxWork /\ work' = work + 1
  /\ app' = [app EXCEPT ![a].upn = u] /\ named' = [named EXCEPT ![a] = @ \cup {u}]
  /\ UNCHANGED <<rows, linked, req, missed>>

(***************************************************************************)
(* submitApplication: the application as read before the transaction.      *)
(***************************************************************************)
Submit(r, a) ==
  /\ At(a, "DRAFT")
  /\ Begin(r, [op |-> "submit", arn |-> a, upn |-> app[a].upn, at |-> "find"])
  /\ UNCHANGED <<app, rows, linked, named, missed>>

(***************************************************************************)
(* upsertPropertyFromApplication, the same for both.                       *)
(***************************************************************************)
Find(r) ==
  /\ req[r].op \in {"create", "submit"} /\ req[r].at = "find"
  /\ Step(r, [req[r] EXCEPT !.at = IF req[r].upn \in rows THEN "link" ELSE "insert"])
  /\ UNCHANGED <<app, rows, linked, named, missed>>

\* A transaction that has inserted the row makes others wait for its end.
Inserting(u) == \E r \in Request : req[r].op = "submit" /\ req[r].upn = u /\ req[r].at = "own"

\* Fault: what fails inside the transaction is passed over.
PassedOver(q) == [q EXCEPT !.at = "submit"]

\* idx_property_authority_upn: the insert fails, and with it the transaction.
Collided(q) == IF q.op = "create" THEN Idle ELSE [q EXCEPT !.at = "aborted"]

Insert(r) ==
  LET q == req[r] IN
  /\ q.op \in {"create", "submit"} /\ q.at = "insert" /\ ~Inserting(q.upn)
  /\ \/ q.upn \in rows /\ Step(r, Collided(q)) /\ UNCHANGED rows
     \/ /\ q.upn \notin rows /\ q.op = "create"
        /\ rows' = rows \cup {q.upn} /\ Step(r, [q EXCEPT !.at = "link"])
     \/ /\ q.upn \notin rows /\ q.op = "submit"
        /\ Step(r, [q EXCEPT !.at = "own"]) /\ UNCHANGED rows
  /\ UNCHANGED <<app, linked, named, missed>>

Link(r) ==
  /\ req[r].op = "create" /\ req[r].at = "link"
  /\ linked' = linked \cup {<<req[r].arn, req[r].upn>>} /\ Step(r, Idle)
  /\ UNCHANGED <<app, rows, named, missed>>

\* The links and the new state, if the application is a draft still.
Commit(r) ==
  LET q == req[r] IN
  /\ q.op = "submit" /\ q.at \in {"link", "own", "submit"}
  /\ IF At(q.arn, "DRAFT")
     THEN /\ app' = [app EXCEPT ![q.arn].state = Stages[2]]
          /\ rows' = (IF q.at = "own" THEN rows \cup {q.upn} ELSE rows)
          /\ linked' = (IF q.at = "submit" THEN linked ELSE linked \cup {<<q.arn, q.upn>>})
     ELSE UNCHANGED <<app, rows, linked>>
  /\ Step(r, Idle)
  /\ UNCHANGED <<named, missed>>

\* ROLLBACK after the failure, or the process dies at any point.
Stop(r) ==
  /\ req[r] # Idle /\ Step(r, Idle)
  /\ UNCHANGED <<app, rows, linked, named, missed>>

\* The officers move it on.
Advance(a) ==
  /\ \E i \in 2 .. (Len(Stages) - 1) :
       At(a, Stages[i]) /\ app' = [app EXCEPT ![a].state = Stages[i + 1]]
  /\ UNCHANGED <<rows, linked, req, named, missed, work>>

Next ==
  \/ \E r \in Request :
       \/ \E u \in Upn : StartCheck(r, u) \/ \E a \in Arn : Create(r, a, u)
       \/ \E a \in Arn : Submit(r, a)
       \/ AnswerCheck(r) \/ Find(r) \/ Insert(r) \/ Link(r) \/ Commit(r) \/ Stop(r)
  \/ \E a \in Arn : Advance(a) \/ \E u \in Upn : Rename(a, u)

Spec == Init /\ [][Next]_vars

(***************************************************************************)
(* Properties.                                                             *)
(***************************************************************************)
TypeOK ==
  /\ \A a \in Arn : Exists(a) => At(a, "DRAFT") \/ \E i \in DOMAIN Stages : At(a, Stages[i])
  /\ rows \subseteq Upn /\ linked \subseteq Arn \X Upn
  /\ named \in [Arn -> SUBSET Upn] /\ work \in 0 .. MaxWork

\* getPropertyForApplication takes any one of an application's properties
\* (properties.ts:361): a submitted application has one, the one it named
\* unless its data changed while it was being submitted, and never one it
\* did not name, whatever failed on the way.
SubmittedIsLinked ==
  \A a \in Arn :
    /\ Exists(a) /\ ~At(a, "DRAFT") => \E u \in named[a] : <<a, u>> \in linked
    /\ \A u \in Upn : <<a, u>> \in linked => u \in named[a] /\ u \in rows

\* "An existing active application exists for same key identifiers ...
\* System warns or blocks duplicate" (BRD_regularisation_of_water_
\* connection:402): the check never misses one that is not disposed.
DuplicateIsReported == missed = {}
=============================================================================
