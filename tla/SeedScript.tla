----------------------------- MODULE SeedScript -----------------------------
(***************************************************************************)
(* The seed script (scripts/seed.ts) on a database in use.  It is a long   *)
(* sequence of statements that commit one by one: it may be killed between *)
(* any two of them, is started again, and deletes what it made before, in  *)
(* an order the foreign keys of the migrations must allow.  Meanwhile the  *)
(* server goes on: test citizens and officers work on applications, others *)
(* file complaints and use the same properties.                            *)
(*                                                                         *)
(* A row is a table and the application it belongs to, and refers to every *)
(* row of that application it may refer to.  The values the script resets  *)
(* (passwords, profiles, postings, the MFA flag, a pack's version, the     *)
(* dues of a property) are left out, and so is a second script beside.     *)
(***************************************************************************)
EXTENDS Naturals, SequencesExt

CONSTANTS
  Citizen,    \* test citizens
  Outsider,   \* everybody else
  Register,   \* the numbers of the seeded properties
  UpnsOf,      \* those of each test citizen
  Plan,       \* the seeded applications: citizen, kind and position
  LockerOf,   \* test citizens given documents
  Seeded,     \* how many complaints are seeded
  Restart,    \* where their numbers go on (100)
  MaxRuns,    \* bound on the runs of the script
  MaxUses     \* bound on what the server does meanwhile

ASSUME PlanAssumption ==
  /\ Outsider \notin Citizen /\ Seeded < Restart
  /\ \A a \in Range(Plan) : a.citizen \in Citizen /\ UpnsOf[a.citizen] # <<>>
  /\ \A c \in Citizen : Range(UpnsOf[c]) \subseteq Range(Register)

VARIABLES
  pc,        \* the statement the script is at, 0 when none is running
  last,      \* how the last run ended
  rows,      \* the applications' rows: table and application
  base,      \* tables of reference data that are filled
  property,  \* numbers with a property row
  held,      \* citizen_property: person and number
  kept,      \* numbers to which applications of others refer
  locker,    \* test citizens with a citizen_document
  complaint, \* number, person, and whether there is evidence
  seq,       \* complaint_number_seq
  found,     \* whether the script found the property it looked for
  disturbed, \* history: test data were used since the clean-up began
  runs, uses

tables == <<rows, base, property, held, kept, locker, complaint, seq>>
vars == <<pc, last, tables, found, disturbed, runs, uses>>

\* The application a test citizen makes himself.
Own == [citizen : Citizen, kind : {"own"}, index : {0}]
App == Range(Plan) \cup Own

(***************************************************************************)
(* Foreign keys, as <<table, table it refers to>>.                         *)
(***************************************************************************)
WorkflowKeys ==
  {<<t, "application">> : t \in {"task", "query", "document", "payment", "output", "notification"}}
    \cup {<<"query", "task">>}
MoneyKeys ==
  {<<"payment", "demand">>, <<"refund", "payment">>, <<"decision", "task">>, <<"output", "decision">>}
LetterKeys == {<<"log", "notification">>, <<"notice", "query">>, <<"notice", "decision">>}
InspectionKeys == {<<"inspection", "task">>}
ChallengeKeys == {<<"challenge", "task">>}
AttachmentKeys == {<<"attachment", "application">>}
Keys == WorkflowKeys \cup MoneyKeys \cup LetterKeys \cup InspectionKeys \cup ChallengeKeys
          \cup AttachmentKeys

\* ON DELETE CASCADE
Cascades(t) ==
  CASE t = "application" -> {"notice", "decision", "inspection", "refund", "demand", "demand_line",
                             "line_item", "link"}
    [] t \in {"demand", "line_item"} -> {"demand_line"}
    [] OTHER -> {}

Tables == {k[1] : k \in Keys} \cup {"application"} \cup Cascades("application")

(***************************************************************************)
(* The statements of main, in its order.                                   *)
(***************************************************************************)
\* Reference data, every table after those it refers to: ON CONFLICT.
BaseKeys ==
  {<<"designation", "authority">>, <<"role_map", "designation">>, <<"role_map", "role">>,
   <<"version", "service">>, <<"posting", "user">>, <<"posting", "designation">>,
   <<"holiday", "authority">>}
Authorities == <<"authority", "role">>
Designations == <<"designation", "role_map">>
Versions == <<"service", "version">>
Users == <<"user">>
Postings == <<"posting">>
Calendar == <<"holiday">>
Flags == <<"flag">>
Reference == Authorities \o Designations \o Versions \o Users \o Postings \o Calendar \o Flags

Each(do, s) == [i \in DOMAIN s |-> [do |-> do, of |-> s[i]]]

\* There is no index to conflict with: each number is looked up first.
Properties ==
  Each("purge", <<"held", "property">>)
    \o FlattenSeq([i \in DOMAIN Register |-> Each("find", <<Register[i]>>) \o Each("property", <<Register[i]>>)])
    \o Each("hold", SetToSeq({<<c, u>> \in Citizen \X Range(Register) : u \in Range(UpnsOf[c])}))

\* Fault: the tasks go before the queries that refer to them.
CleanupTaskFirst ==
  <<"notice", "output", "decision", "inspection", "refund", "payment", "demand_line", "demand",
    "line_item", "log", "notification", "attachment", "document", "challenge", "task", "query",
    "link", "application">>

\* Every table before those it refers to.
Cleanup ==
  <<"notice", "output", "decision", "inspection", "refund", "payment", "demand_line", "demand",
    "line_item", "log", "notification", "attachment", "document", "query", "challenge", "task",
    "link", "application">>

\* What an application of a kind comes with.
Needs(kind) ==
  {"application", "document"}
    \cup (IF kind = "task" THEN {"task"} ELSE {})
    \cup (IF kind = "query" THEN {"query"} ELSE {})
    \cup (IF kind \in {"query", "submitted", "approved"} THEN {"notification"} ELSE {})

RowsOf(a) ==
  LET needed == SelectSeq(<<"application", "document", "task", "query", "notification">>,
                          LAMBDA t : t \in Needs(a.kind))
  IN [i \in DOMAIN needed |-> <<needed[i], a>>]

Applications ==
  Each("purge", Cleanup) \o Each("row", FlattenSeq([i \in DOMAIN Plan |-> RowsOf(Plan[i])]))
Documents == Each("purge", <<"locker">>) \o Each("locker", LockerOf)
Complaints ==
  Each("purge", <<"evidence", "complaint">>) \o Each("complaint", [i \in 1 .. Seeded |-> i])
    \o <<[do |-> "setval", of |-> Restart]>>

Main == Each("base", Reference) \o Properties \o Applications \o Documents \o Complaints

Running == pc # 0

\* An empty database, migrated.
Init ==
  /\ pc = 0 /\ last = "none" /\ runs = 0 /\ uses = 0 /\ seq = 1
  /\ rows = {} /\ base = {} /\ property = {} /\ held = {} /\ kept = {} /\ locker = {}
  /\ complaint = {} /\ found = FALSE /\ disturbed = FALSE

(***************************************************************************)
(* The script.                                                             *)
(***************************************************************************)
Start ==
  /\ ~Running /\ runs < MaxRuns
  /\ pc' = 1 /\ runs' = runs + 1
  /\ UNCHANGED <<last, tables, found, disturbed, uses>>

Ends(how) == pc' = 0 /\ last' = how
Kill == Running /\ Ends("killed") /\ UNCHANGED <<tables, found, disturbed, runs, uses>>

\* A statement the database refuses ends the script: exit code 1.
Try(allowed) ==
  IF ~allowed THEN Ends("failed")
  ELSE IF pc < Len(Main) THEN pc' = pc + 1 /\ UNCHANGED last ELSE Ends("done")

At(do) == Running /\ Main[pc].do = do
Purges(t) == At("purge") /\ Main[pc].of = t
Of == Main[pc].of

Fill ==
  LET allowed == \A k \in BaseKeys : k[1] = Of => k[2] \in base
  IN /\ At("base") /\ Try(allowed)
     /\ base' = IF allowed THEN base \cup {Of} ELSE base
     /\ disturbed' = FALSE
     /\ UNCHANGED <<rows, property, held, kept, locker, complaint, seq, found, runs, uses>>

\* The property an application names.
Named(a) == UpnsOf[a.citizen][(a.index % Len(UpnsOf[a.citizen])) + 1]
Referred(u) == u \in kept \/ \E r \in rows : r[1] = "link" /\ Named(r[2]) = u

\* DELETE FROM citizen_property, then from property, which cascades.
PurgeHeld ==
  /\ Purges("held") /\ Try(TRUE)
  /\ held' = {h \in held : h[1] = Outsider}
  /\ UNCHANGED <<rows, base, property, kept, locker, complaint, seq, found, disturbed, runs, uses>>

PurgeProperty ==
  /\ Purges("property") /\ Try(TRUE)
  /\ property' = {u \in property : Referred(u)}
  /\ held' = {h \in held : Referred(h[2])}
  /\ UNCHANGED <<rows, base, kept, locker, complaint, seq, found, disturbed, runs, uses>>

FindProperty ==
  /\ At("find") /\ Try(TRUE) /\ found' = (Of \in property)
  /\ UNCHANGED <<tables, disturbed, runs, uses>>

\* UPDATE, or INSERT, which the unique index refuses.
WriteProperty ==
  /\ At("property") /\ Try(found \/ Of \notin property)
  /\ property' = property \cup {Of}
  /\ UNCHANGED <<rows, base, held, kept, locker, complaint, seq, found, disturbed, runs, uses>>

Hold ==
  /\ At("hold") /\ Try(TRUE)
  /\ held' = IF Of[2] \in property THEN held \cup {Of} ELSE held
  /\ UNCHANGED <<rows, base, property, kept, locker, complaint, seq, found, disturbed, runs, uses>>

\* DELETE ... WHERE arn IN those of the test citizens.
PurgeTable(t) ==
  LET gone == {r \in rows : r[1] = t \/ r[1] \in Cascades(t)}
      allowed == \A r \in rows \ gone, g \in gone : r[2] = g[2] => <<r[1], g[1]>> \notin Keys
  IN /\ Purges(t) /\ Try(allowed)
     /\ rows' = IF allowed THEN rows \ gone ELSE rows
     /\ UNCHANGED <<base, property, held, kept, locker, complaint, seq, found, disturbed, runs, uses>>

InsertRow ==
  LET allowed == Of[1] = "application" \/ <<"application", Of[2]>> \in rows
  IN /\ At("row") /\ Try(allowed)
     /\ rows' = IF allowed THEN rows \cup {Of} ELSE rows
     /\ UNCHANGED <<base, property, held, kept, locker, complaint, seq, found, disturbed, runs, uses>>

\* application_document refers to citizen_document.
PurgeLocker ==
  LET allowed == \A r \in rows : r[1] # "attachment"
  IN /\ Purges("locker") /\ Try(allowed)
     /\ locker' = IF allowed THEN {} ELSE locker
     /\ UNCHANGED <<rows, base, property, held, kept, complaint, seq, found, disturbed, runs, uses>>

FillLocker ==
  /\ At("locker") /\ Try(TRUE) /\ locker' = locker \cup {Of}
  /\ UNCHANGED <<rows, base, property, held, kept, complaint, seq, found, disturbed, runs, uses>>

PurgeEvidence ==
  /\ Purges("evidence") /\ Try(TRUE)
  /\ complaint' = {[c EXCEPT !.evidence = @ /\ c.by = Outsider] : c \in complaint}
  /\ UNCHANGED <<rows, base, property, held, kept, locker, seq, found, disturbed, runs, uses>>

PurgeComplaint ==
  LET theirs == {c \in complaint : c.by = Outsider}
      allowed == \A c \in complaint \ theirs : ~c.evidence
  IN /\ Purges("complaint") /\ Try(allowed)
     /\ complaint' = IF allowed THEN theirs ELSE complaint
     /\ UNCHANGED <<rows, base, property, held, kept, locker, seq, found, disturbed, runs, uses>>

Taken(n) == \E c \in complaint : c.no = n
Complaint(n, by) == [no |-> n, by |-> by, evidence |-> FALSE]

\* ON CONFLICT (complaint_id): a number that is taken is refused.
InsertComplaint ==
  /\ At("complaint") /\ Try(~Taken(Of))
  /\ complaint' = IF Taken(Of) THEN complaint ELSE complaint \cup {Complaint(Of, Plan[1].citizen)}
  /\ UNCHANGED <<rows, base, property, held, kept, locker, seq, found, disturbed, runs, uses>>

\* setval(..., 100, false), whatever numbers others have.
ResetNumbers ==
  /\ At("setval") /\ Try(TRUE) /\ seq' = Of
  /\ UNCHANGED <<rows, base, property, held, kept, locker, complaint, found, disturbed, runs, uses>>

Script ==
  \/ Fill \/ PurgeHeld \/ PurgeProperty \/ FindProperty \/ WriteProperty \/ Hold
  \/ \E t \in Tables : PurgeTable(t)
  \/ InsertRow \/ PurgeLocker \/ FillLocker \/ PurgeEvidence \/ PurgeComplaint
  \/ InsertComplaint \/ ResetNumbers

(***************************************************************************)
(* The server meanwhile.                                                   *)
(***************************************************************************)
Uses == uses < MaxUses /\ uses' = uses + 1 /\ {"user", "version"} \subseteq base
Unscripted == UNCHANGED <<pc, last, base, found, runs>>

\* A row with the rows it refers to.
WithParents(ts) ==
  ts \cup {p \in Tables : \E t \in ts : <<t, p>> \in Keys \/ t \in Cascades(p)}
Ancestry == [t \in Tables |-> WithParents(WithParents(WithParents({t})))]

\* An application is worked on, or made, by its citizen or an officer.
Work(a, t) ==
  /\ Uses
  /\ a \in Own \/ <<"application", a>> \in rows
  /\ rows' = rows \cup {<<p, a>> : p \in Ancestry[t]}
  /\ IF t # "link" THEN UNCHANGED <<property, held>>
     ELSE property' = property \cup {Named(a)} /\ held' = held \cup {<<a.citizen, Named(a)>>}
  /\ locker' = IF t = "attachment" THEN locker \cup {a.citizen} ELSE locker
  /\ disturbed' = TRUE
  /\ UNCHANGED <<kept, complaint, seq>> /\ Unscripted

\* Somebody else's application names a property of the test data.
WorkBeside(u) ==
  /\ Uses
  /\ property' = property \cup {u} /\ kept' = kept \cup {u}
  /\ held' = held \cup {<<Outsider, u>>} /\ disturbed' = TRUE
  /\ UNCHANGED <<rows, locker, complaint, seq>> /\ Unscripted

\* GET /citizens/me/property-lookup links what it finds.
Look(p, u) ==
  /\ Uses /\ u \in property
  /\ held' = held \cup {<<p, u>>}
  /\ disturbed' = (disturbed \/ p # Outsider)
  /\ UNCHANGED <<rows, property, kept, locker, complaint, seq>> /\ Unscripted

\* createComplaint: nextval, and a unique number.
File(p) ==
  /\ Uses /\ seq' = seq + 1
  /\ complaint' = IF Taken(seq) THEN complaint ELSE complaint \cup {Complaint(seq, p)}
  /\ disturbed' = (disturbed \/ p # Outsider)
  /\ UNCHANGED <<rows, property, held, kept, locker>> /\ Unscripted

AddEvidence(c) ==
  /\ Uses
  /\ complaint' = (complaint \ {c}) \cup {[c EXCEPT !.evidence = TRUE]}
  /\ disturbed' = (disturbed \/ c.by # Outsider)
  /\ UNCHANGED <<rows, property, held, kept, locker, seq>> /\ Unscripted

Person == Citizen \cup {Outsider}

Next ==
  \/ Start \/ Kill \/ Script
  \/ \E a \in App, t \in Tables : Work(a, t)
  \/ \E u \in Range(Register) : WorkBeside(u) \/ \E p \in Person : Look(p, u)
  \/ \E p \in Person : File(p)
  \/ \E c \in complaint : AddEvidence(c)

Spec == Init /\ [][Next]_vars

(***************************************************************************)
(* Properties.                                                             *)
(***************************************************************************)
TypeOK ==
  /\ pc \in 0 .. Len(Main) /\ last \in {"none", "done", "failed", "killed"}
  /\ rows \subseteq Tables \X App /\ base \subseteq Range(Reference)
  /\ property \cup kept \subseteq Range(Register) /\ held \subseteq Person \X property
  /\ locker \subseteq Citizen
  /\ complaint \subseteq [no : Nat, by : Person, evidence : BOOLEAN]
  /\ seq \in Nat /\ found \in BOOLEAN /\ disturbed \in BOOLEAN /\ runs \in Nat /\ uses \in Nat

\* What the script promises when it ends well.
Whole ==
  /\ \A a \in Range(Plan) :
       /\ \A t \in Needs(a.kind) : <<t, a>> \in rows
       /\ <<a.citizen, Named(a)>> \in held
  /\ Range(LockerOf) \subseteq locker
  /\ \A n \in 1 .. Seeded : (\E c \in complaint : c.no = n /\ c.by = Plan[1].citizen) /\ n < seq
  /\ ~disturbed => \A r \in rows : r[2] \in Range(Plan)

\* However often it was killed or failed, and whatever was done with the test
\* data before, the script can be run again: it fails only when the test data
\* are used while it cleans up or a number it seeds is somebody else's, and
\* when it ends well the seeded data are complete, and nothing older is left.
\* Those whose applications name a seeded property keep it.
SeedingIsRepeatable ==
  /\ last = "failed" /\ ~Running => disturbed \/ \E c \in complaint : c.by = Outsider /\ c.no <= Seeded
  /\ last = "done" /\ ~Running => Whole
  /\ \A u \in kept : <<Outsider, u>> \in held
=============================================================================
