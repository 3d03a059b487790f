----------------------------- MODULE CreatePage -----------------------------
(***************************************************************************)
(* The form of a new application for a no due certificate, as the shared   *)
(* FormRenderer keeps it (form-renderer.tsx) and App.tsx mirrors it: typed *)
(* fields, the property chosen from a list or looked up by its number      *)
(* (UPN), the profile merged in, and the payments of the property, which   *)
(* decide whether the application may be created.  Lookups, payments and   *)
(* profile are fetched in steps of their own, answered in any order or     *)
(* lost.                                                                   *)
(*                                                                         *)
(* The form is an object of groups, each an object of its own.  An update  *)
(* copies the outer object and writes into the inner one, so that copies   *)
(* share it; "data" therefore refers to "objects".  The pages of the form, *)
(* field checks, documents and the detection of duplicates are left out;   *)
(* the authority of the property is known and the browser online.          *)
(***************************************************************************)
EXTENDS Naturals, Sequences, FiniteSets

CONSTANTS
  Upn,
  Listed,     \* the citizen's properties: what the list offers at first
  MaxEdits,   \* bound on what is typed
  MaxCalls,   \* bound on the lookups and postings under way
  MaxLosses,  \* bound on lost calls
  MaxClicks,  \* bound on what the citizen starts
  None        \* absent

VARIABLES
  settled,    \* server: the properties whose dues are paid
  linked,     \* server: the properties that are the citizen's
  profile,    \* server: the number of the profile's last change
  objects,    \* the inner objects there ever were
  data,       \* formData, and the data of FormRenderer: the object of every group, or 0
  known,      \* citizenProperties and discoveredProperties
  looking,    \* upnLookupLoading
  ledger, loading, posting, \* ndcPaymentStatus, ndcPaymentStatusLoading, ndcPaymentPostingDueCode
  calls,
  typed,      \* history: the last edit of the group that is typed
  created,    \* history: the properties of the applications created by the last button
  crossed,    \* history: a lookup was under way when a group was made
  mixed,      \* history: a posting was under way when another property was chosen
  losses, clicks

form == <<objects, data, known, looking>>
dues == <<ledger, loading, posting>>
vars == <<settled, linked, profile, form, dues, calls, typed, created, crossed, mixed, losses,
          clicks>>

Group == {"property", "purpose", "applicant"}

\* What a group holds: the property's number and the property its details are of,
\* an edit, or a version of the profile.
Property(u, of) == [upn |-> u, of |-> of]
Content(d, g) == objects[d[g]]
ChosenUpn == IF data["property"] = 0 THEN None ELSE Content(data, "property").upn

Call(kind, at) == [kind |-> kind, at |-> at, data |-> None, answer |-> None, refused |-> FALSE]

Init ==
  /\ settled \in SUBSET Upn /\ linked = Listed /\ profile = 1
  /\ objects = <<1>> /\ data = [g \in Group |-> IF g = "applicant" THEN 1 ELSE 0]
  /\ known = Listed /\ looking = FALSE
  /\ ledger = None /\ loading = FALSE /\ posting = FALSE
  /\ calls = {} /\ typed = 0 /\ created = {} /\ crossed = {} /\ mixed = FALSE
  /\ losses = 0 /\ clicks = 0

Click == clicks < MaxClicks /\ clicks' = clicks + 1
Looked == {c \in calls : c.kind = "lookup"}
Asked == {c \in calls : c.kind \in {"lookup", "post", "profile"}}

(***************************************************************************)
(* How the form is written.                                                *)
(***************************************************************************)
\* setNested into a copy of d: the group's object is written in place, so that
\* every other copy sees it, or made.
Written(d, g, content) ==
  IF d[g] = 0
  THEN /\ objects' = Append(objects, content) /\ data' = [d EXCEPT ![g] = Len(objects) + 1]
  ELSE /\ objects' = [objects EXCEPT ![d[g]] = content] /\ data' = d

\* Into a copy of d with an object of its own for the group.
Copied(d, g, content) ==
  /\ objects' = Append(objects, content) /\ data' = [d EXCEPT ![g] = Len(objects) + 1]

Write(d, g, content) == Written(d, g, content)

\* A group that is made while a lookup holds an older copy.
Crossing(g) == crossed' = IF Looked # {} THEN crossed \cup {g} ELSE crossed

(***************************************************************************)
(* The payments: an effect on property.upn.                                *)
(***************************************************************************)
\* The cleanup of the effect.
Stopped(cs) == {c \in cs : c.kind # "status"}

\* Runs again for the property chosen now, among the calls cs.
Refetch(u, cs) ==
  /\ loading' = (u # None) /\ ledger' = (IF u = None THEN None ELSE ledger)
  /\ calls' = Stopped(cs) \cup (IF u = None THEN {} ELSE {Call("status", u)})
  /\ mixed' = (mixed \/ posting)

Effect(cs) ==
  IF ChosenUpn' = ChosenUpn THEN calls' = cs /\ UNCHANGED <<ledger, loading, mixed>>
  ELSE Refetch(ChosenUpn', cs)

(***************************************************************************)
(* The citizen.                                                            *)
(***************************************************************************)
\* updateField of any editable field of the form's own.
Type ==
  /\ typed < MaxEdits /\ typed' = typed + 1
  /\ Write(data, "purpose", typed')
  /\ IF data["purpose"] = 0 THEN Crossing("purpose") ELSE UNCHANGED crossed
  /\ UNCHANGED <<settled, linked, profile, known, looking, dues, calls, created, mixed, losses,
                 clicks>>

\* updateField of the number: what is beside it stays.
TypeUpn(u) ==
  /\ u # ChosenUpn /\ Click
  /\ Write(data, "property",
           Property(u, IF data["property"] = 0 THEN None ELSE Content(data, "property").of))
  /\ Effect(calls)
  /\ UNCHANGED <<settled, linked, profile, known, looking, posting, typed, created, crossed, losses>>

\* handleUpnSelect
SelectUpn(u) ==
  /\ u \in known /\ u # ChosenUpn /\ Click
  /\ Write(data, "property", Property(u, u)) /\ Effect(calls)
  /\ UNCHANGED <<settled, linked, profile, known, looking, posting, typed, created, crossed, losses>>

\* handleUpnLookup, from the button, or with Enter where the property is not
\* known, though another lookup is under way.
Lookup ==
  /\ ChosenUpn # None /\ (looking => ChosenUpn \notin known)
  /\ Click /\ Cardinality(Asked) < MaxCalls
  /\ calls' = calls \cup {[Call("lookup", ChosenUpn) EXCEPT !.data = data]}
  /\ looking' = TRUE
  /\ UNCHANGED <<settled, linked, profile, objects, data, known, dues, typed, created, crossed, mixed,
                 losses>>

\* postNdcPaymentByUpn
Pay ==
  /\ ledger # None /\ ~ledger.settled /\ ~posting /\ ChosenUpn # None
  /\ Click /\ Cardinality(Asked) < MaxCalls
  /\ posting' = TRUE /\ calls' = calls \cup {Call("post", ChosenUpn)}
  /\ mixed' = (mixed \/ loading)
  /\ UNCHANGED <<settled, linked, profile, form, ledger, loading, typed, created, crossed, losses>>

\* ndcFormProps and createApplication: the last button of the form.
MayCreate == ChosenUpn # None /\ ~loading /\ ledger # None /\ ledger.settled

Create ==
  /\ MayCreate /\ ChosenUpn \notin created /\ created' = created \cup {ChosenUpn}
  /\ UNCHANGED <<settled, linked, profile, form, dues, calls, typed, crossed, mixed, losses,
                 clicks>>

\* loadProfile, whose answer is merged into the form.
ChangeProfile ==
  /\ Click /\ Cardinality(Asked) < MaxCalls /\ profile' = profile + 1
  /\ calls' = calls \cup {Call("profile", None)}
  /\ UNCHANGED <<settled, linked, form, dues, typed, created, crossed, mixed, losses>>

(***************************************************************************)
(* The server, and what the form does with its answers.                    *)
(***************************************************************************)
Answered(c) ==
  CASE c.kind \in {"status", "post"} -> [upn |-> c.at, settled |-> c.at \in settled']
    [] c.kind = "profile" -> profile
    [] c.kind = "properties" -> linked
    [] OTHER -> c.at

\* Payments are shown and taken for the citizen's own properties only.
Refused(c) == c.kind \in {"status", "post"} /\ c.at \notin linked

\* A lookup links what it finds.
Serve(c) ==
  /\ c.answer = None
  /\ settled' = (IF c.kind = "post" /\ ~Refused(c) THEN settled \cup {c.at} ELSE settled)
  /\ linked' = (IF c.kind = "lookup" THEN linked \cup {c.at} ELSE linked)
  /\ calls' = (calls \ {c}) \cup {[c EXCEPT !.answer = Answered(c), !.refused = Refused(c)]}
  /\ UNCHANGED <<profile, form, dues, typed, created, crossed, mixed, losses, clicks>>

\* The form of when the lookup began, with the property filled in; the
\* citizen's properties are loaded again.
AnswerLookup(c, lost) ==
  /\ c.kind = "lookup" /\ looking' = FALSE
  /\ IF lost THEN calls' = calls \ {c} /\ UNCHANGED <<objects, data, known, ledger, loading, mixed>>
     ELSE /\ Write(c.data, "property", Property(c.at, c.at))
          /\ known' = known \cup {c.at} /\ Effect((calls \ {c}) \cup {Call("properties", None)})
  /\ UNCHANGED <<posting, crossed>>

\* Of which the effect depends too.
AnswerProperties(c, lost) ==
  /\ c.kind = "properties"
  /\ IF lost THEN calls' = calls \ {c} /\ UNCHANGED <<known, ledger, loading, mixed>>
     ELSE known' = known \cup c.answer /\ Refetch(ChosenUpn, calls \ {c})
  /\ UNCHANGED <<objects, data, looking, posting, crossed>>

AnswerStatus(c, lost) ==
  /\ c.kind = "status" /\ calls' = calls \ {c}
  /\ ledger' = (IF lost THEN None ELSE c.answer) /\ loading' = FALSE
  /\ UNCHANGED <<form, posting, crossed, mixed>>

AnswerPost(c, lost) ==
  /\ c.kind = "post" /\ calls' = calls \ {c}
  /\ ledger' = (IF lost THEN ledger ELSE c.answer) /\ posting' = FALSE
  /\ UNCHANGED <<form, loading, crossed, mixed>>

\* setFormData(prev => ...): a new object for the applicant, the others as they are.
AnswerProfile(c, lost) ==
  /\ c.kind = "profile" /\ calls' = calls \ {c}
  /\ IF lost THEN UNCHANGED <<objects, data>> ELSE Copied(data, "applicant", c.answer)
  /\ Crossing("applicant") /\ UNCHANGED <<known, looking, dues, mixed>>

Handle(c, lost) ==
  /\ \/ AnswerLookup(c, lost) \/ AnswerStatus(c, lost) \/ AnswerPost(c, lost)
     \/ AnswerProfile(c, lost) \/ AnswerProperties(c, lost)
  /\ UNCHANGED <<settled, linked, profile, typed, created, clicks>>

Answer(c) == c.answer # None /\ Handle(c, c.refused) /\ UNCHANGED losses
Lose(c) == losses < MaxLosses /\ losses' = losses + 1 /\ Handle(c, TRUE)

Next ==
  \/ Type \/ Lookup \/ Pay \/ Create \/ ChangeProfile
  \/ \E u \in Upn : TypeUpn(u) \/ SelectUpn(u)
  \/ \E c \in calls : Serve(c) \/ Answer(c) \/ Lose(c)

Spec == Init /\ [][Next]_vars

(***************************************************************************)
(* Properties.                                                             *)
(***************************************************************************)
TypeOK ==
  /\ data \in [Group -> 0 .. Len(objects)] /\ known \subseteq Upn /\ settled \subseteq Upn
  /\ ledger # None => ledger.upn \in Upn
  /\ created \subseteq Upn /\ crossed \subseteq Group /\ typed \in 0 .. MaxEdits

\* What was typed is in the form, although a lookup that answers later puts
\* back the form of when it began (form-renderer.tsx:287), unless the group it
\* was typed in was made in the meantime.
KeepsWhatWasTyped ==
  typed # 0 /\ "purpose" \notin crossed =>
    data["purpose"] # 0 /\ Content(data, "purpose") = typed

\* The button that creates the application is there only for a property whose
\* dues are paid (App.tsx:2147), whichever was chosen before and whichever
\* answers are late, unless a posting overlapped the choice of another.
CreatedWhenSettled == ~mixed => created \subseteq settled
=============================================================================
