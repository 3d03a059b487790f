---------------------------- MODULE ProfilePage ----------------------------
(***************************************************************************)
(* The citizen's profile in the browser: the wizard that verifies cards    *)
(* and completes the profile (Onboarding.tsx), the summary, the editor of  *)
(* personal details beside a form, and the copies App.tsx keeps of what it *)
(* last fetched.  Every request is served and answered in steps of its     *)
(* own, in any order, or is lost; on the server it is one step here, and   *)
(* the patches it consists of are in CitizenProfile.                       *)
(*                                                                         *)
(* "name" stands for all that an Aadhaar card brings besides the address,  *)
(* "contact" for what only the citizen knows; a value is 0, from a card,   *)
(* or the number of the edit that typed it.  The steps of the wizard are   *)
(* one page; its field checks and the OTP are left out.                    *)
(***************************************************************************)
EXTENDS Naturals, FiniteSets

CONSTANTS
  MaxCalls,  \* bound on the calls under way
  MaxLosses, \* bound on lost calls
  MaxEdits,  \* bound on what the citizen types
  MaxClicks, \* bound on what he starts
  None       \* absent

VARIABLES
  row, cards,           \* server: the fields, and the cards verified
  profile, verification, known, \* the copies of App; known once loaded
  view,                 \* other, profile (wizard or summary), editor
  draft, verified, touched, \* what is edited, the wizard's verification, fields typed
  saving, verifying,
  calls,
  mixed,                \* history: requests overlapped, failed or were walked away from
  reverted,             \* history: fields saved back that nobody had typed
  edits, losses, clicks

app == <<profile, verification, known>>
editing == <<draft, verified, touched>>
vars == <<row, cards, app, view, editing, saving, verifying, calls, mixed, reverted, edits,
          losses, clicks>>

Field == {"name", "pan", "contact", "address"}
CardKind == {"aadhaar", "pan"}

\* What the verification of a card writes (see CitizenProfile).
Brings(k) == IF k = "aadhaar" THEN {"name", "address"} ELSE {"pan"}

Empty == [f \in Field |-> None]
Call(kind, fields) ==
  [kind |-> kind, fields |-> fields, row |-> draft, typed |-> touched,
   answer |-> None, cards |-> {}]

Init ==
  /\ row = Empty /\ cards = {}
  /\ profile = Empty /\ verification = {} /\ known = FALSE /\ view = "other"
  /\ draft = Empty /\ verified = {} /\ touched = {}
  /\ saving = FALSE /\ verifying = {}
  /\ calls = {Call("load", {})}
  /\ mixed = FALSE /\ reverted = {} /\ edits = 0 /\ losses = 0 /\ clicks = 0

Click == clicks < MaxClicks /\ clicks' = clicks + 1

\* A request while another is under way.
Ask(kind, fields) ==
  /\ Cardinality(calls) < MaxCalls /\ calls' = calls \cup {Call(kind, fields)}
  /\ mixed' = (mixed \/ calls # {})

\* loadProfile, again when an application is opened or the browser is online.
Load ==
  /\ view = "other" /\ Click /\ Ask("load", {})
  /\ UNCHANGED <<row, cards, app, view, editing, saving, verifying, reverted, edits, losses>>

\* The profile view is the summary as soon as there is anything to show.
HasProfileData(p) == p["name"] # None \/ p["contact"] # None
Wizard == view = "profile" /\ ~HasProfileData(profile)

\* The wizard starts with App's copies and keeps its own from then on.
OpenProfile ==
  /\ view = "other" /\ Click /\ view' = "profile"
  /\ draft' = profile /\ verified' = verification /\ touched' = {}
  /\ UNCHANGED <<row, cards, app, saving, verifying, calls, mixed, reverted, edits, losses>>

\* Leaving, or "Skip for now": what the wizard was told, App was not.
Skip ==
  /\ view = "profile" /\ view' = "other" /\ verifying' = {} /\ saving' = FALSE
  /\ mixed' = (mixed \/ verified # verification \/ calls # {})
  /\ UNCHANGED <<row, cards, app, editing, calls, reverted, edits, losses, clicks>>

\* onReVerifyAadhaar, onReVerifyPan: the badge goes, the summary stays.
ReVerify(k) ==
  /\ view = "profile" /\ ~Wizard /\ k \in verification /\ Click
  /\ verification' = verification \ {k}
  /\ UNCHANGED <<row, cards, profile, known, view, editing, saving, verifying, calls, mixed,
                 reverted, edits, losses>>

\* The first two steps: verifyAadhaar, verifyPan.
Verify(k) ==
  /\ Wizard /\ k \notin verified \cup verifying /\ Click
  /\ verifying' = verifying \cup {k} /\ Ask(k, Brings(k))
  /\ UNCHANGED <<row, cards, app, view, editing, saving, reverted, edits, losses>>

\* The last two: the address of a verified card is read only.
Typeable ==
  CASE Wizard -> {"contact"} \cup (IF "aadhaar" \in verified THEN {} ELSE {"address"})
    [] view = "editor" -> {"name", "pan", "contact"}
    [] OTHER -> {}

Type(f) ==
  /\ f \in Typeable /\ edits < MaxEdits /\ edits' = edits + 1
  /\ draft' = [draft EXCEPT ![f] = edits'] /\ touched' = touched \cup {f}
  /\ UNCHANGED <<row, cards, app, view, verified, saving, verifying, calls, mixed, reverted,
                 losses, clicks>>

\* completeOnboarding
Complete ==
  /\ Wizard /\ ~saving /\ draft["contact"] # None /\ draft["address"] # None /\ Click
  /\ saving' = TRUE /\ Ask("complete", {"contact", "address"})
  /\ UNCHANGED <<row, cards, app, view, editing, verifying, reverted, edits, losses>>

\* openProfileEditor and saveProfileDraft: all of its fields, typed or not.
OpenEditor ==
  /\ view = "other" /\ known /\ Click /\ view' = "editor" /\ draft' = profile /\ touched' = {}
  /\ UNCHANGED <<row, cards, app, verified, saving, verifying, calls, mixed, reverted, edits,
                 losses>>

CloseEditor ==
  /\ view = "editor" /\ ~saving /\ view' = "other"
  /\ UNCHANGED <<row, cards, app, editing, saving, verifying, calls, mixed, reverted, edits,
                 losses, clicks>>

Save ==
  /\ view = "editor" /\ ~saving /\ Click
  /\ saving' = TRUE /\ Ask("save", {"name", "pan", "contact"})
  /\ UNCHANGED <<row, cards, app, view, editing, verifying, reverted, edits, losses>>

(***************************************************************************)
(* The server, and what the pages do with its answers.                     *)
(***************************************************************************)
Patch(c) ==
  [f \in Field |-> IF f \notin c.fields THEN row[f]
                   ELSE IF c.kind \in CardKind THEN 0 ELSE c.row[f]]

Serve(c) ==
  /\ c.answer = None /\ row' = Patch(c)
  /\ cards' = cards \cup ({c.kind} \cap CardKind)
  /\ reverted' = IF c.kind \in {"complete", "save"}
                 THEN reverted \cup {f \in c.fields \ c.typed : row'[f] # row[f]} ELSE reverted
  /\ calls' = (calls \ {c}) \cup {[c EXCEPT !.answer = row', !.cards = cards']}
  /\ UNCHANGED <<app, view, editing, saving, verifying, mixed, edits, losses, clicks>>

\* App's copies change under a page that is being edited.
Disturbs == mixed' = (mixed \/ view # "other")

AnswerLoad(c) ==
  /\ c.kind = "load" /\ profile' = c.answer /\ verification' = c.cards /\ known' = TRUE
  /\ Disturbs /\ UNCHANGED <<view, editing, saving, verifying>>

\* The wizard keeps what the card brought, if it is still there.
AnswerVerify(c) ==
  /\ c.kind \in CardKind /\ verifying' = verifying \ {c.kind}
  /\ IF Wizard
     THEN /\ draft' = [f \in Field |-> IF f \in c.fields THEN c.answer[f] ELSE draft[f]]
          /\ verified' = c.cards /\ touched' = touched \ c.fields
     ELSE UNCHANGED editing
  /\ mixed' = (mixed \/ ~Wizard) /\ UNCHANGED <<app, view, saving>>

\* onComplete goes on to the catalog.
AnswerComplete(c) ==
  /\ c.kind = "complete" /\ profile' = c.answer /\ verification' = c.cards /\ known' = TRUE
  /\ mixed' = (mixed \/ ~Wizard)
  /\ view' = "other" /\ saving' = FALSE /\ UNCHANGED <<editing, verifying>>

\* Fault: App keeps the copy the editor was opened with.
KeptAsOpened(c) == profile

\* The addresses are not taken over.
Saved(c) == [c.answer EXCEPT !["address"] = profile["address"]]

AnswerSave(c) ==
  /\ c.kind = "save" /\ profile' = Saved(c) /\ view' = "other" /\ saving' = FALSE
  /\ UNCHANGED <<verification, known, editing, verifying, mixed>>

Answer(c) ==
  /\ c.answer # None /\ calls' = calls \ {c}
  /\ AnswerLoad(c) \/ AnswerVerify(c) \/ AnswerComplete(c) \/ AnswerSave(c)
  /\ UNCHANGED <<row, cards, reverted, edits, losses, clicks>>

\* The page says so and stays; App's copies come from the cache, which holds
\* what was answered last.
Lose(c) ==
  /\ losses < MaxLosses /\ losses' = losses + 1 /\ calls' = calls \ {c}
  /\ verifying' = verifying \ {c.kind}
  /\ saving' = (saving /\ c.kind \notin {"complete", "save"}) /\ mixed' = TRUE
  /\ UNCHANGED <<row, cards, app, view, editing, reverted, edits, clicks>>

Next ==
  \/ Load \/ OpenProfile \/ Skip \/ Complete \/ OpenEditor \/ CloseEditor \/ Save
  \/ \E k \in CardKind : Verify(k) \/ ReVerify(k)
  \/ \E f \in Field : Type(f)
  \/ \E c \in calls : Serve(c) \/ Answer(c) \/ Lose(c)

Spec == Init /\ [][Next]_vars

(***************************************************************************)
(* Properties.                                                             *)
(***************************************************************************)
TypeOK ==
  /\ row \in [Field -> {None} \cup 0 .. MaxEdits] /\ cards \subseteq CardKind
  /\ DOMAIN profile = Field /\ verification \subseteq CardKind /\ verified \subseteq CardKind
  /\ view \in {"other", "profile", "editor"} /\ touched \subseteq Field /\ verifying \subseteq CardKind

\* The editor sends every field it has, from copies made when it was opened
\* (App.tsx:1346): a save changes no field that was not typed, where no two
\* requests overlapped or were lost and no verification was walked away from.
SavesWhatWasTyped == reverted # {} => mixed
=============================================================================
