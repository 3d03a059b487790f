------------------------- MODULE MCApplicationDraft -------------------------
(* An application on both sides of the API, side by side: its row, which   *)
(* two sessions write (ApplicationDraft), the form it is created with      *)
(* (CreatePage) and the page it is answered and paid on (DetailPage).  A   *)
(* behaviour is one of one of them, as "beside" says.  The pages are never *)
(* mounted together and use the same names for what both keep.             *)
EXTENDS ApplicationDraft, TLC

CONSTANTS
  s1, s2, f1, f2,
  Upn, Listed,   \* CreatePage
  Arn            \* DetailPage

VARIABLES
  beside,
  ledger, loading, posting, calls, mixed, losses, clicks,
  settled, linked, profile, objects, data, known, looking, typed, created, crossed,
  rows, online, cache, current, detail, form, responding, paying, wrong, outdated, edits

C == INSTANCE CreatePage WITH MaxEdits <- 2, MaxCalls <- 2, MaxLosses <- 1, MaxClicks <- 4
D == INSTANCE DetailPage WITH App <- Arn, row <- rows,
       MaxEdits <- 1, MaxCalls <- 3, MaxLosses <- 1, MaxClicks <- 3

ASSUME PagesAssumption ==
  /\ Listed \subseteq Upn /\ None \notin Upn
  /\ None \notin [of : Arn, value : Nat, typed : BOOLEAN]

\* The first field is mandatory: 0 stands for a field left blank.
MCSubmittable == {d \in Data : d[f1] = 1}
MCSymmetry == Permutations(Session) \cup Permutations(Arn)

pageVars == <<ledger, loading, posting, calls, mixed, losses, clicks>>
createVars == <<settled, linked, profile, objects, data, known, looking, typed, created, crossed>>
detailVars == <<rows, online, cache, current, detail, form, responding, paying, wrong, outdated,
                edits>>
mcVars == <<vars, pageVars, createVars, detailVars, beside>>

\* Those that stay start in one of their initial states.
MCInit ==
  /\ Init /\ C!Init /\ D!Init
  /\ beside \in {"row", "create", "detail"}
  /\ beside # "create" => settled = {}
  /\ beside # "row" => \A a \in App, f \in Field : row[a].data[f] = 0

MCNext ==
  \/ beside = "row" /\ Next /\ UNCHANGED <<pageVars, createVars, detailVars, beside>>
  \/ beside = "create" /\ C!Next /\ UNCHANGED <<vars, detailVars, beside>>
  \/ beside = "detail" /\ D!Next /\ UNCHANGED <<vars, createVars, beside>>

MCSpec == MCInit /\ [][MCNext]_mcVars

\* A save that names its version overwrites only what its session had loaded,
\* and nothing overwrites what was submitted (ApplicationDraft).
NothingOverwritten == NoLostSave /\ SnapshotKept

\* What was typed is in the form (CreatePage), an answer carries what was
\* typed for the query shown, and nothing else (DetailPage).
FormsKeepWhatWasTyped == C!KeepsWhatWasTyped /\ D!AnswersAsShown

\* An application is created for a property whose dues are paid (CreatePage),
\* and the dues shown and paid are the application's (DetailPage).
PaymentsAsShown == C!CreatedWhenSettled /\ D!PaysAsShown
=============================================================================
