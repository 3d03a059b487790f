--------------------------- MODULE CitizenProfile ---------------------------
(***************************************************************************)
(* A citizen's profile (profile.ts, profile.routes.ts): one JSON document  *)
(* of the user row whose sections are changed by requests of several tabs  *)
(* at once.  A request is a sequence of section patches, each an UPDATE of *)
(* its own that merges what it carries; a request that fails or dies       *)
(* leaves the patches already made.                                        *)
(*                                                                         *)
(* A card stands for all that one Aadhaar number brings, "typed" for       *)
(* whatever the citizen enters.  Completeness, completion percentages and  *)
(* preferences that nothing else reads are left out, so is the OTP, which  *)
(* the adapter alone checks.                                               *)
(***************************************************************************)
EXTENDS Naturals, Sequences

CONSTANTS
  Request,   \* requests of one citizen
  Card,      \* Aadhaar cards the eKYC service answers for
  Pan,       \* PANs the registry knows
  Patches,   \* sets of fields a citizen's PATCH carries
  MaxWork,   \* bound on the requests begun
  None       \* absent

VARIABLES
  row,       \* profile_jsonb, flattened
  todo,      \* per request: the patches it has yet to make
  confirmed, \* history: cards and PANs the services confirmed
  typed,     \* history: fields a citizen's own patch has set
  work

vars == <<row, todo, confirmed, typed, work>>

Own == {"name", "aadhaar", "pan", "address", "theme"}
Field == Own \cup {"aadhaar_verified", "pan_verified", "onboarded"}

\* APPLICANT_ALLOWED_FIELDS, the permanent address, the preferences and what
\* a citizen may write of the verification section.
Section == <<{"name", "aadhaar", "pan"}, {"address"}, {"theme"}, {"onboarded"}>>

Init ==
  /\ row = [f \in Field |-> None]
  /\ todo = [r \in Request |-> << >>] /\ work = 0
  /\ confirmed = {} /\ typed = {}

Begin(r, patches) ==
  /\ todo[r] = << >> /\ work < MaxWork /\ work' = work + 1
  /\ todo' = [todo EXCEPT ![r] = patches]
  /\ UNCHANGED <<row, typed>>

\* A section that is not carried is not touched.
Carried(own) == IF own = {} THEN << >> ELSE <<[f \in own |-> "typed"]>>

\* PATCH /api/v1/profile/me
Patch(r, fields) ==
  /\ fields # {}
  /\ Begin(r, Carried(fields \cap Section[1]) \o Carried(fields \cap Section[2])
                 \o Carried(fields \cap Section[3]) \o Carried(fields \cap Section[4]))
  /\ UNCHANGED confirmed

\* Fault: the number is stored on its own, before what the card says.
NumberFirst(c) ==
  <<[f \in {"aadhaar"} |-> c], [f \in {"name"} |-> c], [f \in {"address"} |-> c],
    [f \in {"aadhaar_verified"} |-> "yes"]>>

\* POST /api/v1/profile/ekyc/aadhaar/verify, once the service has verified.
Demographics(c) ==
  <<[f \in {"name", "aadhaar"} |-> c], [f \in {"address"} |-> c],
    [f \in {"aadhaar_verified"} |-> "yes"]>>

VerifyAadhaar(r, c) ==
  Begin(r, Demographics(c)) /\ confirmed' = confirmed \cup {c}

\* POST /api/v1/profile/verify/pan; the name read before only gives a score.
VerifyPan(r, p) ==
  /\ Begin(r, <<[f \in {"pan"} |-> p], [f \in {"pan_verified"} |-> "yes"]>>)
  /\ confirmed' = confirmed \cup {p}

\* jsonb_set(..., COALESCE(section) || patch): what is not carried stays.
Merged(patch) == [f \in Field |-> IF f \in DOMAIN patch THEN patch[f] ELSE row[f]]

Write(r) ==
  /\ todo[r] # << >>
  /\ LET patch == Head(todo[r])
     IN /\ row' = Merged(patch)
        /\ typed' = (typed \ DOMAIN patch) \cup {f \in DOMAIN patch : patch[f] = "typed"}
  /\ todo' = [todo EXCEPT ![r] = Tail(@)]
  /\ UNCHANGED <<confirmed, work>>

\* A statement fails or the process dies: the rest is never made.
Fail(r) ==
  /\ todo[r] # << >> /\ todo' = [todo EXCEPT ![r] = << >>]
  /\ UNCHANGED <<row, confirmed, typed, work>>

Next ==
  \E r \in Request :
    \/ \E fields \in Patches : Patch(r, fields)
    \/ \E c \in Card : VerifyAadhaar(r, c)
    \/ \E p \in Pan : VerifyPan(r, p)
    \/ Write(r) \/ Fail(r)

Spec == Init /\ [][Next]_vars

(***************************************************************************)
(* Properties.                                                             *)
(***************************************************************************)
TypeOK ==
  /\ row \in [Field -> Card \cup Pan \cup {"typed", "yes", None}]
  /\ \A r \in Request : \A i \in DOMAIN todo[r] : DOMAIN todo[r][i] \subseteq Field
  /\ confirmed \subseteq Card \cup Pan /\ typed \subseteq Own \cup {"onboarded"}

\* The portal marks the fields of a verified citizen as taken from Aadhaar
\* (Onboarding.tsx:779): number and name are of one card that the service
\* confirmed, and a verified PAN is one the registry knows, whatever requests
\* interleave or die, unless the citizen's own patch wrote them last.
VerifiedAsConfirmed ==
  /\ row["aadhaar_verified"] = "yes" /\ typed \cap {"name", "aadhaar"} = {}
       => row["name"] = row["aadhaar"] /\ row["aadhaar"] \in confirmed
  /\ row["pan_verified"] = "yes" /\ "pan" \notin typed => row["pan"] \in confirmed
=============================================================================
