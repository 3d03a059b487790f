----------------------------- MODULE MCRecords -----------------------------
(* What a citizen leaves with the authority, side by side: the documents   *)
(* (DocumentLocker), the profile (CitizenProfile) and the properties       *)
(* (PropertyRegister) on the server, and the pages that show documents     *)
(* (LockerPage) and the profile (ProfilePage).  They share no state, so a  *)
(* behaviour is one of one of them, as "beside" says, and the others stay  *)
(* where they start.                                                       *)
(*                                                                         *)
(* The two requests upload files of different names, as two tabs do; no    *)
(* rule tells one request with its name from the other with its own.       *)
EXTENDS DocumentLocker, TLC

CONSTANTS
  r1, r2, plan, deed,
  Card, Pan, MaxProfile,   \* CitizenProfile
  Arn, Upn, MaxProperty,   \* PropertyRegister
  MaxFetches, MaxLosses    \* the pages

VARIABLES
  beside,
  profile, todo, confirmed, typed, sent,
  app, rows, linked, calls, named, missed, served,
  fetches, losses, clicks, loading,
  store, online, documents, failed, expanded, versions, unfolding, uploadingFor, pendingFile,
  uploading, preview, told, mixed,
  stored, cards, shown, verification, known, view, draft, verified, touched, saving, verifying,
  requests, overlapped, reverted, edits

Names == r1 :> plan @@ r2 :> deed
Symmetry == {p \in Permutations({r1, r2, plan, deed}) : p[r1] \in Request /\ p[r2] \in Request /\ Names[p[r1]] = p[plan]}

\* What a citizen's PATCH carries: one section, two, or all of them.
Patches == {{"name"}, {"aadhaar", "address"}, {"pan", "theme"},
            {"name", "aadhaar", "pan", "address", "theme", "onboarded"}}

\* The way to approval of the regularisation of a water connection.
Stages == <<"DRAFT", "PENDING_AT_CLERK", "PENDING_AT_SUPERINTENDENT", "APPROVED", "CLOSED">>

ASSUME StagesAssumption == \A i \in DOMAIN Stages : Stages[i] # None

ASSUME CardsAssumption == None \notin Card \cup Pan /\ None \notin {"typed", "yes"}

Profile == INSTANCE CitizenProfile WITH row <- profile, work <- sent, MaxWork <- MaxProfile
Register == INSTANCE PropertyRegister WITH req <- calls, work <- served, MaxWork <- MaxProperty
Documents == INSTANCE LockerPage WITH calls <- fetches, MaxCalls <- MaxFetches,
               MaxVersions <- 3, MaxClicks <- 4
Person == INSTANCE ProfilePage WITH row <- stored, profile <- shown, calls <- requests,
            mixed <- overlapped, MaxCalls <- MaxFetches, MaxEdits <- 2, MaxClicks <- 5

profileVars == <<profile, todo, confirmed, typed, sent>>
registerVars == <<app, rows, linked, calls, named, missed, served>>
documentVars == <<loading, store, online, documents, failed, expanded, versions, unfolding,
                  uploadingFor, pendingFile, uploading, preview, told, mixed, fetches>>
personVars == <<stored, cards, shown, verification, known, view, draft, verified, touched,
                saving, verifying, requests, overlapped, reverted, edits>>
pageVars == <<documentVars, personVars, losses, clicks>>

MCInit ==
  /\ Init /\ Profile!Init /\ Register!Init
  /\ Documents!Init /\ Person!Init
  /\ beside \in {"locker", "profile", "register", "documents", "person"}

Locker(A) == beside = "locker" /\ A /\ UNCHANGED <<profileVars, registerVars, pageVars, beside>>
OfProfile(A) == beside = "profile" /\ A /\ UNCHANGED <<vars, registerVars, pageVars, beside>>
OfRegister(A) == beside = "register" /\ A /\ UNCHANGED <<vars, profileVars, pageVars, beside>>
Page(p, A) == beside = p /\ A /\ UNCHANGED <<vars, profileVars, registerVars, beside>>

MCNext ==
  \/ \E r \in Request, t \in DocType :
       \/ \E a \in App \cup {None} : Locker(StartUpload(r, a, t))
       \/ \E a \in App : \/ Locker(IssueDocument(r, a, t))
                          \/ \E d \in DOMAIN locker : Locker(StartAttach(r, a, d, t))
  \/ \E r \in Request : Locker(Step(r))
  \/ \E a \in App : Locker(Submit(a)) \/ Locker(RaiseQuery(a))
  \/ \E o \in Officer : \/ \E l \in DOMAIN link : Locker(OpenDocument(o, l))
                        \/ \E s \in {"VERIFIED", "REJECTED"} : Locker(VerifyDocument(o, s))
  \/ \E r \in Request :
       \/ \E fields \in Patches : OfProfile(Profile!Patch(r, fields))
       \/ \E c \in Card : OfProfile(Profile!VerifyAadhaar(r, c))
       \/ \E p \in Pan : OfProfile(Profile!VerifyPan(r, p))
       \/ OfProfile(Profile!Write(r)) \/ OfProfile(Profile!Fail(r))
  \/ \E r \in Request :
       \/ \E u \in Upn : \/ OfRegister(Register!StartCheck(r, u))
                         \/ \E a \in Arn : OfRegister(Register!Create(r, a, u))
       \/ \E a \in Arn : OfRegister(Register!Submit(r, a))
       \/ OfRegister(Register!AnswerCheck(r)) \/ OfRegister(Register!Find(r))
       \/ OfRegister(Register!Insert(r)) \/ OfRegister(Register!Link(r))
       \/ OfRegister(Register!Commit(r)) \/ OfRegister(Register!Stop(r))
  \/ \E a \in Arn : \/ OfRegister(Register!Advance(a))
                    \/ \E u \in Upn : OfRegister(Register!Rename(a, u))
  \/ Page("documents", Documents!Next) /\ UNCHANGED personVars
  \/ Page("person", Person!Next) /\ UNCHANGED documentVars

MCSpec == MCInit /\ [][MCNext]_<<vars, profileVars, registerVars, pageVars, beside>>

\* The properties of the others, stated there.
VerifiedAsConfirmed == Profile!VerifiedAsConfirmed
SubmittedIsLinked == Register!SubmittedIsLinked
SavesWhatWasTyped == Person!SavesWhatWasTyped
DocumentsShownAsNamed == Documents!ShowsWhatItNames
=============================================================================
