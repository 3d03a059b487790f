----------------------------- MODULE MCClients -----------------------------
(* The two browser applications, side by side: the citizen's               *)
(* (CitizenClient) and the officer's (OfficerClient), and the pages of     *)
(* both about complaints (ComplaintPages).  They meet only in the API, so  *)
(* a behaviour is one of one of them, as "beside" says.  One edit in the   *)
(* citizen's browser and one in another session; two applications of two   *)
(* stages in the officer's inbox.                                          *)
EXTENDS CitizenClient

CONSTANTS Arn, Stages, Doc, Me, Colleague, MaxTasks, MaxLosses, MaxOpened,
          Filter, Earlier, MaxFiled

VARIABLES
  beside,
  task, shown, selected, application, fromSearch, list, inbox, preview, acting, visited,
  asked, mixed, overtaken, lost, opened,
  filed, filter, listed, loading, subView, sheet, text, filing, chosen, photographing,
  picked, opening, newStatus, changing, previewed, fetches, retried, crossed, losses, clicked

ASSUME PagesAssumption ==
  /\ MaxRows \in Nat /\ MaxFiled \in Nat /\ Earlier \in Nat
  /\ None \notin [outcome : {"ok", "conflict", "error"}, row : Row]

O == INSTANCE OfficerClient WITH Other <- Colleague, MaxCalls <- MaxTasks,
       MaxFaults <- MaxLosses, MaxClicks <- MaxOpened,
       view <- shown, cache <- inbox, calls <- asked, faults <- lost, clicks <- opened

P == INSTANCE ComplaintPages WITH MaxCalls <- MaxTasks, MaxClicks <- MaxOpened,
       form <- sheet, selected <- chosen, acting <- changing,
       calls <- fetches, mixed <- crossed, clicks <- clicked

officerVars == <<task, shown, selected, application, fromSearch, list, inbox, preview, acting,
                 visited, asked, mixed, overtaken, lost, opened>>
pageVars == <<filed, filter, listed, loading, subView, sheet, text, filing, chosen,
              photographing, picked, opening, newStatus, changing, previewed, fetches, retried,
              crossed, losses, clicked>>
clientVars == <<vars, officerVars, pageVars, beside>>

\* Those that stay start in one of their initial states.
MCInit ==
  /\ Init /\ O!Init /\ P!Init
  /\ beside \in {"citizen", "officer", "complaints"}
  /\ beside # "complaints" => filter = [p \in P!Page |-> CHOOSE f \in Filter : TRUE]

Citizen(A) == beside = "citizen" /\ A /\ UNCHANGED <<officerVars, pageVars, beside>>
Officer(A) == beside = "officer" /\ A /\ UNCHANGED <<vars, pageVars, beside>>
Complaints(A) == beside = "complaints" /\ A /\ UNCHANGED <<vars, officerVars, beside>>

MCNext ==
  \/ Citizen(StartApplication) \/ Citizen(ClickSave) \/ Citizen(ClickCreate)
  \/ Citizen(ClickSubmit) \/ Citizen(ClickReload) \/ Citizen(ReloadOffline)
  \/ Citizen(KeepForm) \/ Citizen(Leave) \/ Citizen(Revisit)
  \/ Citizen(GoOffline) \/ Citizen(GoOnline)
  \/ \E e \in Edit : Citizen(Type(e))
  \/ \E c \in calls : Citizen(Serve(c)) \/ Citizen(Answer(c)) \/ Citizen(Lose(c))
  \/ \E i \in DOMAIN rows :
       \/ Citizen(OpenApplication(i)) \/ Citizen(OtherSubmit(i))
       \/ \E o \in Other : Citizen(OtherSave(i, o))
  \/ \E t \in O!Task : Officer(O!ClickTask(t)) \/ Officer(O!OtherOfficer(t))
  \/ \E a \in Arn : Officer(O!ClickFound(a))
  \/ \E v \in {"inbox", "search"} : Officer(O!GoTo(v))
  \/ Officer(O!JumpToTask) \/ Officer(O!Reload) \/ Officer(O!ClickAct) \/ Officer(O!ClosePreview)
  \/ \E d \in Doc : Officer(O!ClickPreview(d))
  \/ \E c \in asked : Officer(O!Serve(c)) \/ Officer(O!Answer(c)) \/ Officer(O!Lose(c))
  \/ Complaints(P!Next)

\* CitizenClient's Fairness, where it is the citizen's client that moves.
MCFairness ==
  /\ \A k \in {"put", "post", "load", "open", "reload", "submit"} :
       /\ WF_clientVars(\E c \in calls : c.kind = k /\ Citizen(Serve(c)))
       /\ WF_clientVars(\E c \in calls : c.kind = k /\ Citizen(Answer(c)))
  /\ WF_clientVars(Citizen(GoOnline)) /\ WF_clientVars(dirty /\ ~Saving /\ Citizen(ClickSave))
  /\ SF_clientVars(Citizen(ClickReload))

MCSpec == MCInit /\ [][MCNext]_clientVars /\ MCFairness

\* What a page shows belongs together: task and application (OfficerClient),
\* a complaint and what is chosen for it (ComplaintPages).
ShowsWhatItNames == O!ShowsWhatItNames /\ P!ShowsWhatItNames

\* No complaint is filed twice; stated in ComplaintPages.
FiledOnce == P!FiledOnce
=============================================================================
