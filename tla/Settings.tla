--------------------------------- MODULE Settings ---------------------------------
(***************************************************************************)
(* The row of one organization: its columns and the JSON document that     *)
(* holds the answers of onboarding and the sections of its settings        *)
(* (saveOnboardingStep, completeOnboarding, updateSection and              *)
(* updateOrganization in                                                   *)
(* src/src/modules/organizations/organizations.service.ts).  Every handler *)
(* reads the document, adds its part and writes it whole; a transaction at *)
(* READ COMMITTED keeps no other from doing the same meanwhile.  Of the    *)
(* values only the two that name the currency matter; the others are       *)
(* "saved".                                                                *)
(***************************************************************************)
EXTENDS Requests

CONSTANTS
  Currencies,
  Sections      \* sections of the settings that are changed

STEP_ORDER == <<"business", "financial", "structure", "tax", "team">>
Steps == {STEP_ORDER[i] : i \in DOMAIN STEP_ORDER}

SettingsAssumption ==
  Sections \subseteq {"profile", "branches", "currencies", "security", "integrations", "preferences"}

VARIABLES
  data,       \* onboardingData: saved parts, from step or section to value
  org         \* [currency, step, completed], the columns

rowVars == <<data, org>>
vars == <<rowVars, requestVars>>

Init ==
  /\ data = << >>
  /\ \E c \in Currencies : org = [currency |-> c, step |-> 0, completed |-> FALSE]
  /\ NoRequests

With_Only(part, value, d) == [p \in {part} |-> value]
With(part, value, d) == [p \in {part} \union DOMAIN d |-> IF p = part THEN value ELSE d[p]]

ValuesOf(part) == IF part \in {"financial", "currencies"} THEN Currencies ELSE {"saved"}

Larger(m, n) == IF m > n THEN m ELSE n
Place(step) == CHOOSE i \in DOMAIN STEP_ORDER : STEP_ORDER[i] = step

(* A step of onboarding, and a section: what was read stays in job.         *)
SaveRead(w, part, value) ==
  /\ Idle(w)
  /\ Turn(w, "saving", [part |-> part, value |-> value, read |-> data, step |-> org.step])
  /\ UNCHANGED rowVars

StepCommit(w) ==
  /\ At(w, "saving") /\ job[w].part \in Steps
  /\ data' = With(job[w].part, job[w].value, job[w].read)
  /\ org' = [org EXCEPT !.step = Larger(job[w].step, Place(job[w].part)),
                        !.currency = IF job[w].part = "financial" THEN job[w].value ELSE @]
  /\ Done(w)

SectionCommit(w) ==
  /\ At(w, "saving") /\ job[w].part \in Sections
  /\ data' = With(job[w].part, job[w].value, job[w].read)
  /\ org' = [org EXCEPT !.currency = IF job[w].part = "currencies" THEN job[w].value ELSE @]
  /\ Done(w)

Missing_Any == {}
Missing == Steps \ DOMAIN data

CompleteRead(w) ==
  /\ Idle(w) /\ Missing = {}
  /\ Turn(w, "completing", None)
  /\ UNCHANGED rowVars

CompleteCommit(w) ==
  /\ At(w, "completing")
  /\ org' = [org EXCEPT !.step = Len(STEP_ORDER), !.completed = TRUE]
  /\ Done(w)
  /\ UNCHANGED data

(* The columns alone; of interest when the currency is among them, which    *)
(* must be the one just read.                                               *)
UpdateRead(w) ==
  /\ Idle(w)
  /\ Turn(w, "updating", [currency |-> org.currency])
  /\ UNCHANGED rowVars

UpdateCommit(w) ==
  /\ At(w, "updating")
  /\ org' = [org EXCEPT !.currency = job[w].currency]
  /\ Done(w)
  /\ UNCHANGED data

Abort(w) == GiveUp(w) /\ UNCHANGED rowVars

Next ==
  \E w \in Workers :
    \/ \E part \in Steps \union Sections : \E value \in ValuesOf(part) : SaveRead(w, part, value)
    \/ StepCommit(w) \/ SectionCommit(w)
    \/ CompleteRead(w) \/ CompleteCommit(w) \/ UpdateRead(w) \/ UpdateCommit(w) \/ Abort(w)

Spec == Init /\ [][Next]_vars

--------------------------------------------------------------------------------
(* Properties. *)

(* Onboarding is complete only with all its steps answered, then and ever   *)
(* after (completeOnboarding, and whoever writes the document later).       *)
CompletedHasAll == org.completed => Steps \subseteq DOMAIN data

(* Who saves one part keeps all others: a step is merged (updateSection,    *)
(* saveOnboardingStep).                                                     *)
PartsKept == DOMAIN data \subseteq DOMAIN data'
================================================================================
