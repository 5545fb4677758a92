------------------------------- MODULE WebApp -------------------------------
(***************************************************************************)
(* The web client (MainApp of main_app.dart) of the search service.        *)
(*                                                                         *)
(* Its user may search again while answers are outstanding; the answers    *)
(* arrive in any order, and instead of one an error of the transport or    *)
(* something that is not an answer of the service may arrive.  The loading *)
(* indicator is toggled, never set.                                        *)
(***************************************************************************)
EXTENDS SearchService

CONSTANT Forms  \* what the user fills in: sets of Fields

ASSUME FormsAssumption == Forms \subseteq SUBSET Fields

VARIABLES
    indicator,   \* whether the loading indicator is to be seen
    lastError,   \* the search whose error is shown, or 0
    resultList,  \* the search whose results are shown, or 0
    patient      \* whether the user waited for every answer so far

pageVars == <<indicator, lastError, resultList, patient>>
appVars == <<serviceVars, pageVars>>

AppInit ==
    /\ SearchInit
    /\ indicator = FALSE
    /\ lastError = 0
    /\ resultList = 0
    /\ patient = TRUE

Outstanding == {s \in Searches : search[s] \in {"called", "queried", "answered", "lost"}}

-----------------------------------------------------------------------------
(* Coordinates alone are looked up, everything else is searched for. *)
CurrentRequest(form) ==
    [resource |-> IF Coordinates \subseteq form /\ form \cap Terms = {}
                     THEN "reverse" ELSE "geocode",
     fields |-> form]

toggleLoadingIndicator == indicator' = ~indicator

(* Searches are made one after the other. *)
triggerSearch(form) ==
    \E s \in Searches :
        /\ \A t \in 1..(s - 1) : search[t] # "new"
        /\ Request(s, CurrentRequest(form))
        /\ toggleLoadingIndicator
        /\ patient' = (patient /\ Outstanding = {})
        /\ UNCHANGED <<lastError, resultList>>

(* The objects of a search are dropped with its end. *)
Ends(s, how) ==
    /\ search' = [search EXCEPT ![s] = how]
    /\ request' = [request EXCEPT ![s] = NoRequest]
    /\ hits' = [hits EXCEPT ![s] = Partial]
    /\ answer' = [answer EXCEPT ![s] = NoAnswer]
    /\ quiet' = [quiet EXCEPT ![s] = TRUE]
    /\ UNCHANGED <<vars, patient>>

(* Mutant of handleGeocodeResponse: a misuse is only told. *)
handleGeocodeResponseEarly(s) ==
    /\ search[s] = "answered"
    /\ Ends(s, "shown")
    /\ IF answer[s].code > SUCCESS
          THEN lastError' = s /\ UNCHANGED <<resultList, indicator>>
          ELSE lastError' = 0 /\ resultList' = s /\ toggleLoadingIndicator

(* An answer replaces error and results, whichever search they were of. *)
handleGeocodeResponse(s) ==
    /\ search[s] = "answered"
    /\ Ends(s, "shown")
    /\ lastError' = IF answer[s].code > SUCCESS THEN s ELSE 0
    /\ resultList' = s
    /\ toggleLoadingIndicator

(* What is not an answer of the service makes the handler throw. *)
handleGarbledResponse(s) ==
    /\ search[s] = "answered"
    /\ Ends(s, "garbled")
    /\ lastError' = 0
    /\ resultList' = 0
    /\ UNCHANGED indicator

(* Mutant of handleGeocodeError: the error is only logged. *)
handleGeocodeErrorSilently(s) ==
    /\ s \in Outstanding
    /\ Ends(s, "shown")
    /\ toggleLoadingIndicator
    /\ UNCHANGED <<lastError, resultList>>

(* An error of the transport leaves the results of an earlier search. *)
handleGeocodeError(s) ==
    /\ s \in Outstanding
    /\ Ends(s, "shown")
    /\ lastError' = s
    /\ toggleLoadingIndicator
    /\ UNCHANGED resultList

AppNext ==
    \/ ServiceNext /\ UNCHANGED pageVars
    \/ \E form \in Forms : triggerSearch(form)
    \/ \E s \in Searches :
        handleGeocodeResponse(s) \/ handleGarbledResponse(s) \/ handleGeocodeError(s)

(* The container runs every call of refreshBevData() that was started. *)
AppSpec ==
    /\ AppInit /\ [][AppNext]_appVars
    /\ \A c \in Calls : WF_vars(CallStep(c))

-----------------------------------------------------------------------------
(* Properties *)

(* Every variable has its type; an answer is there for every search that     *)
(* was shown or waits to be, unless the transport failed.                   *)
AppTypeOK ==
    /\ TypeOK
    /\ request \in [Searches -> [resource : {"none", "geocode", "reverse"},
                                 fields : SUBSET Fields]]
    /\ search \in [Searches -> {"new", "called", "queried", "answered", "lost",
                                "shown", "garbled"}]
    /\ hits \in [Searches -> Content]
    /\ answer \in [Searches -> {NoAnswer} \cup Answers]
    /\ quiet \in [Searches -> BOOLEAN]
    /\ {indicator, patient} \subseteq BOOLEAN
    /\ {lastError, resultList} \subseteq Searches \cup {0}
    /\ \A s \in Searches : search[s] = "answered" => answer[s] # NoAnswer

(* The indicator is toggled at the start and at the end of every search:     *)
(* as long as every answer was readable it is hidden when none is           *)
(* outstanding and to be seen while one is.  (With two it is hidden.)       *)
IndicatorTellsBusy ==
    (\A s \in Searches : search[s] # "garbled") =>
        /\ Outstanding = {} => ~indicator
        /\ Cardinality(Outstanding) = 1 => indicator

(* A user who waits for every answer is shown what became of the last        *)
(* search, its results or its error.  (One who does not may be shown the    *)
(* results of an earlier one.)                                              *)
Made == {s \in Searches : search[s] # "new"}

SeesLastSearch ==
    patient /\ Outstanding = {} =>
        \A s \in Made :
            s + 1 \notin Made /\ search[s] # "garbled" =>
                \/ lastError = s
                \/ lastError = 0 /\ resultList = s

=============================================================================
