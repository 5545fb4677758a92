--------------------------- MODULE SearchService ---------------------------
(***************************************************************************)
(* Searches, while the address data is refreshed: the REST resource        *)
(* Geocoder calls CommonBevFinderBean, which lets FinderImpl query the     *)
(* index and load the rows of the hits from the table.  Nothing keeps      *)
(* searches and refreshes apart.                                           *)
(*                                                                         *)
(* A request is the resource it is for and the set of parameters that are  *)
(* filled in; of hits and rows only the content they are part of is kept.  *)
(***************************************************************************)
EXTENDS Refresh, FiniteSets

CONSTANTS
    MaxSearches,  \* bound: searches
    NoAnswer      \* nothing answered

ASSUME SearchAssumption == MaxSearches \in Nat

VARIABLES
    request,   \* what a search asks for
    search,    \* where it stands
    hits,      \* content of the index it found its hits in
    answer,    \* what the service answered
    quiet      \* whether no refresh was under way since it read the index, nor one
               \* had failed before

searchVars == <<request, search, hits, answer, quiet>>
serviceVars == <<vars, searchVars>>

Searches == 1..MaxSearches

(* What a user may fill in; "letter" is an addressLine of one character. *)
Terms == {"postalCode", "place", "addressLine", "letter", "houseId"}
Coordinates == {"latitude", "longitude"}
Fields == Terms \cup Coordinates \cup {"radius"}
NoRequest == [resource |-> "none", fields |-> {}]

(* Codes of SerializedGeocodingResult.Status *)
SUCCESS == 0
ERROR == 1
ERROR_REQUEST == 2

Answered(code, found, rows) == [code |-> code, hits |-> found, rows |-> rows]
Exception(code) == Answered(code, Partial, Partial)
Answers == [code : {SUCCESS, ERROR, ERROR_REQUEST}, hits : Content, rows : Content]

ASSUME AnswerAssumption == NoAnswer \notin Answers

SearchInit ==
    /\ Init
    /\ request = [s \in Searches |-> NoRequest]
    /\ search = [s \in Searches |-> "new"]
    /\ hits = [s \in Searches |-> Partial]
    /\ answer = [s \in Searches |-> NoAnswer]
    /\ quiet = [s \in Searches |-> TRUE]

(* A client calls a resource. *)
Request(s, r) ==
    /\ search[s] = "new"
    /\ request' = [request EXCEPT ![s] = r]
    /\ search' = [search EXCEPT ![s] = "called"]
    /\ UNCHANGED <<vars, hits, answer, quiet>>

Reply(s, a) ==
    /\ hits' = [hits EXCEPT ![s] = Partial]
    /\ request' = [request EXCEPT ![s] = NoRequest]
    /\ answer' = [answer EXCEPT ![s] = a]
    /\ search' = [search EXCEPT ![s] = "answered"]

(* What constructQuery() throws an InvalidApiUsageException for *)
UsageError(fields) ==
    \/ fields \cap Terms = {}
    \/ "letter" \in fields

(* A search for an address; coordinates, if both are given, only filter     *)
(* what it finds, and one without the other is dropped.                     *)
geocode(fields) == ~UsageError(fields)

(* A search for coordinates alone *)
reverseGeocode(fields) == fields \cap (Coordinates \cup {"radius"}) # {}

Accepted(r) ==
    \/ r.resource = "reverse" /\ reverseGeocode(r.fields)
    \/ r.resource = "geocode" /\ geocode(r.fields)

(* The resource answers a misuse with a status of its own ... *)
Reject(s) ==
    /\ search[s] = "called"
    /\ ~Accepted(request[s])
    /\ Reply(s, Exception(ERROR_REQUEST))
    /\ UNCHANGED <<vars, quiet>>

(* ... and otherwise queries the index, ... *)
Undisturbed == Quiet /\ faults = 0

QueryIndex(s) ==
    /\ search[s] = "called"
    /\ Accepted(request[s])
    /\ hits' = [hits EXCEPT ![s] = index]
    /\ quiet' = [quiet EXCEPT ![s] = Undisturbed]
    /\ search' = [search EXCEPT ![s] = "queried"]
    /\ request' = [request EXCEPT ![s] = NoRequest]
    /\ UNCHANGED <<vars, answer>>

(* ... loads the rows of the hits and makes results of them, ... *)
LoadRows(s) ==
    /\ search[s] = "queried"
    /\ Reply(s, Answered(SUCCESS, hits[s], denormalized))
    /\ UNCHANGED <<vars, quiet>>

(* ... or answers an exception of either, wrapped in an EJBException. *)
Fails(s) ==
    /\ \/ search[s] = "called" /\ Accepted(request[s])
       \/ search[s] = "queried"
    /\ Reply(s, Exception(ERROR))
    /\ quiet' = [quiet EXCEPT ![s] = TRUE]
    /\ UNCHANGED vars

(* Everything under way ends with the server. *)
Restart ==
    /\ Crash
    /\ search' = [s \in Searches |->
                    IF search[s] \in {"called", "queried"} THEN "lost" ELSE search[s]]
    /\ request' = [s \in Searches |->
                    IF search[s] = "called" THEN NoRequest ELSE request[s]]
    /\ hits' = [s \in Searches |-> Partial]
    /\ quiet' = [s \in Searches |-> IF search[s] = "queried" THEN TRUE ELSE quiet[s]]
    /\ UNCHANGED answer

(* A step of a refresh is one no search waits for. *)
RefreshStep ==
    /\ \/ \E f \in Files : NewFile(f)
       \/ \E c \in Calls : Begin(c) \/ CallStep(c) \/ Fault(c)
    /\ quiet' = [s \in Searches |-> quiet[s] /\ (search[s] = "queried" => Undisturbed')]
    /\ UNCHANGED <<request, search, hits, answer>>

ServiceNext ==
    \/ RefreshStep
    \/ Restart
    \/ \E s \in Searches : Reject(s) \/ QueryIndex(s) \/ LoadRows(s) \/ Fails(s)

-----------------------------------------------------------------------------
(* No file of the one content is newer than it is in the other, unless that  *)
(* is not there.                                                            *)
NotNewer(content, other) ==
    \A f \in Files : other[f] = 0 \/ content[f] <= other[f]

(* A search that no refresh overlaps finds everything, and the rows it loads *)
(* are of the content its hits were found in, as long as nothing failed     *)
(* before: what several refreshes leave between them is consistent.  And    *)
(* whatever overlaps or failed, the rows are never older than the hits.     *)
AnswersAreConsistent ==
    \A s \in Searches : search[s] = "answered" /\ answer[s].code = SUCCESS =>
        /\ quiet[s] =>
              answer[s].hits = answer[s].rows /\ Complete(answer[s].hits)
        /\ NotNewer(answer[s].hits, answer[s].rows)

(* Whatever fails and whichever refreshes overlap: a search never finds      *)
(* hits older than those another search was answered before.                *)
HitsNeverGoBack ==
    [][\A s, t \in Searches :
          /\ search[s] = "called" /\ search'[s] = "queried"
          /\ search[t] = "answered"
          => NotNewer(answer[t].hits, hits'[s])]_serviceVars

=============================================================================
