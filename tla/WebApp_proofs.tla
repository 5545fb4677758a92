--------------------------- MODULE WebApp_proofs ---------------------------
(***************************************************************************)
(* Proofs about SearchService and WebApp, for any number of refreshes,     *)
(* searches, deliveries and faults and whatever the user fills in.         *)
(***************************************************************************)
EXTENDS WebApp, Refresh_proofs, FiniteSetTheorems

(***************************************************************************)
(* Searches do not disturb the refresh: every step is one of Refresh or    *)
(* leaves its variables alone, and the refresh is scheduled as before ...  *)
(***************************************************************************)
LEMMA RefreshSteps == [AppNext]_appVars => [Next]_vars
<1> SUFFICES ASSUME [AppNext]_appVars PROVE [Next]_vars
  OBVIOUS
<1>1. CASE ServiceNext
  BY <1>1 DEF ServiceNext, RefreshStep, Restart, Reject, QueryIndex, LoadRows, Fails, Next
<1>2. CASE \E form \in Forms : triggerSearch(form)
  BY <1>2 DEF triggerSearch, Request
<1>3. CASE \E s \in Searches :
              handleGeocodeResponse(s) \/ handleGarbledResponse(s) \/ handleGeocodeError(s)
  BY <1>3 DEF handleGeocodeResponse, handleGarbledResponse, handleGeocodeError, Ends
<1>4. CASE UNCHANGED appVars
  BY <1>4 DEF appVars, serviceVars
<1> QED
  BY <1>1, <1>2, <1>3, <1>4 DEF AppNext

(* The refresh beside any searches is the refresh, fairness included, ...    *)
THEOREM RefreshImplemented == AppSpec => FairSpec
<1>1. AppInit => Init
  BY DEF AppInit, SearchInit
<1> QED
  BY <1>1, RefreshSteps, PTL DEF AppSpec, FairSpec, Spec

(* ... so that what is proved of the refresh holds beside any searches.      *)
THEOREM RefreshBesideSearches ==
    AppSpec => [](OneAtATime /\ RebuiltIsComplete /\ NeverRejected /\ IndexIsCurrent)
<1>1. AppSpec => Spec
  BY RefreshImplemented, PTL DEF FairSpec
<1> QED
  BY <1>1, OneOperationAtATime, RebuiltCompletely, CallsNeverRejected,
     IndexCurrentInTheEnd, PTL

-----------------------------------------------------------------------------
(* The versions of the data, file by file.  What was once found in the index *)
(* is never newer than what index and tables hold, or will hold when what is *)
(* being rebuilt is complete.                                               *)
Old(v) == NotNewer(v, csv) /\ NotNewer(v, tables) /\ NotNewer(v, denormalized)

DataVersions ==
    /\ denormalized \in Content /\ index \in Content
    /\ NotNewer(denormalized, csv) /\ NotNewer(denormalized, tables)
    /\ Old(index)

Found(v) == Old(v) /\ NotNewer(v, index)

USE RefreshAssumption DEF Goto, Label, Body, DbBody, IndexBody

LEMMA NothingIsOld ==
    /\ Partial \in Content
    /\ \A v \in Content \cup [Files -> 1..MaxCsv] : NotNewer(Partial, v) /\ NotNewer(v, Partial)
BY NothingRead DEF NotNewer, Content

LEMMA NeverNewer == \A v \in Content : NotNewer(v, v)
BY DEF NotNewer, Content

LEMMA InitVersions == Init => DataVersions
BY FirstFiles, NeverNewer DEF DataVersions, Old

(* The steps of a refresh that change the data *)
LEMMA RefreshVersions ==
    ASSUME IInv, DataVersions, [Next]_vars
    PROVE  DataVersions' /\ \A v \in Content : Found(v) => Found(v)'
<1> DEFINE Kept == DataVersions' /\ \A v \in Content : Found(v) => Found(v)'
<1>1. /\ csv \in [Files -> 1..MaxCsv] /\ tables \in Content
      /\ \A f \in Files : tables[f] <= csv[f]
      /\ \A c \in Calls : pc[c] \in Imported => Complete(tables)
  BY DEF IInv, TypeInv, DataInv, FilesInv
<1>2. \A f \in Files : /\ csv[f] \in 1..MaxCsv /\ tables[f] \in 0..MaxCsv
                       /\ denormalized[f] \in 0..MaxCsv /\ index[f] \in 0..MaxCsv
  BY <1>1 DEF DataVersions, Content
<1>3. CASE UNCHANGED <<csv, tables, denormalized, index>>
  BY <1>3 DEF DataVersions, Old, Found
<1>4. ASSUME NEW f \in Files, NewFile(f) PROVE Kept
  <2>1. UNCHANGED <<tables, denormalized, index>> /\ \A g \in Files : csv'[g] \in {csv[g], csv[g] + 1}
    BY <1>1, <1>4 DEF NewFile, data
  <2>2. \A v \in Content : NotNewer(v, csv) => NotNewer(v, csv')
    BY <1>2, <2>1 DEF NotNewer, Content
  <2> QED
    BY <2>1, <2>2 DEF DataVersions, Old, Found
<1>5. ASSUME UNCHANGED <<csv, denormalized, index>>,
             \A f \in Files : tables'[f] \in {0, tables[f], csv[f]}
      PROVE  Kept
  <2>1. \A v \in Content : NotNewer(v, csv) /\ NotNewer(v, tables) => NotNewer(v, tables')
    BY <1>2, <1>5 DEF NotNewer
  <2> QED
    BY <1>5, <2>1 DEF DataVersions, Old, Found
<1>6. ASSUME UNCHANGED <<csv, index>>, denormalized' \in {denormalized, Partial},
             \A f \in Files : tables'[f] \in {0, tables[f]}
      PROVE  Kept
  <2>1. \A v \in Content : NotNewer(v, tables) => NotNewer(v, tables')
    BY <1>6 DEF NotNewer
  <2>2. \A v \in Content : NotNewer(v, denormalized) => NotNewer(v, denormalized')
    BY <1>6, NothingIsOld
  <2>3. /\ denormalized' \in Content
        /\ NotNewer(denormalized', csv) /\ NotNewer(denormalized', tables)
    BY <1>1, <1>6, NothingIsOld DEF DataVersions
  <2> QED
    BY <1>6, <2>1, <2>2, <2>3 DEF DataVersions, Old, Found
<1>7. ASSUME UNCHANGED <<csv, tables, index>>, denormalized' = tables, Complete(tables)
      PROVE  Kept
  <2>1. NotNewer(tables, csv)
    BY <1>1 DEF NotNewer
  <2> QED
    BY <1>1, <1>7, <2>1, NeverNewer DEF DataVersions, Old, Found
<1>8. ASSUME UNCHANGED <<csv, tables, denormalized>>, index' \in {Partial, denormalized}
      PROVE  Kept
  BY <1>1, <1>8, NothingIsOld, NeverNewer DEF DataVersions, Old, Found
<1>9. ASSUME NEW c \in Calls, Truncate(c) \/ Import(c) PROVE Kept
  <2>1. UNCHANGED <<csv, denormalized, index>>
    BY <1>9 DEF Truncate, Import, Step, files
  <2>2. CASE Truncate(c)
    BY <2>1, <2>2, <1>5, NothingRead DEF Truncate
  <2>3. CASE Import(c)
    BY <2>1, <2>3, <1>1, <1>5 DEF Import, Content
  <2> QED
    BY <1>9, <2>2, <2>3
<1>10. ASSUME NEW c \in Calls, Empty(c) PROVE Kept
  BY <1>10, <1>6 DEF Empty, Step, files
<1>11. ASSUME NEW c \in Calls, Denormalize(c) PROVE Kept
  BY <1>1, <1>11, <1>7 DEF Denormalize, Step, files, Imported
<1>12. ASSUME NEW c \in Calls, Purge(c) \/ Index(c) PROVE Kept
  BY <1>12, <1>8 DEF Purge, Index, Step, files
<1>13. CASE Crash
  BY <1>13, <1>6, CrashTables DEF Crash
<1>14. ASSUME NEW c \in Calls,
              \/ Begin(c) \/ Admit(c) \/ TimeOut(c) \/ Check(c) \/ SetRunning(c)
              \/ DropKey(c) \/ NoKey(c) \/ CreateKey(c) \/ DatabaseRebuilt(c)
              \/ IndexRebuilt(c) \/ Fault(c)
       PROVE  UNCHANGED <<csv, tables, denormalized, index>>
  BY <1>14
  DEF Begin, Admit, TimeOut, Check, SetRunning, DropKey, NoKey, CreateKey,
      DatabaseRebuilt, IndexRebuilt, Fault, Throw, Step, data, files
<1>15. CASE UNCHANGED vars
  BY <1>3, <1>15 DEF vars, data, files
<1> QED
  BY <1>3, <1>4, <1>9, <1>10, <1>11, <1>12, <1>13, <1>14, <1>15 DEF Next, CallStep

-----------------------------------------------------------------------------
(* The searches: what one has found or was answered has a version as above,  *)
(* and as long as no refresh was under way since it read the index, it is   *)
(* the version of the table.                                                *)
States == {"new", "called", "queried", "answered", "lost", "shown", "garbled"}

SearchTypes ==
    /\ search \in [Searches -> States]
    /\ hits \in [Searches -> Content]
    /\ answer \in [Searches -> {NoAnswer} \cup Answers]
    /\ quiet \in [Searches -> BOOLEAN]

VersionInv(s) ==
    /\ Found(hits[s])
    /\ search[s] = "answered" =>
          /\ answer[s] \in Answers
          /\ Found(answer[s].hits)

QuietInv(s) ==
    search[s] = "queried" /\ quiet[s] =>
        Undisturbed /\ hits[s] = denormalized /\ Complete(hits[s])

AnswerInv(s) ==
    search[s] = "answered" /\ answer[s].code = SUCCESS =>
        /\ quiet[s] =>
              answer[s].hits = answer[s].rows /\ Complete(answer[s].hits)
        /\ NotNewer(answer[s].hits, answer[s].rows)

ServiceInv ==
    /\ SearchTypes
    /\ \A s \in Searches : VersionInv(s) /\ QuietInv(s) /\ AnswerInv(s)

LEMMA NothingFound == DataVersions /\ IInv => Found(Partial)
BY NothingIsOld DEF DataVersions, IInv, TypeInv, Found, Old

LEMMA InitService == AppInit => ServiceInv
<1> SUFFICES ASSUME AppInit PROVE ServiceInv
  OBVIOUS
<1>1. Init /\ Found(Partial)
  BY InitVersions, InitIInv, NothingFound DEF AppInit, SearchInit
<1> QED
  BY <1>1, NothingIsOld DEF AppInit, SearchInit, ServiceInv, SearchTypes, States,
                            VersionInv, QuietInv, AnswerInv

(* While no refresh is under way, only files may arrive. *)
LEMMA QuietSteps ==
    ASSUME IInv, Quiet, Quiet', [Next]_vars
    PROVE  UNCHANGED <<tables, denormalized, index, faults>>
<1>1. \A c \in Calls : pc[c] \in {"new", "done", "rejected", "lost"} /\ pc'[c] \in {"new", "done", "rejected", "lost"}
  BY DEF Quiet, Active
<1>2. ASSUME NEW c \in Calls, Begin(c) PROVE FALSE
  BY <1>1, <1>2 DEF Begin, IInv, TypeInv
<1>3. ASSUME NEW c \in Calls, CallStep(c) PROVE FALSE
  BY <1>1, <1>3
  DEF CallStep, Admit, TimeOut, Check, SetRunning, Truncate, Import, DropKey, NoKey, Empty,
      Denormalize, CreateKey, DatabaseRebuilt, Purge, Index, IndexRebuilt, Step
<1>4. ASSUME NEW c \in Calls, Fault(c) PROVE FALSE
  BY <1>1, <1>4 DEF Fault
<1>5. ~Crash
  BY DEF Quiet, Crash
<1> QED
  BY <1>2, <1>3, <1>4, <1>5 DEF Next, NewFile, vars, data

(* The data under the searches *)
LEMMA RefreshService ==
    ASSUME CurrentInv, DataVersions, ServiceInv, RefreshStep \/ Restart
    PROVE  ServiceInv'
<1>1. [Next]_vars
  BY DEF RefreshStep, Restart, Next
<1>2. \A v \in Content : Found(v) => Found(v)'
  BY <1>1, RefreshVersions DEF CurrentInv
<1>3. faults \in Nat /\ (Restart => faults' # 0) /\ (faults' = 0 => faults = 0)
  <2>1. CASE Restart
    BY <2>1 DEF CurrentInv, Restart, Crash
  <2>2. ASSUME NEW c \in Calls, Fault(c) PROVE faults' = faults + 1
    BY <2>2 DEF Fault
  <2>3. ASSUME NEW c \in Calls, Begin(c) \/ CallStep(c) PROVE faults' = faults
    BY <2>3
    DEF Begin, CallStep, Admit, TimeOut, Check, SetRunning, Truncate, Import,
        DropKey, NoKey, Empty, Denormalize, CreateKey, DatabaseRebuilt, Purge, Index,
        IndexRebuilt, Step
  <2>4. ASSUME NEW f \in Files, NewFile(f) PROVE faults' = faults
    BY <2>4 DEF NewFile
  <2> QED
    BY <2>1, <2>2, <2>3, <2>4 DEF CurrentInv, RefreshStep
<1>4. SearchTypes'
  <2>1. search' \in [Searches -> States]
    BY DEF ServiceInv, SearchTypes, RefreshStep, Restart, States
  <2>2. hits' \in [Searches -> Content]
    <3>1. hits' = hits \/ hits' = [s \in Searches |-> Partial]
      BY DEF RefreshStep, Restart
    <3>2. Partial \in Content
      BY NothingRead
    <3> QED
      BY <3>1, <3>2 DEF ServiceInv, SearchTypes
  <2>3. quiet' \in [Searches -> BOOLEAN]
    BY DEF ServiceInv, SearchTypes, RefreshStep, Restart
  <2> QED
    BY <2>1, <2>2, <2>3 DEF ServiceInv, SearchTypes, RefreshStep, Restart, Answers
<1>5. ASSUME NEW s \in Searches PROVE VersionInv(s)'
  <2>1. PICK v \in Content : v = hits'[s] /\ Found(v)
    <3>1. hits'[s] = hits[s] \/ hits'[s] = Partial
      BY DEF RefreshStep, Restart
    <3> QED
      BY <3>1, NothingFound, NothingRead DEF CurrentInv, ServiceInv, SearchTypes,
                                VersionInv
  <2>2. Found(hits[s])'
    BY <2>1, <1>2 DEF Found, Old, NotNewer
  <2>3. search'[s] = "answered" => search[s] = "answered" /\ answer'[s] = answer[s]
    BY DEF RefreshStep, Restart, ServiceInv, SearchTypes
  <2>4. ASSUME search'[s] = "answered" PROVE (answer[s] \in Answers /\ Found(answer[s].hits))'
    <3>1. PICK w \in Content : w = answer[s].hits /\ Found(w)
      BY <2>3, <2>4 DEF ServiceInv, VersionInv, Answers
    <3>2. answer'[s] \in Answers
      BY <2>3, <2>4 DEF ServiceInv, VersionInv, Answers
    <3> QED
      BY <2>3, <2>4, <3>1, <3>2, <1>2 DEF Found, Old, NotNewer, Answers
  <2> QED
    BY <2>2, <2>4 DEF VersionInv
<1>6. ASSUME NEW s \in Searches PROVE QuietInv(s)'
  <2> SUFFICES ASSUME search'[s] = "queried", quiet'[s]
               PROVE  Undisturbed' /\ hits'[s] = denormalized' /\ Complete(hits'[s])
    BY DEF QuietInv, Undisturbed, Quiet, Active
  <2>1. RefreshStep
    <3>1. ASSUME Restart PROVE search'[s] # "queried"
      BY <3>1 DEF Restart
    <3> QED
      BY <3>1
  <2>2. quiet[s] /\ Undisturbed' /\ search[s] = "queried" /\ hits' = hits
    BY <2>1 DEF RefreshStep, ServiceInv, SearchTypes
  <2>3. Undisturbed /\ hits[s] = denormalized /\ Complete(hits[s])
    BY <2>2 DEF ServiceInv, QuietInv
  <2> QED
    BY <2>2, <2>3, <1>1, QuietSteps DEF CurrentInv, Undisturbed
<1>7. ASSUME NEW s \in Searches PROVE AnswerInv(s)'
  <2> SUFFICES ASSUME search'[s] = "answered" PROVE AnswerInv(s)'
    BY DEF AnswerInv
  <2>1. search[s] = "answered" /\ answer'[s] = answer[s] /\ quiet'[s] = quiet[s]
    BY <1>3 DEF RefreshStep, Restart, ServiceInv, SearchTypes
  <2> QED
    BY <2>1 DEF ServiceInv, AnswerInv
<1> QED
  BY <1>4, <1>5, <1>6, <1>7 DEF ServiceInv

(* A step of one search *)
LEMMA OneSearch ==
    ASSUME CurrentInv, DataVersions, ServiceInv, UNCHANGED vars, NEW s \in Searches,
           SearchTypes',
           \A u \in Searches \ {s} :
              /\ search'[u] = search[u] /\ hits'[u] = hits[u]
              /\ answer'[u] = answer[u] /\ quiet'[u] = quiet[u],
           hits'[s] \in {hits[s], index, Partial},
           search'[s] = "answered" =>
              /\ answer'[s] \in Answers
              /\ answer'[s].hits \in {hits[s], Partial},
           QuietInv(s)', AnswerInv(s)'
    PROVE  ServiceInv'
<1>1. /\ csv' = csv /\ tables' = tables /\ denormalized' = denormalized /\ index' = index
      /\ faults' = faults /\ pc' = pc
  BY DEF vars, data, files
<1>2. Found(hits[s]) /\ Found(index) /\ Found(Partial)
  BY NothingFound, NeverNewer DEF CurrentInv, ServiceInv, VersionInv, DataVersions, Found
<1>3. VersionInv(s)'
  BY <1>1, <1>2 DEF VersionInv, Found, Old, NotNewer
<1>4. ASSUME NEW u \in Searches \ {s} PROVE (VersionInv(u) /\ QuietInv(u) /\ AnswerInv(u))'
  <2>1. VersionInv(u) /\ QuietInv(u) /\ AnswerInv(u)
    BY DEF ServiceInv
  <2>2. VersionInv(u)'
    BY <2>1, <1>1 DEF VersionInv, Found, Old, NotNewer
  <2>3. QuietInv(u)'
    BY <2>1, <1>1 DEF QuietInv, Undisturbed, Quiet, Active
  <2>4. AnswerInv(u)'
    BY <2>1, <1>1 DEF AnswerInv, NotNewer
  <2> QED
    BY <2>2, <2>3, <2>4
<1> QED
  BY <1>3, <1>4 DEF ServiceInv

LEMMA RequestService ==
    ASSUME CurrentInv, DataVersions, ServiceInv, NEW s \in Searches,
           NEW r, Request(s, r)
    PROVE  ServiceInv'
<1>1. SearchTypes'
  BY DEF Request, ServiceInv, SearchTypes, States
<1>2. UNCHANGED vars /\ search'[s] = "called"
  BY DEF Request, ServiceInv, SearchTypes
<1> QED
  BY <1>1, <1>2, OneSearch DEF Request, ServiceInv, SearchTypes, QuietInv, AnswerInv

LEMMA ReplyService ==
    ASSUME CurrentInv, DataVersions, ServiceInv, NEW s \in Searches,
           Reject(s) \/ Fails(s) \/ LoadRows(s)
    PROVE  ServiceInv'
<1>1. PICK a \in Answers :
          /\ Reply(s, a)
          /\ a.hits \in {hits[s], Partial}
          /\ \/ a.code # SUCCESS
             \/ search[s] = "queried" /\ a.hits = hits[s] /\ a.rows = denormalized
                /\ quiet'[s] = quiet[s]
  <2>1. Partial \in Content /\ hits[s] \in Content /\ denormalized \in Content
    BY NothingRead DEF ServiceInv, SearchTypes, DataVersions
  <2> QED
    BY <2>1 DEF Reject, Fails, LoadRows, Exception, Answered, Answers, SUCCESS, ERROR,
                ERROR_REQUEST, ServiceInv, SearchTypes
<1>2. /\ UNCHANGED vars
      /\ quiet' \in [Searches -> BOOLEAN]
      /\ \A u \in Searches \ {s} : quiet'[u] = quiet[u]
  BY DEF Reject, Fails, LoadRows, ServiceInv, SearchTypes
<1>3. SearchTypes'
  <2>1. Partial \in Content /\ "answered" \in States
    BY NothingRead DEF States
  <2>2. hits' \in [Searches -> Content] /\ search' \in [Searches -> States]
    BY <1>1, <2>1 DEF Reply, ServiceInv, SearchTypes
  <2>3. answer' \in [Searches -> {NoAnswer} \cup Answers]
    BY <1>1 DEF Reply, ServiceInv, SearchTypes
  <2> QED
    BY <1>2, <2>2, <2>3 DEF SearchTypes
<1>4. answer'[s] = a /\ hits'[s] = Partial /\ search'[s] = "answered"
  BY <1>1 DEF Reply, ServiceInv, SearchTypes
<1>5. AnswerInv(s)'
  <2> SUFFICES ASSUME a.code = SUCCESS
               PROVE  /\ quiet'[s] => a.hits = a.rows /\ Complete(a.hits)
                      /\ NotNewer(a.hits, a.rows)
    BY <1>4 DEF AnswerInv
  <2>1. /\ search[s] = "queried" /\ a.hits = hits[s] /\ a.rows = denormalized
        /\ quiet'[s] = quiet[s]
    BY <1>1
  <2> QED
    BY <2>1 DEF ServiceInv, QuietInv, VersionInv, Found, Old
<1>6. \A u \in Searches \ {s} :
          search'[u] = search[u] /\ hits'[u] = hits[u] /\ answer'[u] = answer[u]
  BY <1>1 DEF Reply, ServiceInv, SearchTypes
<1>7. QuietInv(s)'
  BY <1>4 DEF QuietInv
<1> QED
  BY <1>1, <1>2, <1>3, <1>4, <1>5, <1>6, <1>7, OneSearch

LEMMA QueryService ==
    ASSUME CurrentInv, DataVersions, ServiceInv, NEW s \in Searches, QueryIndex(s)
    PROVE  ServiceInv'
<1>1. SearchTypes'
  <2>1. Undisturbed \in BOOLEAN
    BY DEF Undisturbed
  <2>2. quiet' \in [Searches -> BOOLEAN]
    BY <2>1, Zenon DEF QueryIndex, ServiceInv, SearchTypes
  <2> QED
    BY <2>2 DEF QueryIndex, ServiceInv, SearchTypes, States, DataVersions
<1>2. /\ UNCHANGED vars
      /\ search'[s] = "queried" /\ hits'[s] = index
  BY DEF QueryIndex, ServiceInv, SearchTypes
<1>3. quiet'[s] = Undisturbed
  BY Zenon DEF QueryIndex, ServiceInv, SearchTypes
<1>4. QuietInv(s)'
  <2>1. IndexIsCurrent
    BY CurrentIsCurrent
  <2> QED
    BY <1>2, <1>3, <2>1 DEF QuietInv, IndexIsCurrent, Undisturbed, Quiet, Active, vars, data
<1> QED
  BY <1>1, <1>2, <1>4, OneSearch DEF QueryIndex, ServiceInv, SearchTypes, AnswerInv

LEMMA EndsService ==
    ASSUME CurrentInv, DataVersions, ServiceInv, NEW s \in Searches,
           NEW how \in {"shown", "garbled"}, Ends(s, how)
    PROVE  ServiceInv'
<1>1. SearchTypes'
  BY NothingRead DEF Ends, ServiceInv, SearchTypes, States
<1>2. UNCHANGED vars /\ search'[s] = how
  BY DEF Ends, ServiceInv, SearchTypes
<1>3. QuietInv(s)' /\ AnswerInv(s)'
  BY <1>2 DEF QuietInv, AnswerInv
<1> QED
  BY <1>1, <1>2, <1>3, OneSearch DEF Ends, ServiceInv, SearchTypes

LEMMA ServiceInductive == AppSpec => [](CurrentInv /\ DataVersions /\ ServiceInv)
<1>1. AppSpec => []CurrentInv
  BY RefreshImplemented, CurrentInductive, PTL DEF FairSpec
<1>2. AppInit => DataVersions /\ ServiceInv
  BY InitVersions, InitService DEF AppInit, SearchInit
<1>3. CurrentInv /\ DataVersions /\ ServiceInv /\ [AppNext]_appVars => DataVersions' /\ ServiceInv'
  <2> SUFFICES ASSUME CurrentInv, DataVersions, ServiceInv, [AppNext]_appVars
               PROVE  DataVersions' /\ ServiceInv'
    OBVIOUS
  <2>1. DataVersions'
    BY RefreshSteps, RefreshVersions DEF CurrentInv
  <2>2. CASE ServiceNext
    <3>1. CASE RefreshStep \/ Restart
      BY <2>1, <3>1, RefreshService
    <3>2. ASSUME NEW s \in Searches, Reject(s) \/ LoadRows(s) \/ Fails(s) PROVE ServiceInv'
      BY <3>2, ReplyService
    <3>3. ASSUME NEW s \in Searches, QueryIndex(s) PROVE ServiceInv'
      BY <3>3, QueryService
    <3> QED
      BY <2>1, <2>2, <3>1, <3>2, <3>3 DEF ServiceNext
  <2>3. ASSUME NEW form \in Forms, triggerSearch(form) PROVE ServiceInv'
    <3>1. PICK s \in Searches : Request(s, CurrentRequest(form))
      BY <2>3 DEF triggerSearch
    <3> QED
      BY <3>1, RequestService
  <2>4. ASSUME NEW s \in Searches,
               handleGeocodeResponse(s) \/ handleGarbledResponse(s) \/ handleGeocodeError(s)
        PROVE  ServiceInv'
    BY <2>4, EndsService DEF handleGeocodeResponse, handleGarbledResponse,
                             handleGeocodeError
  <2>5. CASE UNCHANGED appVars
    <3>1. UNCHANGED <<search, hits, answer, quiet, faults, denormalized, pc, csv, tables, index>>
      BY <2>5 DEF appVars, serviceVars, searchVars, vars, data, files
    <3>2. SearchTypes'
      BY <3>1 DEF ServiceInv, SearchTypes
    <3>3. ASSUME NEW s \in Searches PROVE VersionInv(s)' /\ AnswerInv(s)'
      <4>1. VersionInv(s) /\ AnswerInv(s)
        BY DEF ServiceInv
      <4> QED
        BY <4>1, <3>1 DEF VersionInv, AnswerInv, Found, Old, NotNewer
    <3>4. ASSUME NEW s \in Searches PROVE QuietInv(s)'
      <4>1. QuietInv(s)
        BY DEF ServiceInv
      <4> QED
        BY <4>1, <3>1 DEF QuietInv, Undisturbed, Quiet, Active
    <3> QED
      BY <2>1, <3>2, <3>3, <3>4 DEF ServiceInv
  <2> QED
    BY <2>1, <2>2, <2>3, <2>4, <2>5 DEF AppNext
<1> QED
  BY <1>1, <1>2, <1>3, PTL DEF AppSpec

(* A search that no refresh overlaps is answered with rows of the version of *)
(* its hits as long as nothing failed, and rows are never older than the    *)
(* hits they are loaded for, whatever overlaps and fails.                   *)
THEOREM AnswersConsistent == AppSpec => []AnswersAreConsistent
<1>1. ServiceInv => AnswersAreConsistent
  BY DEF ServiceInv, AnswerInv, AnswersAreConsistent
<1> QED
  BY <1>1, ServiceInductive, PTL

(* A search finds nothing older than what another one was answered before.   *)
THEOREM HitsGoOn == AppSpec => HitsNeverGoBack
<1>1. ServiceInv /\ CurrentInv /\ DataVersions /\ [AppNext]_appVars =>
          [\A s, t \in Searches :
              /\ search[s] = "called" /\ search'[s] = "queried"
              /\ search[t] = "answered"
              => NotNewer(answer[t].hits, hits'[s])]_serviceVars
  <2> SUFFICES ASSUME ServiceInv, DataVersions, AppNext,
                      NEW s \in Searches, NEW t \in Searches,
                      search[s] = "called", search'[s] = "queried",
                      search[t] = "answered"
               PROVE  NotNewer(answer[t].hits, hits'[s])
    BY DEF appVars
  <2>1. hits'[s] = index
    BY DEF AppNext, ServiceNext, RefreshStep, Restart, Reject, QueryIndex, LoadRows, Fails,
           Reply, triggerSearch, Request, handleGeocodeResponse, handleGarbledResponse,
           handleGeocodeError, Ends, ServiceInv, SearchTypes
  <2> QED
    BY <2>1 DEF ServiceInv, VersionInv, Found
<1> QED
  BY <1>1, ServiceInductive, PTL DEF AppSpec, HitsNeverGoBack

-----------------------------------------------------------------------------
(* The page: where searches stand, told apart only as far as it shows.       *)
Clean == \A s \in Searches : search[s] # "garbled"

PageTypes == SearchTypes /\ {indicator, patient} \subseteq BOOLEAN

(* The indicator was toggled once for every search and once for every end.   *)
IndicatorInv ==
    Clean => /\ indicator => Cardinality(Outstanding) % 2 = 1
             /\ ~indicator => Cardinality(Outstanding) % 2 = 0

(* Searches are made in order, and a patient user made none after one that   *)
(* is outstanding.                                                          *)
OrderInv ==
    /\ \A s \in Made : \A t \in 1..(s - 1) : t \in Made
    /\ patient => \A s \in Outstanding : s + 1 \notin Made

PageInv == PageTypes /\ IndicatorInv /\ OrderInv /\ SeesLastSearch

LEMMA OutstandingFinite == IsFiniteSet(Outstanding) /\ Cardinality(Outstanding) \in Nat
<1>1. IsFiniteSet(Searches)
  BY SearchAssumption, FS_Interval DEF Searches
<1> QED
  BY <1>1, FS_Subset, FS_CardinalityType DEF Outstanding

LEMMA InitPage == AppInit => PageInv
<1> SUFFICES ASSUME AppInit PROVE PageInv
  OBVIOUS
<1>1. Outstanding = {} /\ Made = {}
  BY DEF AppInit, SearchInit, Outstanding, Made
<1>2. Cardinality(Outstanding) = 0
  BY <1>1, FS_EmptySet
<1>3. PageTypes
  BY InitService DEF AppInit, ServiceInv, PageTypes
<1> QED
  BY <1>1, <1>2, <1>3 DEF AppInit, PageInv, IndicatorInv, OrderInv, SeesLastSearch

(* The service takes no search back and makes none. *)
LEMMA ServiceKeepsPage ==
    ASSUME SearchTypes, ServiceNext \/ UNCHANGED searchVars
    PROVE  /\ Outstanding' = Outstanding /\ Made' = Made
           /\ \A s \in Searches : search'[s] = "garbled" <=> search[s] = "garbled"
<1>1. CASE RefreshStep
  BY <1>1 DEF RefreshStep, Outstanding, Made
<1>2. CASE Restart
  BY <1>2 DEF Restart, SearchTypes, Outstanding, Made
<1>3. ASSUME NEW s \in Searches, Reject(s) \/ QueryIndex(s) \/ LoadRows(s) \/ Fails(s)
      PROVE  /\ Outstanding' = Outstanding /\ Made' = Made
             /\ \A t \in Searches : search'[t] = "garbled" <=> search[t] = "garbled"
  <2>1. PICK to \in {"queried", "answered"} : search' = [search EXCEPT ![s] = to]
    BY <1>3 DEF Reject, QueryIndex, LoadRows, Fails, Reply
  <2>2. search[s] \in {"called", "queried"}
    BY <1>3 DEF Reject, QueryIndex, LoadRows, Fails
  <2> QED
    BY <2>1, <2>2 DEF SearchTypes, Outstanding, Made
<1>4. CASE UNCHANGED searchVars
  BY <1>4 DEF searchVars, Outstanding, Made
<1> QED
  BY <1>1, <1>2, <1>3, <1>4 DEF ServiceNext

LEMMA ServicePage ==
    ASSUME PageInv, PageTypes', ServiceNext \/ UNCHANGED searchVars, UNCHANGED pageVars
    PROVE  PageInv'
<1>1. /\ Outstanding' = Outstanding /\ Made' = Made
      /\ \A s \in Searches : search'[s] = "garbled" <=> search[s] = "garbled"
  BY ServiceKeepsPage DEF PageInv, PageTypes
<1>2. IndicatorInv'
  BY <1>1 DEF PageInv, IndicatorInv, Clean, pageVars
<1>3. OrderInv'
  BY <1>1 DEF PageInv, OrderInv, pageVars
<1>4. SeesLastSearch'
  <2>1. Made \subseteq Searches
    BY DEF Made
  <2> QED
    BY <2>1, <1>1 DEF PageInv, SeesLastSearch, pageVars
<1> QED
  BY <1>2, <1>3, <1>4 DEF PageInv

LEMMA TriggerPage ==
    ASSUME PageInv, PageTypes', NEW form \in Forms, triggerSearch(form)
    PROVE  PageInv'
<1>1. PICK s \in Searches :
          /\ \A t \in 1..(s - 1) : search[t] # "new"
          /\ Request(s, CurrentRequest(form))
          /\ toggleLoadingIndicator
          /\ patient' = (patient /\ Outstanding = {})
  BY DEF triggerSearch
<1>2. search[s] = "new" /\ search' = [search EXCEPT ![s] = "called"]
  BY <1>1 DEF Request
<1>3. s \notin Outstanding /\ s \notin Made
  BY <1>2 DEF Outstanding, Made
<1>4. Outstanding' = Outstanding \cup {s} /\ Made' = Made \cup {s}
  BY <1>2 DEF Outstanding, Made, PageInv, PageTypes, SearchTypes
<1>5. IndicatorInv'
  <2>1. Cardinality(Outstanding') = Cardinality(Outstanding) + 1
    BY <1>3, <1>4, OutstandingFinite, FS_AddElement
  <2>2. Clean' => Clean
    BY <1>2 DEF Clean, PageInv, PageTypes, SearchTypes
  <2>3. indicator' = ~indicator
    BY <1>1 DEF toggleLoadingIndicator
  <2>4. /\ Cardinality(Outstanding) % 2 = 0 => Cardinality(Outstanding') % 2 = 1
        /\ Cardinality(Outstanding) % 2 = 1 => Cardinality(Outstanding') % 2 = 0
    BY <2>1, OutstandingFinite
  <2> QED
    BY <2>2, <2>3, <2>4, Zenon DEF PageInv, IndicatorInv
<1>6. OrderInv'
  <2>1. \A r \in Made' : \A t \in 1..(r - 1) : t \in Made'
    <3>1. \A t \in 1..(s - 1) : t \in Made
      BY <1>1, SearchAssumption DEF Made, Searches
    <3>2. \A r \in Made : \A t \in 1..(r - 1) : t \in Made
      BY DEF PageInv, OrderInv
    <3> QED
      BY <3>1, <3>2, <1>4
  <2>2. patient' => Outstanding' = {s}
    BY <1>1, <1>4
  <2>3. s + 1 \notin Made'
    BY <1>3, <1>4 DEF PageInv, OrderInv, Searches, Made
  <2> QED
    BY <2>1, <2>2, <2>3 DEF OrderInv
<1>7. SeesLastSearch'
  BY <1>4 DEF SeesLastSearch
<1> QED
  BY <1>5, <1>6, <1>7 DEF PageInv

(* A search that ends was outstanding. *)
LEMMA EndPage ==
    ASSUME PageInv, PageTypes', NEW s \in Outstanding, NEW how \in {"shown", "garbled"},
           Ends(s, how),
           IF how = "shown" THEN toggleLoadingIndicator ELSE UNCHANGED indicator,
           how = "shown" => lastError' = s \/ (lastError' = 0 /\ resultList' = s)
    PROVE  PageInv'
<1>1. s \in Searches /\ search' = [search EXCEPT ![s] = how] /\ patient' = patient
  BY DEF Ends, Outstanding
<1>2. Outstanding' = Outstanding \ {s} /\ Made' = Made /\ search'[s] = how /\ s \in Made
  BY <1>1 DEF Outstanding, Made, PageInv, PageTypes, SearchTypes
<1>3. IndicatorInv'
  <2>1. Cardinality(Outstanding') = Cardinality(Outstanding) - 1
    BY <1>2, OutstandingFinite, FS_RemoveElement
  <2>2. Clean' => Clean /\ how = "shown"
    BY <1>1, <1>2 DEF Clean, PageInv, PageTypes, SearchTypes, Outstanding
  <2>3. how = "shown" => indicator' = ~indicator
    BY DEF toggleLoadingIndicator
  <2>4. /\ Cardinality(Outstanding) % 2 = 0 => Cardinality(Outstanding') % 2 = 1
        /\ Cardinality(Outstanding) % 2 = 1 => Cardinality(Outstanding') % 2 = 0
    BY <2>1, OutstandingFinite
  <2> QED
    BY <2>2, <2>3, <2>4, Zenon DEF PageInv, IndicatorInv
<1>4. OrderInv'
  BY <1>1, <1>2 DEF PageInv, OrderInv
<1>5. SeesLastSearch'
  <2> SUFFICES ASSUME patient', NEW r \in Made', r + 1 \notin Made', search'[r] # "garbled"
               PROVE  lastError' = r \/ (lastError' = 0 /\ resultList' = r)
    BY DEF SeesLastSearch
  <2>1. s + 1 \notin Made
    BY <1>1 DEF PageInv, OrderInv
  <2>2. r = s
    BY <2>1, <1>2 DEF PageInv, OrderInv, Made, Searches
  <2> QED
    BY <2>2, <1>2
<1> QED
  BY <1>3, <1>4, <1>5 DEF PageInv

LEMMA PageInductive == AppSpec => []PageInv
<1>1. PageInv /\ SearchTypes' /\ [AppNext]_appVars => PageInv'
  <2> SUFFICES ASSUME PageInv, SearchTypes', [AppNext]_appVars PROVE PageInv'
    OBVIOUS
  <2>1. PageTypes'
    <3>1. indicator \in BOOLEAN /\ patient \in BOOLEAN
      BY DEF PageInv, PageTypes
    <3>2. indicator' \in BOOLEAN
      BY <3>1, Zenon DEF AppNext, appVars, pageVars, triggerSearch, toggleLoadingIndicator,
         handleGeocodeResponse, handleGarbledResponse, handleGeocodeError
    <3>3. patient' \in BOOLEAN
      BY <3>1, Zenon DEF AppNext, appVars, pageVars, triggerSearch,
         handleGeocodeResponse, handleGarbledResponse, handleGeocodeError, Ends
    <3> QED
      BY <3>2, <3>3 DEF PageTypes
  <2>2. CASE ServiceNext /\ UNCHANGED pageVars
    BY <2>1, <2>2, ServicePage
  <2>3. CASE \E form \in Forms : triggerSearch(form)
    BY <2>1, <2>3, TriggerPage
  <2>4. ASSUME NEW s \in Searches, handleGeocodeResponse(s) PROVE PageInv'
    BY <2>1, <2>4, EndPage DEF handleGeocodeResponse, Outstanding
  <2>5. ASSUME NEW s \in Searches, handleGarbledResponse(s) PROVE PageInv'
    BY <2>1, <2>5, EndPage DEF handleGarbledResponse, Outstanding
  <2>6. ASSUME NEW s \in Searches, handleGeocodeError(s) PROVE PageInv'
    BY <2>1, <2>6, EndPage DEF handleGeocodeError
  <2>7. CASE UNCHANGED appVars
    BY <2>1, <2>7, ServicePage DEF appVars, serviceVars
  <2> QED
    BY <2>2, <2>3, <2>4, <2>5, <2>6, <2>7 DEF AppNext
<1>2. ServiceInv => SearchTypes
  BY DEF ServiceInv
<1> QED
  BY <1>1, <1>2, InitPage, ServiceInductive, PTL DEF AppSpec

(* As long as every answer was readable the loading indicator is hidden when *)
(* no search is outstanding and shown while one is.                         *)
THEOREM IndicatorRight == AppSpec => []IndicatorTellsBusy
<1>1. PageInv => IndicatorTellsBusy
  BY FS_EmptySet DEF PageInv, IndicatorInv, IndicatorTellsBusy, Clean
<1> QED
  BY <1>1, PageInductive, PTL

(* A user who waits for every answer sees what became of the last search.    *)
THEOREM LastSearchSeen == AppSpec => []SeesLastSearch
<1>1. PageInv => SeesLastSearch
  BY DEF PageInv
<1> QED
  BY <1>1, PageInductive, PTL

-----------------------------------------------------------------------------
(* The types of what is asked for and of what is shown *)
RequestType ==
    request \in [Searches -> [resource : {"none", "geocode", "reverse"},
                              fields : SUBSET Fields]]

ShownTypes == {lastError, resultList} \subseteq Searches \cup {0}

LEMMA InitShown == AppInit => RequestType /\ ShownTypes
BY DEF AppInit, SearchInit, RequestType, ShownTypes, NoRequest

LEMMA NextShown ==
    ASSUME RequestType, ShownTypes, [AppNext]_appVars
    PROVE  RequestType' /\ ShownTypes'
<1>0. NoRequest \in [resource : {"none", "geocode", "reverse"}, fields : SUBSET Fields]
  BY DEF NoRequest
<1>1. CASE ServiceNext /\ UNCHANGED pageVars
  <2>1. ShownTypes'
    BY <1>1 DEF ShownTypes, pageVars
  <2>2. CASE RefreshStep
    BY <2>1, <2>2 DEF RefreshStep, RequestType
  <2>3. CASE Restart
    BY <1>0, <2>1, <2>3 DEF Restart, RequestType
  <2>4. ASSUME NEW s \in Searches, Reject(s) \/ QueryIndex(s) \/ LoadRows(s) \/ Fails(s)
        PROVE  RequestType'
    <3>1. request' = [request EXCEPT ![s] = NoRequest]
      BY <2>4 DEF Reject, QueryIndex, LoadRows, Fails, Reply
    <3> QED
      BY <1>0, <3>1 DEF RequestType
  <2> QED
    BY <1>1, <2>1, <2>2, <2>3, <2>4 DEF ServiceNext
<1>2. ASSUME NEW form \in Forms, triggerSearch(form) PROVE RequestType' /\ ShownTypes'
  <2>1. PICK s \in Searches : request' = [request EXCEPT ![s] = CurrentRequest(form)]
    BY <1>2 DEF triggerSearch, Request
  <2>2. CurrentRequest(form) \in
            [resource : {"none", "geocode", "reverse"}, fields : SUBSET Fields]
    BY FormsAssumption DEF CurrentRequest
  <2>3. UNCHANGED <<lastError, resultList>>
    BY <1>2 DEF triggerSearch
  <2> QED
    BY <2>1, <2>2, <2>3 DEF RequestType, ShownTypes
<1>3. ASSUME NEW s \in Searches,
             handleGeocodeResponse(s) \/ handleGarbledResponse(s) \/ handleGeocodeError(s)
      PROVE  RequestType' /\ ShownTypes'
  <2>1. request' = [request EXCEPT ![s] = NoRequest]
    BY <1>3 DEF handleGeocodeResponse, handleGarbledResponse, handleGeocodeError, Ends
  <2>2. lastError' \in {lastError, s, 0} /\ resultList' \in {resultList, s, 0}
    BY <1>3 DEF handleGeocodeResponse, handleGarbledResponse, handleGeocodeError
  <2> QED
    BY <1>0, <2>1, <2>2 DEF RequestType, ShownTypes
<1>4. CASE UNCHANGED appVars
  BY <1>4 DEF appVars, serviceVars, searchVars, pageVars, RequestType, ShownTypes
<1> QED
  BY <1>1, <1>2, <1>3, <1>4 DEF AppNext

(* Every variable of service and page has its type, and a search that waits  *)
(* to be shown has an answer.                                               *)
THEOREM AppTypeCorrect == AppSpec => []AppTypeOK
<1>1. TypeOK /\ ServiceInv /\ PageInv /\ RequestType /\ ShownTypes => AppTypeOK
  <2> SUFFICES ASSUME TypeOK, ServiceInv, PageInv, RequestType, ShownTypes PROVE AppTypeOK
    OBVIOUS
  <2>1. \A s \in Searches : search[s] = "answered" => answer[s] # NoAnswer
    BY AnswerAssumption DEF ServiceInv, VersionInv
  <2> QED
    BY <2>1 DEF PageInv, PageTypes, SearchTypes, States, RequestType, ShownTypes, AppTypeOK
<1>2. AppSpec => []TypeOK
  BY RefreshImplemented, TypeCorrect, PTL DEF FairSpec
<1>3. AppSpec => [](RequestType /\ ShownTypes)
  BY InitShown, NextShown, PTL DEF AppSpec
<1> QED
  BY <1>1, <1>2, <1>3, ServiceInductive, PageInductive, PTL

=============================================================================
