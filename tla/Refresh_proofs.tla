--------------------------- MODULE Refresh_proofs ---------------------------
(***************************************************************************)
(* Theorems about Refresh for any number of calls, deliveries and faults.  *)
(* The argument is that of a lock: a call inside the singleton holds it    *)
(* (LockInv), the flag is set only by a call inside (FlagInv), and so what  *)
(* that call has done to the data so far is still there (DataInv).         *)
(***************************************************************************)
EXTENDS Refresh, TLAPS

Inside == Body \cup {"db_check", "index_check"}
Running == Body \ {"db_set", "index_set"}
Imported == {"dropkey", "empty", "denormalize", "createkey", "db_done"}

TypeInv ==
    /\ pc \in [Calls -> Label]
    /\ csv \in [Files -> 1..MaxCsv]
    /\ exchanged \in BOOLEAN
    /\ tables \in Content
    /\ rebuildRunning \in BOOLEAN

LockInv == \A c \in Calls : pc[c] \in Inside => lock = c

FlagInv == rebuildRunning => lock \in Calls /\ pc[lock] \in Running

DataInv ==
    \A c \in Calls :
        /\ pc[c] \in Imported => Complete(tables)
        /\ pc[c] \in {"createkey", "db_done"} => denormalized = tables
        /\ pc[c] = "db_done" => primary_key
        /\ pc[c] = "index_done" => index = denormalized

(* What was read from the files is what they hold, unless one was exchanged. *)
FilesInv ==
    /\ exchanged \/ \A f \in Files : tables[f] \in {0, csv[f]}
    /\ \A f \in Files : tables[f] <= csv[f]

IInv == TypeInv /\ LockInv /\ FlagInv /\ DataInv /\ FilesInv /\ NeverRejected

USE DEF Label, Body, DbBody, IndexBody, Inside, Running, Imported, Goto

-----------------------------------------------------------------------------
LEMMA FirstFiles ==
    Init => /\ csv \in [Files -> 1..MaxCsv] /\ tables \in Content /\ tables = csv
            /\ denormalized = tables /\ index = tables
            /\ Complete(tables)
BY RefreshAssumption DEF Init, Content, Complete

LEMMA InitIInv == Init => IInv
<1> SUFFICES ASSUME Init PROVE IInv
  OBVIOUS
<1>1. TypeInv
  <2>1. pc \in [Calls -> Label]
    BY DEF Init
  <2> QED
    BY <2>1, FirstFiles DEF Init, TypeInv
<1>2. LockInv /\ DataInv
  BY DEF Init, LockInv, DataInv
<1>3. FlagInv
  BY DEF Init, FlagInv
<1>4. FilesInv
  <2>1. \A f \in Files : csv[f] \in Int /\ tables[f] = csv[f]
    BY FirstFiles
  <2> QED
    BY <2>1 DEF FilesInv
<1>5. NeverRejected
  BY DEF Init, NeverRejected
<1> QED
  BY <1>1, <1>2, <1>3, <1>4, <1>5 DEF IInv

(* A call that waits or goes in *)
LEMMA BeginIInv ==
    ASSUME IInv, NEW c \in Calls, Begin(c) PROVE IInv'
BY RefreshAssumption DEF Begin, data, bean, files, IInv,
   TypeInv, LockInv, FlagInv, DataInv, FilesInv, NeverRejected

LEMMA AdmitIInv ==
    ASSUME IInv, NEW c \in Calls, Admit(c) PROVE IInv'
BY RefreshAssumption DEF Admit, data, bean, files, IInv,
   TypeInv, LockInv, FlagInv, DataInv, FilesInv, NeverRejected

LEMMA TimeOutIInv ==
    ASSUME IInv, NEW c \in Calls, TimeOut(c) PROVE IInv'
BY RefreshAssumption DEF TimeOut, Return, data, bean, files, IInv,
   TypeInv, LockInv, FlagInv, DataInv, FilesInv, NeverRejected

LEMMA CheckIInv ==
    ASSUME IInv, NEW c \in Calls, Check(c) PROVE IInv'
BY RefreshAssumption DEF Check, data, bean, files, IInv,
   TypeInv, LockInv, FlagInv, DataInv, FilesInv, NeverRejected

LEMMA SetRunningIInv ==
    ASSUME IInv, NEW c \in Calls, SetRunning(c) PROVE IInv'
BY RefreshAssumption DEF SetRunning, data, bean, files, IInv,
   TypeInv, LockInv, FlagInv, DataInv, FilesInv, NeverRejected

(* A call that leaves, in good order or not *)
LEMMA FaultIInv ==
    ASSUME IInv, NEW c \in Calls, Fault(c) PROVE IInv'
BY RefreshAssumption DEF Fault, Step, Throw, Leave, Return, data, bean, files, IInv,
   TypeInv, LockInv, FlagInv, DataInv, FilesInv, NeverRejected

LEMMA NoKeyIInv ==
    ASSUME IInv, NEW c \in Calls, NoKey(c) PROVE IInv'
BY RefreshAssumption DEF NoKey, Step, Throw, Leave, Return, data, bean, files, IInv,
   TypeInv, LockInv, FlagInv, DataInv, FilesInv, NeverRejected

LEMMA DatabaseRebuiltIInv ==
    ASSUME IInv, NEW c \in Calls, DatabaseRebuilt(c) PROVE IInv'
BY RefreshAssumption DEF DatabaseRebuilt, Step, Throw, Leave, Return, data, bean, files, IInv,
   TypeInv, LockInv, FlagInv, DataInv, FilesInv, NeverRejected

LEMMA IndexRebuiltIInv ==
    ASSUME IInv, NEW c \in Calls, IndexRebuilt(c) PROVE IInv'
BY RefreshAssumption DEF IndexRebuilt, Step, Throw, Leave, Return, data, bean, files, IInv,
   TypeInv, LockInv, FlagInv, DataInv, FilesInv, NeverRejected

(* The steps of the scripts: the tables are those of the call that holds the lock. *)
LEMMA NothingRead ==
    /\ Partial \in Content
    /\ \A f \in Files : Partial[f] = 0
BY RefreshAssumption DEF Partial, Content

LEMMA TruncateIInv ==
    ASSUME IInv, NEW c \in Calls, Truncate(c) PROVE IInv'
<1>1. TypeInv' /\ LockInv' /\ FlagInv' /\ NeverRejected'
  BY NothingRead DEF Truncate, bean, IInv, TypeInv, LockInv, FlagInv, NeverRejected
<1>2. DataInv'
  BY DEF Truncate, bean, IInv, TypeInv, LockInv, DataInv
<1>3. FilesInv'
  <2>1. \A f \in Files : csv[f] \in 1..MaxCsv
    BY DEF IInv, TypeInv
  <2> QED
    BY <2>1, NothingRead, RefreshAssumption DEF Truncate, FilesInv
<1> QED
  BY <1>1, <1>2, <1>3 DEF IInv

LEMMA ImportIInv ==
    ASSUME IInv, NEW c \in Calls, Import(c) PROVE IInv'
<1>1. PICK f \in Files :
          /\ NextFile(f)
          /\ Step(c, "import", IF f = NFiles THEN "dropkey" ELSE "import")
          /\ tables' = [tables EXCEPT ![f] = csv[f]]
          /\ UNCHANGED <<denormalized, primary_key, index>>
  BY DEF Import
<1>2. /\ UNCHANGED <<files, bean>>
      /\ pc[c] = "import"
      /\ pc' = [pc EXCEPT ![c] = IF f = NFiles THEN "dropkey" ELSE "import"]
  BY <1>1 DEF Step
<1>3. \A g \in Files : csv[g] \in 1..MaxCsv /\ tables[g] \in 0..MaxCsv
  BY DEF IInv, TypeInv, Content
<1>4. /\ tables' \in Content
      /\ \A g \in Files : tables'[g] = IF g = f THEN csv[g] ELSE tables[g]
  BY <1>1, <1>3, RefreshAssumption DEF IInv, TypeInv, Content
<1>5. f = NFiles => Complete(tables')
  BY <1>1, <1>3, <1>4, RefreshAssumption DEF NextFile, Files, Complete
<1>6. TypeInv' /\ LockInv' /\ FlagInv' /\ NeverRejected'
  BY <1>2, <1>4 DEF files, bean, IInv, TypeInv, LockInv, FlagInv, NeverRejected
<1>7. DataInv'
  BY <1>1, <1>2, <1>5 DEF bean, IInv, TypeInv, LockInv, DataInv
<1>8. FilesInv'
  BY <1>2, <1>3, <1>4, RefreshAssumption DEF files, IInv, FilesInv
<1> QED
  BY <1>6, <1>7, <1>8 DEF IInv

LEMMA DropKeyIInv ==
    ASSUME IInv, NEW c \in Calls, DropKey(c) PROVE IInv'
BY RefreshAssumption DEF DropKey, Step, Throw, Leave, Return, data, bean, files, IInv,
   TypeInv, LockInv, FlagInv, DataInv, FilesInv, NeverRejected

LEMMA EmptyIInv ==
    ASSUME IInv, NEW c \in Calls, Empty(c) PROVE IInv'
BY RefreshAssumption DEF Empty, Step, Throw, Leave, Return, data, bean, files, IInv,
   TypeInv, LockInv, FlagInv, DataInv, FilesInv, NeverRejected

LEMMA DenormalizeIInv ==
    ASSUME IInv, NEW c \in Calls, Denormalize(c) PROVE IInv'
BY RefreshAssumption DEF Denormalize, Step, Throw, Leave, Return, data, bean, files, IInv,
   TypeInv, LockInv, FlagInv, DataInv, FilesInv, NeverRejected

LEMMA CreateKeyIInv ==
    ASSUME IInv, NEW c \in Calls, CreateKey(c) PROVE IInv'
BY RefreshAssumption DEF CreateKey, Step, Throw, Leave, Return, data, bean, files, IInv,
   TypeInv, LockInv, FlagInv, DataInv, FilesInv, NeverRejected

(* The steps of the mass indexer *)
LEMMA PurgeIInv ==
    ASSUME IInv, NEW c \in Calls, Purge(c) PROVE IInv'
BY RefreshAssumption DEF Purge, Step, Throw, Leave, Return, data, bean, files, IInv,
   TypeInv, LockInv, FlagInv, DataInv, FilesInv, NeverRejected

LEMMA IndexIInv ==
    ASSUME IInv, NEW c \in Calls, Index(c) PROVE IInv'
BY RefreshAssumption DEF Index, Step, Throw, Leave, Return, data, bean, files, IInv,
   TypeInv, LockInv, FlagInv, DataInv, FilesInv, NeverRejected

(* The files change, or the server is started again. *)
LEMMA NewFileIInv ==
    ASSUME IInv, NEW f \in Files, NewFile(f) PROVE IInv'
<1>1. UNCHANGED <<data, bean, pc, faults>> /\ exchanged' = TRUE
  BY DEF NewFile
<1>2. \A g \in Files : csv[g] \in 1..MaxCsv /\ tables[g] \in 0..MaxCsv
  BY DEF IInv, TypeInv, Content
<1>3. /\ csv' \in [Files -> 1..MaxCsv]
      /\ \A g \in Files : csv'[g] = IF g = f THEN csv[g] + 1 ELSE csv[g]
  BY <1>2, RefreshAssumption DEF NewFile, IInv, TypeInv
<1>4. TypeInv' /\ LockInv' /\ FlagInv' /\ NeverRejected' /\ DataInv'
  BY <1>1, <1>3 DEF data, bean, IInv, TypeInv, LockInv, FlagInv, DataInv, NeverRejected
<1>5. FilesInv'
  BY <1>1, <1>2, <1>3, RefreshAssumption DEF data, IInv, FilesInv
<1> QED
  BY <1>4, <1>5 DEF IInv

(* A crash may lose what was read. *)
LEMMA CrashTables ==
    ASSUME IInv, Crash
    PROVE  /\ tables' \in Content
           /\ \A f \in Files : tables'[f] \in {0, tables[f]}
<1>1. CASE tables' = tables
  BY <1>1 DEF IInv, TypeInv
<1>2. CASE \E lost \in SUBSET Files :
              tables' = [f \in Files |-> IF f \in lost THEN 0 ELSE tables[f]]
  BY <1>2, RefreshAssumption DEF IInv, TypeInv, Content
<1> QED
  BY <1>1, <1>2 DEF Crash

LEMMA CrashIInv == IInv /\ Crash => IInv'
<1> SUFFICES ASSUME IInv, Crash PROVE IInv'
  OBVIOUS
<1>1. /\ pc' \in [Calls -> Label]
      /\ \A c \in Calls : pc'[c] \in {"new", "done", "lost"}
  BY DEF Crash, Active, IInv, TypeInv, NeverRejected
<1>2. TypeInv'
  BY <1>1, CrashTables DEF Crash, IInv, TypeInv
<1>3. LockInv' /\ FlagInv' /\ DataInv'
  BY <1>1 DEF Crash, LockInv, FlagInv, DataInv
<1>4. FilesInv'
  <2>1. \A f \in Files : csv[f] \in 1..MaxCsv
    BY DEF IInv, TypeInv
  <2> QED
    BY <2>1, CrashTables, RefreshAssumption DEF Crash, IInv, FilesInv
<1>5. NeverRejected'
  BY <1>1 DEF NeverRejected
<1> QED
  BY <1>2, <1>3, <1>4, <1>5 DEF IInv

LEMMA StutterIInv == IInv /\ UNCHANGED vars => IInv'
BY DEF vars, data, bean, files, IInv,
   TypeInv, LockInv, FlagInv, DataInv, FilesInv, NeverRejected

-----------------------------------------------------------------------------
LEMMA Inductive == Spec => []IInv
<1>1. IInv /\ [Next]_vars => IInv'
  <2> SUFFICES ASSUME IInv, [Next]_vars PROVE IInv'
    OBVIOUS
  <2>1. ASSUME NEW f \in Files, NewFile(f) PROVE IInv'
    BY <2>1, NewFileIInv
  <2>2. CASE Crash
    BY <2>2, CrashIInv
  <2>3. ASSUME NEW c \in Calls, Begin(c) \/ CallStep(c) \/ Fault(c)
        PROVE  IInv'
    BY <2>3, BeginIInv, AdmitIInv, TimeOutIInv, CheckIInv, SetRunningIInv,
       FaultIInv, NoKeyIInv, DatabaseRebuiltIInv, IndexRebuiltIInv,
       TruncateIInv, ImportIInv, DropKeyIInv, EmptyIInv, DenormalizeIInv,
       CreateKeyIInv, PurgeIInv, IndexIInv DEF CallStep
  <2>4. CASE UNCHANGED vars
    BY <2>4, StutterIInv
  <2> QED
    BY <2>1, <2>2, <2>3, <2>4 DEF Next
<1> QED
  BY InitIInv, <1>1, PTL DEF Spec

-----------------------------------------------------------------------------
(* The types of the other variables *)
OtherTypes ==
    /\ denormalized \in Content /\ index \in Content
    /\ primary_key \in BOOLEAN
    /\ lock \in Calls \cup {NoCall}
    /\ faults \in 0..MaxFaults

LEMMA NextOtherTypes == IInv /\ OtherTypes /\ [Next]_vars => OtherTypes'
<1> SUFFICES ASSUME IInv, OtherTypes, [Next]_vars PROVE OtherTypes'
  OBVIOUS
<1>1. tables \in Content /\ Partial \in Content
  BY NothingRead DEF IInv, TypeInv
<1>2. ASSUME NEW f \in Files, NewFile(f) PROVE OtherTypes'
  BY <1>2 DEF NewFile, data, bean, OtherTypes
<1>3. CASE Crash
  <2>1. faults' \in 0..MaxFaults
    BY <1>3, RefreshAssumption DEF Crash, OtherTypes
  <2>2. denormalized' \in {denormalized, Partial}
    BY <1>3 DEF Crash
  <2>3. lock' = NoCall /\ UNCHANGED <<primary_key, index>>
    BY <1>3 DEF Crash
  <2> QED
    BY <1>1, <2>1, <2>2, <2>3 DEF OtherTypes
<1>4. ASSUME NEW c \in Calls,
             \/ Begin(c) \/ Admit(c) \/ TimeOut(c) \/ Check(c) \/ SetRunning(c) \/ NoKey(c)
             \/ DatabaseRebuilt(c) \/ IndexRebuilt(c)
      PROVE  OtherTypes'
  <2>1. /\ UNCHANGED <<denormalized, primary_key, index, faults>>
        /\ lock' \in {lock, c, NoCall}
    BY <1>4 DEF Begin, Admit, TimeOut, Check, SetRunning, NoKey, DatabaseRebuilt,
                IndexRebuilt, Throw, Leave, data, bean
  <2> QED
    BY <2>1 DEF OtherTypes
<1>5. ASSUME NEW c \in Calls, Fault(c) PROVE OtherTypes'
  <2>1. faults' \in 0..MaxFaults
    BY <1>5, RefreshAssumption DEF Fault, OtherTypes
  <2>2. lock' = NoCall /\ UNCHANGED <<denormalized, primary_key, index>>
    BY <1>5 DEF Fault, Throw, Leave, data
  <2> QED
    BY <2>1, <2>2 DEF OtherTypes
<1>6. ASSUME NEW c \in Calls,
             \/ Truncate(c) \/ Import(c) \/ DropKey(c) \/ Empty(c)
             \/ Denormalize(c) \/ CreateKey(c) \/ Purge(c) \/ Index(c)
      PROVE  OtherTypes'
  <2>1. UNCHANGED <<lock, faults>>
    BY <1>6 DEF Truncate, Import, DropKey, Empty, Denormalize, CreateKey, Purge, Index, Step, bean
  <2>2. /\ denormalized' \in {denormalized, Partial, tables}
        /\ index' \in {index, Partial, denormalized}
        /\ primary_key' \in {primary_key, TRUE, FALSE}
    BY <1>6 DEF Truncate, Import, DropKey, Empty, Denormalize, CreateKey, Purge, Index
  <2> QED
    BY <1>1, <2>1, <2>2 DEF OtherTypes
<1>7. CASE UNCHANGED vars
  BY <1>7 DEF vars, data, bean, OtherTypes
<1> QED
  BY <1>2, <1>3, <1>4, <1>5, <1>6, <1>7 DEF Next, CallStep

(* Every variable of the refresh has its type, and the flag is only set by   *)
(* the caller the container admitted.                                       *)
THEOREM TypeCorrect == Spec => []TypeOK
<1>1. Init => OtherTypes
  BY FirstFiles, RefreshAssumption DEF Init, OtherTypes
<1>2. IInv /\ OtherTypes => TypeOK
  BY RefreshAssumption DEF IInv, TypeInv, FlagInv, OtherTypes, TypeOK
<1> QED
  BY <1>1, <1>2, NextOtherTypes, Inductive, PTL DEF Spec

-----------------------------------------------------------------------------
(* However many refreshes are called, one update operation runs at a time:   *)
(* a call in the body of a method holds the lock of the singleton.          *)
THEOREM OneOperationAtATime == Spec => []OneAtATime
<1>1. IInv => OneAtATime
  BY DEF IInv, LockInv, OneAtATime
<1> QED
  BY Inductive, <1>1, PTL

(* Files that were not exchanged since the tables were emptied, and all read *)
LEMMA ReadIsDelivered == IInv /\ Complete(tables) => exchanged \/ tables = csv
<1> SUFFICES ASSUME IInv, Complete(tables), ~exchanged PROVE tables = csv
  OBVIOUS
<1>1. \A f \in Files : tables[f] = csv[f]
  BY DEF IInv, FilesInv, Complete
<1> QED
  BY <1>1 DEF IInv, TypeInv, Content

(* What an operation has rebuilt is complete and untouched when it returns,  *)
(* whatever other calls, faults and deliveries of files come in between, and *)
(* it is what was delivered unless a file was exchanged meanwhile.          *)
THEOREM RebuiltCompletely == Spec => []RebuiltIsComplete
<1>1. IInv => RebuiltIsComplete
  <2>1. ASSUME IInv, NEW c \in Calls, pc[c] = "db_done"
        PROVE  Complete(tables) /\ (exchanged \/ tables = csv)
    BY <2>1, ReadIsDelivered DEF IInv, DataInv
  <2> QED
    BY <2>1, Zenon DEF IInv, DataInv, RebuiltIsComplete
<1> QED
  BY Inductive, <1>1, PTL

(* rebuildRunning never rejects a call: the container's lock already keeps   *)
(* calls apart, and every way out of an operation resets the flag.          *)
THEOREM CallsNeverRejected == Spec => []NeverRejected
<1>1. IInv => NeverRejected
  BY DEF IInv
<1> QED
  BY Inductive, <1>1, PTL

(* The primary key is gone, and nobody is about to create it again. *)
KeyLost ==
    ~primary_key /\ \A c \in Calls : pc[c] \notin {"empty", "denormalize", "createkey"}

NothingRebuilt == KeyLost => \A c \in Calls : pc[c] # "db_done"

(* RebuildsFromAnyState fails for good: once a refresh has ended without the *)
(* key, no later one, however many are called, creates it again or gets to   *)
(* the end of rebuildDatabase().                                            *)
THEOREM KeyLostForGood == Spec => [][KeyLost => KeyLost']_vars /\ []NothingRebuilt
<1>1. IInv /\ [Next]_vars => [KeyLost => KeyLost']_vars
  <2> SUFFICES ASSUME IInv, Next, KeyLost PROVE KeyLost'
    OBVIOUS
  <2> USE DEF KeyLost, IInv, TypeInv
  <2>1. CASE Crash \/ \E f \in Files : NewFile(f)
    BY <2>1 DEF NewFile, Crash, data
  <2>2. ASSUME NEW c \in Calls, Begin(c) \/ Admit(c) \/ TimeOut(c) \/ Check(c) \/ SetRunning(c)
        PROVE  KeyLost'
    BY <2>2 DEF Begin, Admit, TimeOut, Check, SetRunning, Return, data
  <2>3. ASSUME NEW c \in Calls, Fault(c) \/ NoKey(c) \/ DatabaseRebuilt(c) \/ IndexRebuilt(c)
        PROVE  KeyLost'
    BY <2>3 DEF Fault, NoKey, DatabaseRebuilt, IndexRebuilt, Return, Throw, data
  <2>4. ASSUME NEW c \in Calls, \/ Truncate(c) \/ Import(c) \/ DropKey(c) \/ Empty(c)
                                \/ Denormalize(c) \/ CreateKey(c) \/ Purge(c) \/ Index(c)
        PROVE  KeyLost'
    BY <2>4 DEF Truncate, Import, DropKey, Empty, Denormalize, CreateKey, Purge, Index, Step
  <2> QED
    BY <2>1, <2>2, <2>3, <2>4 DEF Next, CallStep
<1>2. IInv => NothingRebuilt
  BY DEF IInv, DataInv, KeyLost, NothingRebuilt
<1> QED
  BY <1>1, <1>2, Inductive, PTL DEF Spec

-----------------------------------------------------------------------------
(* Why the index is current in the end.  As long as nothing failed, a call   *)
(* that will still rebuild the index is under way whenever the index is      *)
(* stale (StaleInv): the call that changed the table goes on to rebuild the  *)
(* index, and if it is not admitted in time, the call it waited for is or    *)
(* will be inside one of the two methods itself.                            *)
WillIndex == DbBody \cup {"db_check", "index_call", "index_check", "index_set",
                          "purge", "index"}

HolderInv == lock # NoCall => lock \in Calls /\ pc[lock] \in Inside

StaleInv == index # denormalized => \E c \in Calls : pc[c] \in WillIndex

ScriptsInv ==
    /\ ~(denormalized = tables /\ Complete(tables)) =>
          \E c \in Calls : pc[c] \in {"import", "dropkey", "empty", "denormalize"}
    /\ ~primary_key =>
          \E c \in Calls : pc[c] \in {"empty", "denormalize", "createkey"}

CurrentInv ==
    /\ IInv
    /\ HolderInv
    /\ faults \in Nat
    /\ faults = 0 => StaleInv /\ ScriptsInv

USE DEF WillIndex

LEMMA InitCurrent == Init => CurrentInv
BY InitIInv, FirstFiles DEF Init, CurrentInv, HolderInv, StaleInv, ScriptsInv

LEMMA BeginCurrent ==
    ASSUME CurrentInv, NEW c \in Calls, Begin(c) PROVE CurrentInv'
BY RefreshAssumption, BeginIInv DEF Begin, Step, Throw, Leave, Return, data, bean, files,
   IInv, TypeInv, LockInv, FlagInv, DataInv, CurrentInv, HolderInv, StaleInv, ScriptsInv

LEMMA AdmitCurrent ==
    ASSUME CurrentInv, NEW c \in Calls, Admit(c) PROVE CurrentInv'
BY RefreshAssumption, AdmitIInv DEF Admit, Step, Throw, Leave, Return, data, bean, files,
   IInv, TypeInv, LockInv, FlagInv, DataInv, CurrentInv, HolderInv, StaleInv, ScriptsInv

LEMMA CheckCurrent ==
    ASSUME CurrentInv, NEW c \in Calls, Check(c) PROVE CurrentInv'
BY RefreshAssumption, CheckIInv DEF Check, Step, Throw, Leave, Return, data, bean, files,
   IInv, TypeInv, LockInv, FlagInv, DataInv, CurrentInv, HolderInv, StaleInv, ScriptsInv

LEMMA SetRunningCurrent ==
    ASSUME CurrentInv, NEW c \in Calls, SetRunning(c) PROVE CurrentInv'
BY RefreshAssumption, SetRunningIInv DEF SetRunning, Step, Throw, Leave, Return, data, bean, files,
   IInv, TypeInv, LockInv, FlagInv, DataInv, CurrentInv, HolderInv, StaleInv, ScriptsInv

LEMMA DatabaseRebuiltCurrent ==
    ASSUME CurrentInv, NEW c \in Calls, DatabaseRebuilt(c) PROVE CurrentInv'
BY RefreshAssumption, DatabaseRebuiltIInv DEF DatabaseRebuilt, Step, Throw, Leave, Return, data, bean, files,
   IInv, TypeInv, LockInv, FlagInv, DataInv, CurrentInv, HolderInv, StaleInv, ScriptsInv

LEMMA IndexRebuiltCurrent ==
    ASSUME CurrentInv, NEW c \in Calls, IndexRebuilt(c) PROVE CurrentInv'
BY RefreshAssumption, IndexRebuiltIInv DEF IndexRebuilt, Step, Throw, Leave, Return, data, bean, files,
   IInv, TypeInv, LockInv, FlagInv, DataInv, CurrentInv, HolderInv, StaleInv, ScriptsInv

LEMMA TruncateCurrent ==
    ASSUME CurrentInv, NEW c \in Calls, Truncate(c) PROVE CurrentInv'
BY RefreshAssumption, TruncateIInv DEF Truncate, Step, Throw, Leave, Return, data, bean, files,
   IInv, TypeInv, LockInv, FlagInv, DataInv, CurrentInv, HolderInv, StaleInv, ScriptsInv

LEMMA ImportCurrent ==
    ASSUME CurrentInv, NEW c \in Calls, Import(c) PROVE CurrentInv'
<1>1. PICK to \in {"import", "dropkey"} :
          /\ pc[c] = "import" /\ pc' = [pc EXCEPT ![c] = to]
          /\ UNCHANGED <<bean, faults, denormalized, primary_key, index>>
  BY DEF Import, Step
<1>2. IInv' /\ HolderInv' /\ faults' \in Nat
  BY <1>1, ImportIInv DEF bean, IInv, TypeInv, LockInv, CurrentInv, HolderInv
<1>3. pc'[c] \in {"import", "dropkey"}
  BY <1>1 DEF CurrentInv, IInv, TypeInv
<1>4. faults' = 0 => StaleInv' /\ ScriptsInv'
  BY <1>1, <1>3 DEF CurrentInv, IInv, TypeInv, StaleInv, ScriptsInv
<1> QED
  BY <1>2, <1>4 DEF CurrentInv

LEMMA DropKeyCurrent ==
    ASSUME CurrentInv, NEW c \in Calls, DropKey(c) PROVE CurrentInv'
BY RefreshAssumption, DropKeyIInv DEF DropKey, Step, Throw, Leave, Return, data, bean, files,
   IInv, TypeInv, LockInv, FlagInv, DataInv, CurrentInv, HolderInv, StaleInv, ScriptsInv

LEMMA EmptyCurrent ==
    ASSUME CurrentInv, NEW c \in Calls, Empty(c) PROVE CurrentInv'
BY RefreshAssumption, EmptyIInv DEF Empty, Step, Throw, Leave, Return, data, bean, files,
   IInv, TypeInv, LockInv, FlagInv, DataInv, CurrentInv, HolderInv, StaleInv, ScriptsInv

LEMMA DenormalizeCurrent ==
    ASSUME CurrentInv, NEW c \in Calls, Denormalize(c) PROVE CurrentInv'
<1>1. IInv' /\ HolderInv' /\ faults' \in Nat
  BY RefreshAssumption, DenormalizeIInv DEF Denormalize, Step, bean, IInv, TypeInv,
     LockInv, CurrentInv, HolderInv
<1>2. pc'[c] = "createkey"
  BY DEF Denormalize, Step, CurrentInv, IInv, TypeInv
<1>3. denormalized' = tables' /\ Complete(tables')
  BY DEF Denormalize, Step, CurrentInv, IInv, DataInv
<1>4. StaleInv' /\ ScriptsInv'
  BY <1>2, <1>3 DEF StaleInv, ScriptsInv
<1> QED
  BY <1>1, <1>4 DEF CurrentInv

LEMMA CreateKeyCurrent ==
    ASSUME CurrentInv, NEW c \in Calls, CreateKey(c) PROVE CurrentInv'
BY RefreshAssumption, CreateKeyIInv DEF CreateKey, Step, Throw, Leave, Return, data, bean, files,
   IInv, TypeInv, LockInv, FlagInv, DataInv, CurrentInv, HolderInv, StaleInv, ScriptsInv

LEMMA PurgeCurrent ==
    ASSUME CurrentInv, NEW c \in Calls, Purge(c) PROVE CurrentInv'
BY RefreshAssumption, PurgeIInv DEF Purge, Step, Throw, Leave, Return, data, bean, files,
   IInv, TypeInv, LockInv, FlagInv, DataInv, CurrentInv, HolderInv, StaleInv, ScriptsInv

LEMMA IndexCurrent ==
    ASSUME CurrentInv, NEW c \in Calls, Index(c) PROVE CurrentInv'
BY RefreshAssumption, IndexIInv DEF Index, Step, Throw, Leave, Return, data, bean, files,
   IInv, TypeInv, LockInv, FlagInv, DataInv, CurrentInv, HolderInv, StaleInv, ScriptsInv

LEMMA TimeOutCurrent ==
    ASSUME CurrentInv, NEW c \in Calls, TimeOut(c) PROVE CurrentInv'
BY RefreshAssumption, TimeOutIInv DEF TimeOut, Return, data, bean, files,
   IInv, TypeInv, LockInv, FlagInv, DataInv, CurrentInv, HolderInv, StaleInv, ScriptsInv

LEMMA NoKeyCurrent ==
    ASSUME CurrentInv, NEW c \in Calls, NoKey(c) PROVE CurrentInv'
BY RefreshAssumption, NoKeyIInv DEF NoKey, Throw, Leave, Return, data, bean, files,
   IInv, TypeInv, LockInv, FlagInv, DataInv, CurrentInv, HolderInv, StaleInv, ScriptsInv

LEMMA FaultCurrent ==
    ASSUME CurrentInv, NEW c \in Calls, Fault(c) PROVE CurrentInv'
<1>1. IInv'
  BY FaultIInv DEF CurrentInv
<1>2. HolderInv'
  BY DEF Fault, Throw, Leave, Return, HolderInv
<1>3. faults' \in Nat /\ faults' # 0
  BY DEF Fault, CurrentInv
<1> QED
  BY <1>1, <1>2, <1>3 DEF CurrentInv

LEMMA NewFileCurrent ==
    ASSUME CurrentInv, NEW f \in Files, NewFile(f) PROVE CurrentInv'
BY NewFileIInv DEF NewFile, data, bean, CurrentInv, HolderInv, StaleInv, ScriptsInv

LEMMA CrashCurrent == CurrentInv /\ Crash => CurrentInv'
BY CrashIInv DEF Crash, CurrentInv, HolderInv

LEMMA StutterCurrent == CurrentInv /\ UNCHANGED vars => CurrentInv'
BY StutterIInv DEF vars, data, bean, files, CurrentInv, HolderInv, StaleInv, ScriptsInv

LEMMA CurrentInductive == Spec => []CurrentInv
<1>1. CurrentInv /\ [Next]_vars => CurrentInv'
  <2> SUFFICES ASSUME CurrentInv, [Next]_vars PROVE CurrentInv'
    OBVIOUS
  <2>1. ASSUME NEW f \in Files, NewFile(f) PROVE CurrentInv'
    BY <2>1, NewFileCurrent
  <2>2. CASE Crash
    BY <2>2, CrashCurrent
  <2>3. ASSUME NEW c \in Calls, Begin(c) \/ CallStep(c) \/ Fault(c)
        PROVE  CurrentInv'
    BY <2>3, BeginCurrent, AdmitCurrent, TimeOutCurrent, CheckCurrent,
       SetRunningCurrent, FaultCurrent, NoKeyCurrent, DatabaseRebuiltCurrent,
       IndexRebuiltCurrent, TruncateCurrent, ImportCurrent,
       DropKeyCurrent, EmptyCurrent, DenormalizeCurrent, CreateKeyCurrent,
       PurgeCurrent, IndexCurrent DEF CallStep
  <2>4. CASE UNCHANGED vars
    BY <2>4, StutterCurrent
  <2> QED
    BY <2>1, <2>2, <2>3, <2>4 DEF Next
<1> QED
  BY InitCurrent, <1>1, PTL DEF Spec

LEMMA CurrentIsCurrent == CurrentInv => IndexIsCurrent
BY ReadIsDelivered DEF CurrentInv, IInv, TypeInv, StaleInv, ScriptsInv, NeverRejected,
   IndexIsCurrent, Quiet, Active

(* However many refreshes overlap, and whichever of their calls time out     *)
(* waiting for the singleton: as long as nothing failed, the index and the  *)
(* tables agree and are complete once no refresh is under way.              *)
THEOREM IndexCurrentInTheEnd == Spec => []IndexIsCurrent
BY CurrentInductive, CurrentIsCurrent, PTL

=============================================================================
