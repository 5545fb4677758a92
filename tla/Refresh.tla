------------------------------ MODULE Refresh ------------------------------
(***************************************************************************)
(* The refresh of the address data of bev-search: UtilBean.refreshBevData()*)
(* (asynchronous, any number of calls at a time) calls the singleton       *)
(* DataUpdateBean twice, for the database and for the search index.        *)
(*                                                                         *)
(* The container admits one caller at a time to the singleton and lets a   *)
(* waiting caller time out.  The scripts import_data.sql and               *)
(* prepare_data.sql commit as they go and write no undo log: what a failed *)
(* call has done to the tables stays.                                      *)
(*                                                                         *)
(* Every CSV file has a version; what a table holds is abstracted to the   *)
(* version it was read from, or 0 when it is empty or only partly filled.  *)
(* The files are read one after the other, and nothing keeps a delivery    *)
(* away from them meanwhile: an import may mix the files of two deliveries.*)
(***************************************************************************)
EXTENDS Integers

CONSTANTS
    Calls,      \* calls of refreshBevData(), numbered as they are made
    NoCall,     \* nobody
    NFiles,     \* CSV files of a delivery, one for each table
    MaxCsv,     \* bound: versions of a CSV file
    MaxFaults   \* bound: exceptions and crashes

ASSUME RefreshAssumption ==
    /\ Calls \subseteq Nat
    /\ NoCall \notin Calls
    /\ NFiles \in Nat \ {0}
    /\ MaxCsv \in Nat \ {0}
    /\ MaxFaults \in Nat

VARIABLES
    csv,             \* versions of the CSV files in the import directory
    exchanged,       \* whether one was exchanged, or a refresh failed, since the
                     \* tables were last emptied
    tables,          \* content of the tables BEV.ADRESSE etc., one for each file
    denormalized,    \* the content of the tables BEV.ADRESSE_DENORMALIZED joins
    primary_key,     \* whether BEV.ADRESSE_DENORMALIZED has its primary key
    index,           \* content of the search index
    lock,            \* the caller the container admitted to the singleton
    rebuildRunning,
    pc,              \* where each call stands
    faults           \* exceptions and crashes so far

files == <<csv, exchanged>>
data == <<tables, denormalized, primary_key, index>>
bean == <<lock, rebuildRunning>>
vars == <<files, data, bean, pc, faults>>

Files == 1..NFiles  \* in the order import_data.sql reads them
Content == [Files -> 0..MaxCsv]
Partial == [f \in Files |-> 0]
Complete(content) == \A f \in Files : content[f] # 0

DbBody == {"db_set", "truncate", "import", "dropkey", "empty", "denormalize",
           "createkey", "db_done"}
IndexBody == {"index_set", "purge", "index", "index_done"}
Body == DbBody \cup IndexBody
Label == Body \cup {"new", "db", "db_check", "index_call", "index_check",
                    "done", "rejected", "lost"}

Goto(c, label) == pc' = [pc EXCEPT ![c] = label]

(* The installed system: one version, imported and indexed. *)
Init ==
    /\ csv = [f \in Files |-> 1]
    /\ exchanged = FALSE
    /\ tables = csv
    /\ denormalized = csv
    /\ primary_key = TRUE
    /\ index = csv
    /\ lock = NoCall
    /\ rebuildRunning = FALSE
    /\ pc = [c \in Calls |-> "new"]
    /\ faults = 0

-----------------------------------------------------------------------------
(* A new CSV file is put into the import directory. *)
NewFile(f) ==
    /\ csv[f] < MaxCsv
    /\ csv' = [csv EXCEPT ![f] = @ + 1]
    /\ exchanged' = TRUE
    /\ UNCHANGED <<data, bean, pc, faults>>

(* refreshBevData() starts with updateBean.rebuildDatabase() ... *)
Begin(c) ==
    /\ pc[c] = "new"
    /\ \A d \in Calls : d < c => pc[d] # "new"
    /\ Goto(c, "db")
    /\ UNCHANGED <<files, data, bean, faults>>

(* ... and returns, whatever became of its calls; only the log tells.  (The  *)
(* times it adds up are left out, and being local it does so in the step    *)
(* before.)                                                                 *)
Return(c) == Goto(c, "done")

(* Mutant of Admit: the container does not serialise the calls. *)
AdmitAll(c) ==
    /\ pc[c] \in {"db", "index_call"}
    /\ lock' = c
    /\ Goto(c, IF pc[c] = "db" THEN "db_check" ELSE "index_check")
    /\ UNCHANGED <<files, data, rebuildRunning, faults>>

(* The container admits the call of a method of the singleton ... *)
Admit(c) ==
    /\ pc[c] \in {"db", "index_call"}
    /\ lock = NoCall
    /\ lock' = c
    /\ Goto(c, IF pc[c] = "db" THEN "db_check" ELSE "index_check")
    /\ UNCHANGED <<files, data, rebuildRunning, faults>>

(* ... or lets it wait too long and throws an exception. *)
TimeOut(c) ==
    /\ pc[c] \in {"db", "index_call"}
    /\ lock # NoCall
    /\ Return(c)
    /\ UNCHANGED <<files, data, bean, faults>>

(* The operation under way rejects another one. *)
Check(c) ==
    /\ pc[c] \in {"db_check", "index_check"}
    /\ IF rebuildRunning
          THEN /\ lock' = NoCall
               /\ Goto(c, "rejected")
          ELSE /\ Goto(c, IF pc[c] = "db_check" THEN "db_set" ELSE "index_set")
               /\ UNCHANGED lock
    /\ UNCHANGED <<files, data, rebuildRunning, faults>>

SetRunning(c) ==
    /\ pc[c] \in {"db_set", "index_set"}
    /\ rebuildRunning' = TRUE
    /\ Goto(c, IF pc[c] = "db_set" THEN "truncate" ELSE "purge")
    /\ UNCHANGED <<files, data, lock, faults>>

-----------------------------------------------------------------------------
(* Leaving a method of the singleton *)

(* Mutant of Leave: rebuildRunning is not reset. *)
LeaveRunning ==
    /\ lock' = NoCall
    /\ UNCHANGED rebuildRunning

Leave ==
    /\ rebuildRunning' = FALSE
    /\ lock' = NoCall

(* Mutant of Throw: refreshBevData() tries again. *)
ThrowRetries(c) ==
    /\ Leave
    /\ Goto(c, "db")
    /\ exchanged' = TRUE
    /\ UNCHANGED csv

(* An exception: logged, and caught by refreshBevData(), which returns.      *)
(* (setRollbackOnly() in rebuildIndex(), which runs without a transaction,  *)
(* throws another one in its place, to the same effect.)                    *)
Throw(c) ==
    /\ Leave
    /\ Return(c)
    /\ exchanged' = TRUE
    /\ UNCHANGED csv

(* Any step fails: files missing, a full disk, the transaction's timeout. *)
Fault(c) ==
    /\ faults < MaxFaults
    /\ faults' = faults + 1
    /\ pc[c] \in Body \ {"db_set", "index_set", "index_done"}
    /\ Throw(c)
    /\ UNCHANGED data

-----------------------------------------------------------------------------
(* rebuildDatabase() *)

Step(c, from, to) ==
    /\ pc[c] = from
    /\ Goto(c, to)
    /\ UNCHANGED <<files, bean, faults>>

(* import_data.sql empties the tables, which commits, ... *)
Truncate(c) ==
    /\ pc[c] = "truncate"
    /\ Goto(c, "import")
    /\ tables' = Partial
    /\ exchanged' = FALSE
    /\ UNCHANGED <<csv, denormalized, primary_key, index>>
    /\ UNCHANGED <<bean, faults>>

(* ... and fills one after the other with the file as it is then. *)
NextFile(f) == tables[f] = 0 /\ \A g \in 1..(f - 1) : tables[g] # 0

(* Mutant of Import: it reads a file of any delivery. *)
ImportAny(c) ==
    \E f \in Files :
        /\ NextFile(f)
        /\ Step(c, "import", IF f = NFiles THEN "dropkey" ELSE "import")
        /\ \E version \in 1..csv[f] : tables' = [tables EXCEPT ![f] = version]
        /\ UNCHANGED <<denormalized, primary_key, index>>

Import(c) ==
    \E f \in Files :
        /\ NextFile(f)
        /\ Step(c, "import", IF f = NFiles THEN "dropkey" ELSE "import")
        /\ tables' = [tables EXCEPT ![f] = csv[f]]
        /\ UNCHANGED <<denormalized, primary_key, index>>

(* prepare_data.sql drops the primary key, which is an error if there is    *)
(* none ...                                                                 *)
DropKey(c) ==
    /\ primary_key
    /\ primary_key' = FALSE
    /\ Step(c, "dropkey", "empty")
    /\ UNCHANGED <<tables, denormalized, index>>

NoKey(c) ==
    /\ ~primary_key
    /\ pc[c] = "dropkey"
    /\ Throw(c)
    /\ UNCHANGED <<data, faults>>

(* ... empties and fills the table of addresses ... *)
Empty(c) ==
    /\ Step(c, "empty", "denormalize")
    /\ denormalized' = Partial
    /\ UNCHANGED <<tables, primary_key, index>>

Denormalize(c) ==
    /\ Step(c, "denormalize", "createkey")
    /\ denormalized' = tables
    /\ UNCHANGED <<tables, primary_key, index>>

(* ... and creates the key again. *)
CreateKey(c) ==
    /\ Step(c, "createkey", "db_done")
    /\ primary_key' = TRUE
    /\ UNCHANGED <<tables, denormalized, index>>

(* Mutant of DatabaseRebuilt: the index is left as it is. *)
DatabaseRebuiltOnly(c) ==
    /\ pc[c] = "db_done"
    /\ Leave
    /\ Return(c)
    /\ UNCHANGED <<files, data, faults>>

DatabaseRebuilt(c) ==
    /\ pc[c] = "db_done"
    /\ Leave
    /\ Goto(c, "index_call")
    /\ UNCHANGED <<files, data, faults>>

-----------------------------------------------------------------------------
(* rebuildIndex(): the mass indexer empties the index and fills it again    *)
(* from the table.                                                          *)
Purge(c) ==
    /\ Step(c, "purge", "index")
    /\ index' = Partial
    /\ UNCHANGED <<tables, denormalized, primary_key>>

Index(c) ==
    /\ Step(c, "index", "index_done")
    /\ index' = denormalized
    /\ UNCHANGED <<tables, denormalized, primary_key>>

IndexRebuilt(c) ==
    /\ pc[c] = "index_done"
    /\ Leave
    /\ Return(c)
    /\ UNCHANGED <<files, data, faults>>

(* The server stops and is started again: the calls are lost, and without   *)
(* recovery logs so may be the rows the scripts were writing.               *)
Active(c) == pc[c] \notin {"new", "done", "rejected", "lost"}

Crash ==
    /\ faults < MaxFaults
    /\ faults' = faults + 1
    /\ \E c \in Calls : Active(c)
    /\ pc' = [c \in Calls |-> IF Active(c) THEN "lost" ELSE pc[c]]
    /\ lock' = NoCall
    /\ rebuildRunning' = FALSE
    /\ IF \E c \in Calls : pc[c] \in DbBody
          THEN /\ tables' \in {[f \in Files |-> IF f \in lost THEN 0 ELSE tables[f]] :
                                    lost \in SUBSET Files}
               /\ denormalized' \in {denormalized, Partial}
          ELSE UNCHANGED <<tables, denormalized>>
    /\ exchanged' = TRUE
    /\ UNCHANGED <<csv, primary_key, index>>

CallStep(c) ==
    \/ Admit(c) \/ TimeOut(c) \/ Check(c) \/ SetRunning(c)
    \/ Truncate(c) \/ Import(c) \/ DropKey(c) \/ NoKey(c) \/ Empty(c)
    \/ Denormalize(c) \/ CreateKey(c) \/ DatabaseRebuilt(c)
    \/ Purge(c) \/ Index(c) \/ IndexRebuilt(c)

Next ==
    \/ \E f \in Files : NewFile(f)
    \/ Crash
    \/ \E c \in Calls : Begin(c) \/ CallStep(c) \/ Fault(c)

Spec == Init /\ [][Next]_vars

(* The container runs every call that was started. *)
FairSpec == Spec /\ \A c \in Calls : WF_vars(CallStep(c))

-----------------------------------------------------------------------------
(* Properties *)

(* Every variable has its type, and the flag is only set by the caller that  *)
(* the container admitted.                                                  *)
TypeOK ==
    /\ csv \in [Files -> 1..MaxCsv]
    /\ exchanged \in BOOLEAN
    /\ {tables, denormalized, index} \subseteq Content
    /\ primary_key \in BOOLEAN
    /\ lock \in Calls \cup {NoCall}
    /\ rebuildRunning \in BOOLEAN
    /\ rebuildRunning => lock # NoCall
    /\ pc \in [Calls -> Label]
    /\ faults \in 0..MaxFaults

(* "The update operations are managed by a singleton EJB to ensure that only *)
(* one update operation is running at a time" (DataUpdateBean.java:55).     *)
OneAtATime ==
    \A c, d \in Calls : pc[c] \in Body /\ pc[d] \in Body => c = d

(* When rebuildDatabase() is about to return, every table is complete, the  *)
(* table of addresses joins what they hold and has its key: nobody changed  *)
(* them in the meantime.  They hold the delivery that is there, unless a    *)
(* file was exchanged since they were emptied; then they may be a mixture   *)
(* of two deliveries, which nothing in the code notices.  When              *)
(* rebuildIndex() is about to return, the index holds what the table holds. *)
RebuiltIsComplete ==
    \A c \in Calls :
        /\ pc[c] = "db_done" =>
              /\ Complete(tables) /\ denormalized = tables /\ primary_key
              /\ exchanged \/ tables = csv
        /\ pc[c] = "index_done" => index = denormalized

(* rebuildRunning is reset on every way out: no later call is rejected with *)
(* "There is already an rebuild operation running".                         *)
NeverRejected == \A c \in Calls : pc[c] # "rejected"

(* However the two operations of several refreshes interleave, and whichever *)
(* of their calls time out: as long as nothing fails, the index and the     *)
(* tables agree and are complete once no refresh is under way, and they are *)
(* the delivery that is there if no file was exchanged since the last       *)
(* import began.                                                            *)
Quiet == \A c \in Calls : ~Active(c)

IndexIsCurrent ==
    Quiet /\ faults = 0 =>
        /\ index = denormalized /\ denormalized = tables /\ Complete(tables)
        /\ exchanged \/ tables = csv

(* Every call of refreshBevData() returns, unless the server stops: none is  *)
(* under way for ever.                                                      *)
CallReturns == \A c \in Calls : []<>~Active(c)

(* "Delete all data in the database and rebuild it" (DataUpdateBean.java:86):*)
(* the scripts find what they expect, whatever an earlier refresh left.      *)
RebuildsFromAnyState == \A c \in Calls : pc[c] = "dropkey" => primary_key

=============================================================================
