---------------------------- MODULE FirmwareProofs ----------------------------
(***************************************************************************)
(* The inductive invariant of Firmware.tla and what follows from it, for   *)
(* every number of files and of versions, whatever is killed and whenever  *)
(* the module takes the kernel down; a host that dies before os.sync() is  *)
(* left out, since it may lose the record and keep the file.               *)
(***************************************************************************)
EXTENDS Firmware, TLAPS

ASSUME PowerSpared == "power" \notin Faults

\* a file that is there was written by someone
Ownership == \A n \in Names : by[n] = "nobody" <=> file[n] = Nothing

\* a file of the project is in the record, unless the record cannot be read
Recorded ==
  \A n \in Names : by[n] = "project" => record = "torn" \/ sha[n] # Nothing
RecordOK == record # "whole" => sha = Empty

\* while a command is at work
Working ==
  pc # "idle" => /\ ~driver /\ ~unloaded
                 /\ pc # "clean" => record # "torn"

\* ensure_driver(): what was seen is there, what is to be created is not, and
\* is in the record before it is created
Loading ==
  /\ pc \in {"stat", "record", "create"} =>
       /\ \A n \in Names \ todo : file[n] = version
       /\ \A n \in Names : sha[n] # Nothing => owned[n] # Nothing
  /\ pc \in {"record", "create"} =>
       \A n \in Names : First(n) => file[n] = Nothing /\ owned[n] # Nothing
  /\ pc = "create" => record = "whole" /\ sha = owned
  /\ pc = "insmod" => \A n \in Names : file[n] = version

\* unload(): the files of the project that are left are still to be looked at
Removing == pc = "remove" => \A n \in Names : by[n] = "project" => n \in todo

\* Of the files of others a command claims none that the record does not, and it
\* removes what the record says.
Claiming ==
  /\ pc \in {"stat", "record"} => \A n \in Names : by[n] = "other" => owned[n] = sha[n]
  /\ pc = "remove" => owned = sha

\* everything has reached the disk when the module comes in
OnDisk == driver \/ pc = "insmod" => synced = files

\* the inductive invariant: who wrote what, what the record says of it, what a
\* command knows between two steps, and what a panic cannot take
FirmwareInv == /\ TypeOK /\ Ownership /\ Recorded /\ RecordOK /\ Working
               /\ Loading /\ Removing /\ Claiming /\ OnDisk /\ UnloadedClean

USE DEF Owners, Records, Digests, Empty, files, command

\* the contents a file may have, told apart
LEMMA Values ==
  /\ Versions \subseteq Contents /\ {Nothing, Torn, Alien, 1} \subseteq Contents
  /\ Nothing \notin Versions /\ 1 \in Versions
  /\ Torn \notin {Nothing} \cup Versions /\ Alien \notin {Nothing} \cup Versions
BY VersionsAssumption DEF Versions, Contents, Nothing, Torn, Alien

-----------------------------------------------------------------------------
\* types of the files and the record
LEMMA FilesOKStep ==
  ASSUME FilesOK, SyncedOK, CommandOK, Next
  PROVE  FilesOK'
<1> USE Values
<1>1. CASE WriteRecord
  BY <1>1 DEF WriteRecord, SaveRecord, FilesOK, CommandOK
<1>2. CASE Create
  BY <1>2 DEF Create, Put, FilesOK, CommandOK
<1>3. CASE Remove
  BY <1>3 DEF Remove, Put, FilesOK
<1>4. CASE Forget
  BY <1>4 DEF Forget, SaveRecord, FilesOK
<1>5. CASE Killed
  BY <1>5 DEF Killed, SaveRecord, Put, FilesOK
<1>6. CASE HostDies
  BY <1>6, PowerSpared DEF HostDies, SaveRecord, FilesOK, SyncedOK
<1>7. CASE Others
  BY <1>7 DEF Others, Put, FilesOK
<1>8. CASE Load \/ Stat \/ Sync \/ Insmod \/ Unload \/ ReadRecord \/ Update
  BY <1>8 DEF Load, Stat, Sync, Insmod, Unload, ReadRecord, Update, FilesOK
<1> QED
  BY <1>1, <1>2, <1>3, <1>4, <1>5, <1>6, <1>7, <1>8 DEF Next, Command

\* types of what is on the disk
LEMMA SyncedOKStep ==
  ASSUME FilesOK, SyncedOK, Next
  PROVE  SyncedOK'
<1> USE Values
<1>1. CASE Sync
  BY <1>1 DEF Sync, Return, FilesOK, SyncedOK
<1>2. CASE HostDies
  BY <1>2, PowerSpared DEF HostDies, SaveRecord, FilesOK, SyncedOK
<1>3. CASE Others
  BY <1>3 DEF Others, Put, FilesOK, SyncedOK
<1>4. CASE Load \/ Stat \/ WriteRecord \/ Create \/ Insmod \/ Unload
           \/ ReadRecord \/ Remove \/ Forget \/ Killed \/ Update
  BY <1>4
    DEF Load, Stat, WriteRecord, Create, Insmod, Unload, ReadRecord, Remove,
        Forget, Killed, Update, SyncedOK
<1> QED
  BY <1>1, <1>2, <1>3, <1>4 DEF Next, Command

\* types of what the command keeps
LEMMA CommandOKStep ==
  ASSUME FilesOK, CommandOK, Next
  PROVE  CommandOK'
<1> USE Values
<1>1. CASE Load
  BY <1>1 DEF Load, Return, FilesOK, CommandOK
<1>2. CASE Stat
  BY <1>2 DEF Stat, Return, Goto, CommandOK
<1>3. CASE WriteRecord
  BY <1>3 DEF WriteRecord, Goto, CommandOK
<1>4. CASE Create
  BY <1>4 DEF Create, Goto, CommandOK
<1>5. CASE Sync
  BY <1>5 DEF Sync, Goto, Return, CommandOK
<1>6. CASE Insmod
  BY <1>6 DEF Insmod, Return, CommandOK
<1>7. CASE Unload
  BY <1>7 DEF Unload, Return, CommandOK
<1>8. CASE ReadRecord
  BY <1>8 DEF ReadRecord, Return, Goto, FilesOK, CommandOK
<1>9. CASE Remove
  BY <1>9 DEF Remove, Return, CommandOK
<1>10. CASE Forget
  BY <1>10 DEF Forget, Return, CommandOK
<1>11. CASE Killed
  BY <1>11 DEF Killed, Return, CommandOK
<1>12. CASE HostDies
  BY <1>12, PowerSpared DEF HostDies, Return, CommandOK
<1>13. CASE Update
  BY <1>13 DEF Update, CommandOK
<1>14. CASE Others
  BY <1>14 DEF Others, CommandOK
<1> QED
  BY <1>1, <1>2, <1>3, <1>4, <1>5, <1>6, <1>7, <1>8, <1>9, <1>10, <1>11, <1>12,
     <1>13, <1>14
    DEF Next, Command

\* only writers make files
LEMMA OwnershipStep ==
  ASSUME FilesOK, CommandOK, Ownership, OnDisk, Next
  PROVE  Ownership'
<1> USE Values
<1>1. CASE Create
  BY <1>1 DEF Create, Put, FilesOK, CommandOK, Ownership
<1>2. CASE Remove
  BY <1>2 DEF Remove, Put, FilesOK, Ownership
<1>3. CASE Killed
  BY <1>3 DEF Killed, Put, FilesOK, Ownership
<1>4. CASE HostDies
  BY <1>4, PowerSpared DEF HostDies, Ownership, OnDisk
<1>5. CASE Others
  BY <1>5 DEF Others, Put, FilesOK, Ownership
<1>6. CASE Load \/ Stat \/ WriteRecord \/ Sync \/ Insmod \/ Unload
           \/ ReadRecord \/ Forget \/ Update
  BY <1>6
    DEF Load, Stat, WriteRecord, Sync, Insmod, Unload, ReadRecord, Forget,
        Update, Ownership
<1> QED
  BY <1>1, <1>2, <1>3, <1>4, <1>5, <1>6 DEF Next, Command

\* the record is written before a file and forgotten after it
LEMMA RecordedStep ==
  ASSUME FilesOK, CommandOK, Recorded, Working, Loading, Removing, OnDisk, Next
  PROVE  Recorded'
<1> USE Values
<1>1. CASE WriteRecord
  BY <1>1 DEF WriteRecord, SaveRecord, Recorded, Working, Loading
<1>2. CASE Create
  BY <1>2 DEF Create, Put, Recorded, Loading
<1>3. CASE Remove
  BY <1>3 DEF Remove, Put, FilesOK, Recorded
<1>4. CASE Forget
  BY <1>4 DEF Forget, Recorded, Removing
<1>5. CASE Killed
  BY <1>5 DEF Killed, SaveRecord, Put, FilesOK, Recorded, Loading
<1>6. CASE HostDies
  BY <1>6, PowerSpared DEF HostDies, SaveRecord, Recorded, OnDisk
<1>7. CASE Others
  BY <1>7 DEF Others, Put, FilesOK, Recorded
<1>8. CASE Load \/ Stat \/ Sync \/ Insmod \/ Unload \/ ReadRecord \/ Update
  BY <1>8 DEF Load, Stat, Sync, Insmod, Unload, ReadRecord, Update, Recorded
<1> QED
  BY <1>1, <1>2, <1>3, <1>4, <1>5, <1>6, <1>7, <1>8 DEF Next, Command

\* only a whole record names files
LEMMA RecordOKStep ==
  ASSUME FilesOK, RecordOK, OnDisk, Next
  PROVE  RecordOK'
<1> USE Values
<1>1. CASE WriteRecord
  BY <1>1 DEF WriteRecord, SaveRecord, RecordOK
<1>2. CASE Forget
  BY <1>2 DEF Forget, SaveRecord, RecordOK
<1>3. CASE Killed
  BY <1>3 DEF Killed, SaveRecord, RecordOK
<1>4. CASE HostDies
  BY <1>4, PowerSpared DEF HostDies, SaveRecord, RecordOK, OnDisk
<1>5. CASE Load \/ Stat \/ Create \/ Sync \/ Insmod \/ Unload \/ ReadRecord
           \/ Remove \/ Update \/ Others
  BY <1>5
    DEF Load, Stat, Create, Sync, Insmod, Unload, ReadRecord, Remove, Update,
        Others, RecordOK
<1> QED
  BY <1>1, <1>2, <1>3, <1>4, <1>5 DEF Next, Command

\* a command works without the module, and on a record it could read
LEMMA WorkingStep ==
  ASSUME CommandOK, FilesOK, Working, Next
  PROVE  Working'
<1> USE Values
<1>1. CASE Load
  BY <1>1 DEF Load, Return, Working
<1>2. CASE Stat
  BY <1>2 DEF Stat, Return, Goto, Working
<1>3. CASE WriteRecord
  BY <1>3 DEF WriteRecord, SaveRecord, Goto, Working
<1>4. CASE Create
  BY <1>4 DEF Create, Goto, Working
<1>5. CASE Sync
  BY <1>5 DEF Sync, Goto, Return, Working
<1>6. CASE Insmod
  BY <1>6 DEF Insmod, Return, Working
<1>7. CASE Unload
  BY <1>7 DEF Unload, Return, Working
<1>8. CASE ReadRecord
  BY <1>8 DEF ReadRecord, Return, Goto, FilesOK, Working
<1>9. CASE Remove
  BY <1>9 DEF Remove, Return, Working
<1>10. CASE Forget
  BY <1>10 DEF Forget, Return, Working
<1>11. CASE Killed
  BY <1>11 DEF Killed, Return, Working
<1>12. CASE HostDies
  BY <1>12, PowerSpared DEF HostDies, Return, Working
<1>13. CASE Update \/ Others
  BY <1>13 DEF Update, Others, Working
<1> QED
  BY <1>1, <1>2, <1>3, <1>4, <1>5, <1>6, <1>7, <1>8, <1>9, <1>10, <1>11, <1>12,
     <1>13
    DEF Next, Command

\* ensure_driver() records what it creates and creates what it checked
LEMMA LoadingStep ==
  ASSUME FilesOK, CommandOK, Loading, Working, Ownership, Next
  PROVE  Loading'
<1> USE Values
<1>1. CASE Load
  BY <1>1 DEF Load, Return, Loading
<1>2. CASE Stat
  <2>1. PICK k \in Names :
          /\ First(k)
          /\ \/ file[k] = version /\ todo' = todo \ {k} /\ UNCHANGED <<pc, owned, unloaded>>
             \/ file[k] \notin {version, Nothing} /\ Return(FALSE)
             \/ /\ file[k] = Nothing /\ owned' = [owned EXCEPT ![k] = version]
                /\ Goto("record") /\ UNCHANGED todo
    BY <1>2 DEF Stat
  <2>2. \A m \in Names : First(m) => m = k
    BY <2>1 DEF First, Names
  <2> QED
    BY <1>2, <2>1, <2>2 DEF Stat, First, Return, Goto, CommandOK, Loading
<1>3. CASE WriteRecord
  BY <1>3 DEF WriteRecord, First, SaveRecord, Goto, Loading
<1>4. CASE Create
  BY <1>4 DEF Create, Put, Goto, FilesOK, Loading
<1>5. CASE Sync
  BY <1>5 DEF Sync, Goto, Return, Loading
<1>6. CASE Insmod
  BY <1>6 DEF Insmod, Return, Loading
<1>7. CASE Unload
  BY <1>7 DEF Unload, Return, Loading
<1>8. CASE ReadRecord
  BY <1>8 DEF ReadRecord, Return, Goto, FilesOK, Loading
<1>9. CASE Remove
  BY <1>9 DEF Remove, Return, Loading
<1>10. CASE Forget
  BY <1>10 DEF Forget, Return, Loading
<1>11. CASE Killed
  BY <1>11 DEF Killed, Return, Loading
<1>12. CASE HostDies
  BY <1>12, PowerSpared DEF HostDies, Return, Loading
<1>13. CASE Update
  BY <1>13 DEF Update, Loading
<1>14. CASE Others
  BY <1>14 DEF Others, Loading
<1> QED
  BY <1>1, <1>2, <1>3, <1>4, <1>5, <1>6, <1>7, <1>8, <1>9, <1>10, <1>11, <1>12,
     <1>13, <1>14
    DEF Next, Command

\* unload() passes over no file of the project
LEMMA RemovingStep ==
  ASSUME FilesOK, CommandOK, Removing, Recorded, Ownership, Next
  PROVE  Removing'
<1> USE Values
<1>1. CASE Load
  BY <1>1 DEF Load, Return, Removing
<1>2. CASE Stat
  BY <1>2 DEF Stat, Return, Goto, Removing
<1>3. CASE WriteRecord
  BY <1>3 DEF WriteRecord, Goto, Removing
<1>4. CASE Create
  BY <1>4 DEF Create, Goto, Removing
<1>5. CASE Sync
  BY <1>5 DEF Sync, Goto, Return, Removing
<1>6. CASE Insmod
  BY <1>6 DEF Insmod, Return, Removing
<1>7. CASE Unload
  BY <1>7 DEF Unload, Return, Removing
<1>8. CASE ReadRecord
  BY <1>8 DEF ReadRecord, Return, FilesOK, Removing, Recorded
<1>9. CASE Remove
  BY <1>9 DEF Remove, Put, Return, FilesOK, Removing, Ownership
<1>10. CASE Forget
  BY <1>10 DEF Forget, Removing
<1>11. CASE Killed
  BY <1>11 DEF Killed, Return, Removing
<1>12. CASE HostDies
  BY <1>12, PowerSpared DEF HostDies, Return, Removing
<1>13. CASE Others
  BY <1>13 DEF Others, Removing
<1>14. CASE Update
  BY <1>14 DEF Update, Removing
<1> QED
  BY <1>1, <1>2, <1>3, <1>4, <1>5, <1>6, <1>7, <1>8, <1>9, <1>10, <1>11, <1>12,
     <1>13, <1>14
    DEF Next, Command

\* a command claims only what it found missing
LEMMA ClaimingStep ==
  ASSUME FilesOK, CommandOK, Claiming, Loading, Ownership, Next
  PROVE  Claiming'
<1> USE Values
<1>1. CASE Load
  BY <1>1 DEF Load, Return, Claiming
<1>2. CASE Stat
  BY <1>2 DEF Stat, Return, Goto, CommandOK, Claiming, Ownership
<1>3. CASE WriteRecord
  BY <1>3 DEF WriteRecord, Goto, Claiming
<1>4. CASE Create
  BY <1>4 DEF Create, Put, Goto, FilesOK, Claiming, Loading
<1>5. CASE Sync
  BY <1>5 DEF Sync, Goto, Return, Claiming
<1>6. CASE Unload \/ Insmod \/ Forget \/ Killed
  BY <1>6 DEF Unload, Insmod, Forget, Killed, Return, Claiming
<1>7. CASE ReadRecord
  BY <1>7 DEF ReadRecord, Return, Goto, FilesOK, Claiming
<1>8. CASE Remove
  BY <1>8 DEF Remove, Return, Claiming
<1>9. CASE HostDies
  BY <1>9, PowerSpared DEF HostDies, Return, Claiming
<1>10. CASE Others \/ Update
  BY <1>10 DEF Others, Update, Claiming
<1> QED
  BY <1>1, <1>2, <1>3, <1>4, <1>5, <1>6, <1>7, <1>8, <1>9, <1>10 DEF Next, Command

\* os.sync() comes before the module
LEMMA OnDiskStep ==
  ASSUME FilesOK, CommandOK, Working, OnDisk, Next
  PROVE  OnDisk'
<1> USE Values
<1>1. CASE Load
  BY <1>1 DEF Load, Return, OnDisk
<1>2. CASE Stat
  BY <1>2 DEF Stat, Return, Goto, OnDisk
<1>3. CASE WriteRecord
  BY <1>3 DEF WriteRecord, Goto, Working, OnDisk
<1>4. CASE Create
  BY <1>4 DEF Create, Goto, Working, OnDisk
<1>5. CASE Sync
  BY <1>5 DEF Sync, Return, OnDisk
<1>6. CASE Insmod
  BY <1>6 DEF Insmod, OnDisk
<1>7. CASE Unload
  BY <1>7 DEF Unload, OnDisk
<1>8. CASE ReadRecord
  BY <1>8 DEF ReadRecord, Return, Goto, FilesOK, OnDisk
<1>9. CASE Remove
  BY <1>9 DEF Remove, Return, Working, OnDisk
<1>10. CASE Forget
  BY <1>10 DEF Forget, Return, Working, OnDisk
<1>11. CASE Killed
  BY <1>11 DEF Killed, Return, Working, OnDisk
<1>12. CASE HostDies
  BY <1>12, PowerSpared DEF HostDies, OnDisk
<1>13. CASE Others
  BY <1>13 DEF Others, Put, OnDisk
<1>14. CASE Update
  BY <1>14 DEF Update, OnDisk
<1> QED
  BY <1>1, <1>2, <1>3, <1>4, <1>5, <1>6, <1>7, <1>8, <1>9, <1>10, <1>11, <1>12,
     <1>13, <1>14
    DEF Next, Command

\* unload() reports success last of all
LEMMA UnloadedCleanStep ==
  ASSUME FilesOK, CommandOK, Working, UnloadedClean, Recorded, RecordOK,
         Removing, Next
  PROVE  UnloadedClean'
<1> USE Values
<1>1. CASE Load
  BY <1>1 DEF Load, Return, UnloadedClean
<1>2. CASE Stat
  BY <1>2 DEF Stat, Return, Goto, UnloadedClean
<1>3. CASE Create
  BY <1>3 DEF Create, Goto, Working, UnloadedClean
<1>4. CASE Sync
  BY <1>4 DEF Sync, Goto, Return, UnloadedClean
<1>5. CASE Insmod
  BY <1>5 DEF Insmod, Return, UnloadedClean
<1>6. CASE Unload
  BY <1>6 DEF Unload, Return, UnloadedClean
<1>7. CASE ReadRecord
  BY <1>7 DEF ReadRecord, Return, Goto, UnloadedClean, Recorded, RecordOK
<1>8. CASE Remove
  BY <1>8 DEF Remove, Put, Return, FilesOK, UnloadedClean
<1>9. CASE Forget
  BY <1>9 DEF Forget, UnloadedClean, Removing
<1>10. CASE Killed
  BY <1>10 DEF Killed, Return, UnloadedClean
<1>11. CASE HostDies
  BY <1>11, PowerSpared DEF HostDies, Return, UnloadedClean
<1>12. CASE Others
  BY <1>12 DEF Others, Put, FilesOK, UnloadedClean
<1>13. CASE WriteRecord \/ Update
  BY <1>13 DEF WriteRecord, Update, Goto, UnloadedClean
<1> QED
  BY <1>1, <1>2, <1>3, <1>4, <1>5, <1>6, <1>7, <1>8, <1>9, <1>10, <1>11, <1>12,
     <1>13
    DEF Next, Command

-----------------------------------------------------------------------------
\* the invariant holds at first
LEMMA InitInv == Init => FirmwareInv
<1> SUFFICES ASSUME Init PROVE FirmwareInv
  OBVIOUS
<1> USE Values DEF Init
<1>1. FilesOK
  BY DEF FilesOK
<1>2. SyncedOK
  BY <1>1 DEF SyncedOK
<1>3. CommandOK
  BY DEF CommandOK
<1>4. Ownership /\ Recorded /\ RecordOK
  BY DEF Ownership, Recorded, RecordOK
<1>5. Working /\ Loading /\ Removing /\ Claiming /\ OnDisk /\ UnloadedClean
  BY DEF Working, Loading, Removing, Claiming, OnDisk, UnloadedClean
<1> QED BY <1>1, <1>2, <1>3, <1>4, <1>5 DEF FirmwareInv, TypeOK

\* every step keeps it
LEMMA NextInv == FirmwareInv /\ Next => FirmwareInv'
BY FilesOKStep, SyncedOKStep, CommandOKStep, OwnershipStep, RecordedStep,
   RecordOKStep, WorkingStep, LoadingStep, RemovingStep, ClaimingStep, OnDiskStep,
   UnloadedCleanStep
   DEF FirmwareInv, TypeOK

\* so does a step that changes nothing
LEMMA StutterInv == FirmwareInv /\ UNCHANGED vars => FirmwareInv'
BY DEF vars, FirmwareInv, TypeOK, FilesOK, SyncedOK, CommandOK, Ownership,
   Recorded, RecordOK, Working, Loading, Removing, Claiming, OnDisk, UnloadedClean, First

\* The invariant of every start and unload, in whatever order they come and
\* wherever they are cut short.
THEOREM SpecInv == Spec => []FirmwareInv
BY InitInv, NextInv, StutterInv, PTL DEF Spec

\* Every variable keeps its type.
THEOREM TypesKept == Spec => []TypeOK
<1>1. FirmwareInv => TypeOK
  BY DEF FirmwareInv
<1> QED BY <1>1, SpecInv, PTL

\* After an unload that reported success no file of the project is left.
THEOREM UnloadIsClean == Spec => []UnloadedClean
<1>1. FirmwareInv => UnloadedClean
  BY DEF FirmwareInv
<1> QED BY <1>1, SpecInv, PTL

\* insmod runs only when every file is what the project comes with.
THEOREM FirmwareIsThere == Spec => []LoadedWithFirmware
<1>1. FirmwareInv => LoadedWithFirmware
  BY DEF FirmwareInv, Loading, LoadedWithFirmware
<1> QED BY <1>1, SpecInv, PTL

\* No command, killed or not, overwrites a file of others, claims it, or removes it
\* where the record had not claimed these bytes under this name before.
THEOREM OthersAreKept == Spec => UnrelatedKept
<1> DEFINE Kept == \A n \in Names : by[n] = "other" =>
                     /\ file'[n] # file[n] => file'[n] = Nothing /\ file[n] = sha[n]
                     /\ sha'[n] # sha[n] => sha'[n] = Nothing
<1>1. ASSUME FirmwareInv, [Next]_vars PROVE [Command \/ Killed => Kept]_vars
  <2> SUFFICES ASSUME Command \/ Killed PROVE Kept
    OBVIOUS
  <2> USE <1>1, Values DEF FirmwareInv, TypeOK, FilesOK, CommandOK
  <2>1. CASE WriteRecord
    BY <2>1 DEF WriteRecord, SaveRecord, Claiming
  <2>2. CASE Create
    BY <2>2 DEF Create, Put, Loading, Ownership
  <2>3. CASE Remove
    BY <2>3 DEF Remove, Put, Claiming
  <2>4. CASE Forget
    BY <2>4 DEF Forget, SaveRecord
  <2>5. CASE Killed
    BY <2>5 DEF Killed, Put, SaveRecord, Loading, Ownership
  <2>6. CASE Load \/ Stat \/ Sync \/ Insmod \/ Unload \/ ReadRecord
    BY <2>6 DEF Load, Stat, Sync, Insmod, Unload, ReadRecord
  <2> QED BY <2>1, <2>2, <2>3, <2>4, <2>5, <2>6 DEF Command
<1> QED BY <1>1, SpecInv, PTL DEF Spec, UnrelatedKept
=============================================================================
