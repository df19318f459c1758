------------------------------- MODULE Firmware -------------------------------
(***************************************************************************)
(* The files the project puts into /lib/firmware: ensure_driver() and      *)
(* unload() of lib/manage.py, which run one at a time (operation.lock),    *)
(* and state/driver-files.json, in which they keep what is theirs.  The    *)
(* command may be killed in the middle of a write, and the module that is  *)
(* then loaded may take the kernel down, and with it what had not reached  *)
(* the disk.                                                               *)
(***************************************************************************)
EXTENDS Naturals

CONSTANTS
  NFiles,      \* MT7603USTA.dat and mt7603_e2.bin
  NVersions,   \* versions of them that the project comes with
  Faults       \* which of FaultKinds may happen

FaultKinds == {"kill",    \* SIGKILL, or ^C, of the command
               "panic",   \* the kernel dies in insmod or while the module is loaded
               "power"}   \* the host dies at any time

ASSUME FilesAssumption    == NFiles \in Nat /\ NFiles >= 1
ASSUME VersionsAssumption == NVersions \in Nat /\ NVersions >= 1
ASSUME FaultsAssumption   == Faults \subseteq FaultKinds

Names    == 1 .. NFiles
Versions == 1 .. NVersions
Nothing  == 0
Torn     == NVersions + 1     \* a part of a version
Alien    == NVersions + 2     \* a file of the same name that is something else
Contents == 0 .. NVersions + 2

VARIABLES
  file, by,     \* /lib/firmware: what each file is and who wrote it (history)
  record, sha,  \* driver-files.json: none, torn or whole; the digest of each name
  synced,       \* all four as they are on the disk for sure
  driver,       \* the module is loaded
  version,      \* what BASE/firmware has now
  pc, todo,     \* where the command is; the files it still has to look at
  owned,        \* its copy of the record
  unloaded      \* the last command was an unload that reported success

files   == <<file, by, record, sha>>
command == <<pc, todo, owned, unloaded>>
vars    == <<files, synced, driver, version, command>>

Owners  == {"nobody", "project", "other"}
Records == {"none", "torn", "whole"}
Digests == {Nothing} \cup Versions

FilesOK ==
  /\ file \in [Names -> Contents] /\ by \in [Names -> Owners]
  /\ record \in Records /\ sha \in [Names -> Digests]
SyncedOK ==
  /\ synced[1] \in [Names -> Contents] /\ synced[2] \in [Names -> Owners]
  /\ synced[3] \in Records /\ synced[4] \in [Names -> Digests]
CommandOK ==
  /\ driver \in BOOLEAN /\ unloaded \in BOOLEAN /\ version \in Versions
  /\ pc \in {"idle", "stat", "record", "create", "insmod", "clean", "remove"}
  /\ todo \subseteq Names /\ owned \in [Names -> Digests]
TypeOK == FilesOK /\ SyncedOK /\ CommandOK

Empty == [n \in Names |-> Nothing]

Init ==
  /\ file \in [Names -> {Nothing, 1, Alien}]
  /\ by = [n \in Names |-> IF file[n] = Nothing THEN "nobody" ELSE "other"]
  /\ record = "none" /\ sha = Empty /\ synced = files
  /\ driver = FALSE /\ version = 1
  /\ pc = "idle" /\ todo = {} /\ owned = Empty /\ unloaded = FALSE

Goto(to) == pc' = to /\ UNCHANGED unloaded
\* the command returns or raises
Return(r) == pc' = "idle" /\ todo' = {} /\ owned' = Empty /\ unloaded' = r
First(n) == n \in todo /\ \A m \in todo : n <= m
Put(n, content, who) == file' = [file EXCEPT ![n] = content] /\ by' = [by EXCEPT ![n] = who]
SaveRecord(kind, digests) == record' = kind /\ sha' = digests

-----------------------------------------------------------------------------
(* ensure_driver()                                                           *)

\* Mutant of Load: a record that cannot be parsed counts as one of all files
LoadAnyRecord ==
  /\ pc = "idle" /\ ~driver /\ pc' = "stat" /\ todo' = Names /\ unloaded' = FALSE
  /\ owned' = IF record = "torn" THEN [n \in Names |-> Torn] ELSE sha
  /\ UNCHANGED <<files, synced, driver, version>>

Load ==
  /\ pc = "idle" /\ ~driver
  /\ IF record = "torn" THEN Return(FALSE)
     ELSE pc' = "stat" /\ todo' = Names /\ owned' = sha /\ unloaded' = FALSE
  /\ UNCHANGED <<files, synced, driver, version>>

\* Mutant of Stat: a file that is there is used as it is
StatReuses ==
  /\ pc = "stat"
  /\ \E n \in Names : First(n) /\
     IF file[n] # Nothing THEN todo' = todo \ {n} /\ UNCHANGED <<pc, owned, unloaded>>
     ELSE owned' = [owned EXCEPT ![n] = version] /\ Goto("record") /\ UNCHANGED todo
  /\ UNCHANGED <<files, synced, driver, version>>

\* equal: reused, and nobody's; different: stop; missing: to be recorded first
Stat ==
  /\ pc = "stat"
  /\ \E n \in Names :
       /\ First(n)
       /\ \/ file[n] = version /\ todo' = todo \ {n} /\ UNCHANGED <<pc, owned, unloaded>>
          \/ file[n] \notin {version, Nothing} /\ Return(FALSE)
          \/ /\ file[n] = Nothing /\ owned' = [owned EXCEPT ![n] = version]
             /\ Goto("record") /\ UNCHANGED todo
  /\ UNCHANGED <<files, synced, driver, version>>

WriteRecord ==
  /\ pc = "record" /\ SaveRecord("whole", owned) /\ Goto("create")
  /\ UNCHANGED <<file, by, synced, driver, version, todo, owned>>

Create ==
  /\ pc = "create"
  /\ \E n \in Names : First(n) /\ Put(n, version, "project") /\ todo' = todo \ {n}
  /\ Goto("stat")
  /\ UNCHANGED <<record, sha, synced, driver, version, owned>>

\* Mutant of Sync: no os.sync()
SyncNot ==
  /\ pc = "stat" /\ todo = {} /\ Goto("insmod")
  /\ UNCHANGED <<files, synced, driver, version, todo, owned>>

\* modprobe cfg80211, which may fail, and os.sync()
Sync ==
  /\ pc = "stat" /\ todo = {}
  /\ \/ Goto("insmod") /\ synced' = files /\ UNCHANGED <<todo, owned>>
     \/ Return(FALSE) /\ UNCHANGED synced
  /\ UNCHANGED <<files, driver, version>>

Insmod ==
  /\ pc = "insmod" /\ Return(FALSE) /\ driver' \in BOOLEAN
  /\ UNCHANGED <<files, synced, version>>

-----------------------------------------------------------------------------
(* unload(), after stop()                                                    *)

Unload ==
  /\ pc = "idle"
  /\ \/ driver' = FALSE /\ pc' = "clean" /\ unloaded' = FALSE /\ UNCHANGED <<todo, owned>>
     \/ driver /\ Return(FALSE) /\ UNCHANGED driver
  /\ UNCHANGED <<files, synced, version>>

ReadRecord ==
  /\ pc = "clean"
  /\ CASE record = "none"  -> Return(TRUE)
       [] record = "torn"  -> Return(FALSE)
       [] record = "whole" -> /\ Goto("remove") /\ owned' = sha
                              /\ todo' = {n \in Names : sha[n] # Nothing}
  /\ UNCHANGED <<files, synced, driver, version>>

\* Mutant of Remove: the digest is not compared
RemoveUnseen ==
  /\ pc = "remove"
  /\ \E n \in todo : Put(n, Nothing, "nobody") /\ todo' = todo \ {n}
  /\ UNCHANGED <<record, sha, synced, driver, version, pc, owned, unloaded>>

\* in the order of the record, which depends on how it came about
Remove ==
  /\ pc = "remove"
  /\ \E n \in todo :
       \/ /\ file[n] = Nothing /\ todo' = todo \ {n}
          /\ UNCHANGED <<file, by, pc, owned, unloaded>>
       \/ /\ file[n] \notin {Nothing, owned[n]} /\ Return(FALSE)
          /\ UNCHANGED <<file, by>>
       \/ /\ file[n] = owned[n] /\ Put(n, Nothing, "nobody") /\ todo' = todo \ {n}
          /\ UNCHANGED <<pc, owned, unloaded>>
  /\ UNCHANGED <<record, sha, synced, driver, version>>

Forget ==
  /\ pc = "remove" /\ todo = {} /\ SaveRecord("none", Empty) /\ Return(TRUE)
  /\ UNCHANGED <<file, by, synced, driver, version>>

-----------------------------------------------------------------------------
(* What may happen to the command, to the host and to the files.             *)

\* a write that is cut short leaves a part of the file, write_text() as well
Killed ==
  /\ "kill" \in Faults /\ pc # "idle" /\ Return(FALSE)
  /\ \/ UNCHANGED files
     \/ pc = "record" /\ SaveRecord("torn", Empty) /\ UNCHANGED <<file, by>>
     \/ /\ pc = "create" /\ UNCHANGED <<record, sha>>
        /\ \E n \in Names : First(n) /\ Put(n, Torn, "project")
  /\ UNCHANGED <<synced, driver, version>>

\* What has been written since the last sync may be there or be lost.
HostDies ==
  /\ \/ "power" \in Faults
     \/ "panic" \in Faults /\ (driver \/ pc = "insmod")
  /\ \E lostRecord \in BOOLEAN, lost \in SUBSET Names :
       /\ file' = [n \in Names |-> IF n \in lost THEN synced[1][n] ELSE file[n]]
       /\ by' = [n \in Names |-> IF n \in lost THEN synced[2][n] ELSE by[n]]
       /\ IF lostRecord THEN SaveRecord(synced[3], synced[4]) ELSE UNCHANGED <<record, sha>>
  /\ synced' = files'
  /\ Return(FALSE) /\ driver' = FALSE /\ UNCHANGED version

\* git pull
Update ==
  /\ pc = "idle" /\ version' \in Versions \ {version}
  /\ UNCHANGED <<files, synced, driver, command>>

\* Another package, linux-firmware for one, or the administrator; while no
\* command runs.
Others ==
  /\ pc = "idle"
  /\ \E n \in Names :
       /\ \/ Put(n, Nothing, "nobody")
          \/ \E c \in {1, Alien} : Put(n, c, "other")
       /\ synced' = <<[synced[1] EXCEPT ![n] = file'[n]], [synced[2] EXCEPT ![n] = by'[n]],
                      synced[3], synced[4]>>
  /\ UNCHANGED <<record, sha, driver, version, command>>

Command == \/ Load \/ Stat \/ WriteRecord \/ Create \/ Sync \/ Insmod
           \/ Unload \/ ReadRecord \/ Remove \/ Forget

Next == Command \/ Killed \/ HostDies \/ Update \/ Others

Spec == Init /\ [][Next]_vars

-----------------------------------------------------------------------------
\* Of a file that another package or the administrator put there: no start and no
\* unload, killed or not, overwrites it ("never overwrite an unrelated firmware
\* file", manage.py:48), the record never comes to claim it, and it is removed
\* only where the record had claimed its name before, with just these bytes: then
\* unload takes it for the project's own and removes it (manage.py:140), though the
\* README promises to delete only what was created.
UnrelatedKept ==
  [][Command \/ Killed => \A n \in Names : by[n] = "other" =>
       /\ file'[n] # file[n] => file'[n] = Nothing /\ file[n] = sha[n]
       /\ sha'[n] # sha[n] => sha'[n] = Nothing]_vars

\* An unload that reports success leaves no file behind that the project wrote,
\* also when a start was killed or took the kernel down before it.
UnloadedClean == unloaded => \A n \in Names : by[n] # "project"

\* The module is loaded only with the firmware the project comes with, never
\* with a part of it that a killed start left.
LoadedWithFirmware == pc = "insmod" => \A n \in Names : file[n] = version
=============================================================================
