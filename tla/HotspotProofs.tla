---------------------------- MODULE HotspotProofs ----------------------------
(***************************************************************************)
(* The inductive invariant of Hotspot.tla and what follows from it, for    *)
(* every number of changes, every choice of the ip rules and of the nft    *)
(* exceptions, and every set of faults but the two shown to break it: a    *)
(* kill between rmtree and the last status, and failing writes.            *)
(***************************************************************************)
EXTENDS Hotspot, TLAPS

ASSUME FaultsSpared == "late" \notin Faults /\ "disk" \notin Faults

\* a worker that is not there has no memory
DeadIsEmpty ==
  wpc = "dead" => /\ undo = 0 /\ ~created /\ ~errs /\ ~failed /\ ~raised /\ ~stopping

\* before mkdir nothing was recorded, and leftovers still have their directory
EarlyIsClean ==
  wpc \in Early => /\ undo = 0 /\ ~created /\ ~errs /\ ~failed
                   /\ (Leftover => runDir)

\* while it makes changes and serves, the kernel holds what the undo list says
ChangingIsRecorded ==
  wpc \in Changing \cup Serving =>
    /\ created /\ ~errs /\ ~failed
    /\ \A r \in Rules : r <= undo => copies[r] > 0
    /\ wpc = "release" => undo = 0
    /\ wpc = "verify" => undo = Release
    /\ wpc = "apply" => undo \in Release..(NChanges - 1)
    /\ wpc = "hostapd" \/ wpc \in Serving => undo = NChanges

\* the undo list covers everything the kernel holds, or an error was noted
RecordCovers ==
  created => errs \/ \A c \in Kernel : c > undo => copies[c] = 0

\* the directory lasts as long as changes do
DirectoryHeld ==
  /\ created /\ wpc \notin {"final", "main"} => runDir
  /\ wpc \in Ending /\ ~created => undo = 0 /\ ~errs /\ (Leftover => runDir)
  /\ wpc \in Ending \ {"main"} /\ ~failed => created
  /\ wpc = "final" => undo = 0
  /\ wpc = "main" => (Leftover => runDir)

\* the status file speaks of the last worker only once that worker is gone
StatusIsOfTheDead ==
  /\ wpc # "dead" => ~cleanupErrors /\ state # "stopped"
  /\ wpc = "dead" /\ state = "stopped" /\ ~cleanupErrors => ~Leftover

\* what the commands know between two of their steps
CommandKnows ==
  /\ unit = "inactive" => wpc = "dead" /\ NoChildren
  /\ opc \in {"stoplegacy", "verdict", "unload", "linkdown", "rmmod",
              "ready", "request", "spawn"} => unit = "inactive"
  /\ opc \in {"ready", "request", "spawn"} => ~legacy
  /\ opc \in {"request", "spawn"} => ~cleanupErrors /\ driver
  /\ opc = "spawn" => state = "requested"
  /\ opc = "wait" => fresh \/ state = "requested"
  /\ opc # "none" <=> op # "none"
  /\ op # "none" => report = "none"

\* hostapd lives only where the rules are, and not before it was spawned
HostapdPlace ==
  child["hostapd"] = "up" =>
    /\ wpc \in Serving \cup {"except", "reap", "dead"}
    /\ \A r \in Rules : copies[r] > 0

\* what NetworkManager did with the adapter is remembered until it is given back
ManagedKnown ==
  /\ wpc \in Early \cup {"release"} => managed \in {preManaged, nmDefault}
  /\ undo > 0 => oldManaged \in {preManaged, nmDefault}
  /\ wpc \in Ending /\ undo = 0 /\ ~errs => managed \in {preManaged, nmDefault}

RecordInv == /\ ~raised /\ NoDoubleApply /\ LeftoversFlagged
             /\ DeadIsEmpty /\ EarlyIsClean /\ ChangingIsRecorded
             /\ RecordCovers /\ DirectoryHeld
ControlInv == /\ StatusIsOfTheDead /\ CommandKnows
              /\ StartedMeansOurs /\ WorkerOwnsAdapter
\* the inductive invariant: what the host holds and what the worker remembers
\* of it, what the file and the commands know, and where hostapd lives
IInv == TypeOK /\ RecordInv /\ ControlInv /\ HostapdPlace

-----------------------------------------------------------------------------
(* The names of places and sets, and the abbreviations the actions are      *)
(* written with, are expanded everywhere; the parts of the invariant and    *)
(* the actions only where they are named.                                   *)
USE NChangesAssumption, RulesAssumption, MaxAgeAssumption
USE DEF Release, Address, Kernel, Rules, Early, Changing, Serving, Ending,
        Children, Iface, Fail, Goto, host, procs, locals, status, cmdv, hist,
        vars, SaveStatus, Exit, Return, Step, Undone, CanUndo, NoChildren,
        Leftover

\* what the kernel and the adapter are
LEMMA HostOKStep == TypeOK /\ [Next]_vars => HostOK'
<1> SUFFICES ASSUME TypeOK, [Next]_vars PROVE HostOK'
  OBVIOUS
<1> USE DEF TypeOK, HostOK, ProcessOK, LocalsOK, StatusOK, CommandOK,
           States, Commands, Reports, OpPcs
<1>1. CASE WBoot  BY <1>1 DEF WBoot
<1>2. CASE WStarting  BY <1>2 DEF WStarting
<1>3. CASE WChecks  BY <1>3 DEF WChecks
<1>4. CASE WMkdir  BY <1>4 DEF WMkdir
<1>5. CASE WRelease  BY <1>5 DEF WRelease
<1>6. CASE WVerify  BY <1>6 DEF WVerify
<1>7. CASE WApply  BY <1>7 DEF WApply
<1>8. ASSUME NEW c \in Children, WSpawn(c) PROVE HostOK'
  BY <1>8 DEF WSpawn
<1>9. CASE WLoop  BY <1>9 DEF WLoop
<1>10. CASE WPoll  BY <1>10 DEF WPoll
<1>11. CASE WReport  BY <1>11 DEF WReport
<1>12. CASE WExcept  BY <1>12 DEF WExcept
<1>13. CASE WReap  BY <1>13 DEF WReap
<1>14. CASE WUndo
  <2> USE <1>14 DEF WUndo
  <2>1. managed' \in BOOLEAN
    OBVIOUS
  <2>2. copies' \in [Kernel -> Nat]
    <3>1. CASE copies' = copies
      BY <3>1
    <3>2. CASE undo # Release /\ CanUndo(undo) /\ copies' = Undone(undo)
      <4>1. undo \in Kernel /\ copies[undo] \in Nat
        BY <3>2
      <4>2. CASE undo \in Exceptions
        BY <4>1, <4>2, <3>2
      <4>3. CASE undo \notin Exceptions
        BY <4>1, <4>3, <3>2
      <4> QED BY <4>2, <4>3
    <3> QED BY <3>1, <3>2
  <2> QED BY <2>1, <2>2
<1>15. CASE WRmtree  BY <1>15 DEF WRmtree
<1>16. CASE WFinal  BY <1>16 DEF WFinal
<1>17. CASE WMain  BY <1>17 DEF WMain
<1>18. ASSUME NEW c \in Children, ChildExits(c) PROVE HostOK'
  BY <1>18 DEF ChildExits
<1>19. CASE UnitGone  BY <1>19 DEF UnitGone
<1>20. CASE WorkerKilled  BY <1>20 DEF WorkerKilled
<1>21. CASE Unplug  BY <1>21 DEF Unplug
<1>22. CASE Plug  BY <1>22 DEF Plug
<1>23. CASE Reboot  BY <1>23 DEF Reboot
<1>24. ASSUME NEW c \in Commands, OpBegin(c) PROVE HostOK'
  BY <1>24 DEF OpBegin
<1>25. CASE OValidate  BY <1>25 DEF OValidate
<1>26. CASE OStop  BY <1>26 DEF OStop
<1>27. CASE OStopWait  BY <1>27 DEF OStopWait
<1>28. CASE OStopLegacy  BY <1>28 DEF OStopLegacy
<1>29. CASE OVerdict  BY <1>29 DEF OVerdict
<1>30. CASE OStart  BY <1>30 DEF OStart
<1>31. CASE OReady  BY <1>31 DEF OReady
<1>32. CASE ORequest  BY <1>32 DEF ORequest
<1>33. CASE OSpawn  BY <1>33 DEF OSpawn
<1>34. CASE OWait  BY <1>34 DEF OWait
<1>35. CASE OUnload  BY <1>35 DEF OUnload
<1>36. CASE OLinkDown  BY <1>36 DEF OLinkDown
<1>37. CASE ORmmod
  <2> USE <1>37 DEF ORmmod
  <2>1. managed' \in BOOLEAN
    OBVIOUS
  <2>2. copies' \in [Kernel -> Nat]
    OBVIOUS
  <2> QED BY <2>1, <2>2
<1>38. CASE OpAbort  BY <1>38 DEF OpAbort
<1>39. CASE UNCHANGED vars  BY <1>39
<1> QED
  BY <1>1, <1>2, <1>3, <1>4, <1>5, <1>6, <1>7, <1>8, <1>9, <1>10, <1>11,
     <1>12, <1>13, <1>14, <1>15, <1>16, <1>17, <1>18, <1>19, <1>20, <1>21,
     <1>22, <1>23, <1>24, <1>25, <1>26, <1>27, <1>28, <1>29, <1>30, <1>31,
     <1>32, <1>33, <1>34, <1>35, <1>36, <1>37, <1>38, <1>39
     DEF Next, Worker, Environment, Operator, OpStep

\* the unit, its processes and the undo list
LEMMA ProcessOKStep == TypeOK /\ [Next]_vars => ProcessOK'
<1> SUFFICES ASSUME TypeOK, [Next]_vars PROVE ProcessOK'
  OBVIOUS
<1> USE DEF TypeOK, HostOK, ProcessOK, LocalsOK, StatusOK, CommandOK,
           States, Commands, Reports, OpPcs
<1>1. CASE WBoot  BY <1>1 DEF WBoot
<1>2. CASE WStarting  BY <1>2 DEF WStarting
<1>3. CASE WChecks  BY <1>3 DEF WChecks
<1>4. CASE WMkdir  BY <1>4 DEF WMkdir
<1>5. CASE WRelease
  <2> USE <1>5 DEF WRelease
  <2>1. undo' \in 0..NChanges
    OBVIOUS
  <2>2. wpc' \in {"except", "verify"} /\ UNCHANGED <<unit, child, age>>
    OBVIOUS
  <2> QED BY <2>1, <2>2
<1>6. CASE WVerify  BY <1>6 DEF WVerify
<1>7. CASE WApply  BY <1>7 DEF WApply
<1>8. ASSUME NEW c \in Children, WSpawn(c) PROVE ProcessOK'
  BY <1>8 DEF WSpawn
<1>9. CASE WLoop  BY <1>9 DEF WLoop
<1>10. CASE WPoll  BY <1>10 DEF WPoll
<1>11. CASE WReport  BY <1>11 DEF WReport
<1>12. CASE WExcept  BY <1>12 DEF WExcept
<1>13. CASE WReap  BY <1>13 DEF WReap
<1>14. CASE WUndo  BY <1>14 DEF WUndo
<1>15. CASE WRmtree  BY <1>15 DEF WRmtree
<1>16. CASE WFinal  BY <1>16 DEF WFinal
<1>17. CASE WMain  BY <1>17 DEF WMain
<1>18. ASSUME NEW c \in Children, ChildExits(c) PROVE ProcessOK'
  BY <1>18 DEF ChildExits
<1>19. CASE UnitGone  BY <1>19 DEF UnitGone
<1>20. CASE WorkerKilled  BY <1>20 DEF WorkerKilled
<1>21. CASE Unplug  BY <1>21 DEF Unplug
<1>22. CASE Plug  BY <1>22 DEF Plug
<1>23. CASE Reboot  BY <1>23 DEF Reboot
<1>24. ASSUME NEW c \in Commands, OpBegin(c) PROVE ProcessOK'
  BY <1>24 DEF OpBegin
<1>25. CASE OValidate  BY <1>25 DEF OValidate
<1>26. CASE OStop  BY <1>26 DEF OStop
<1>27. CASE OStopWait  BY <1>27 DEF OStopWait
<1>28. CASE OStopLegacy  BY <1>28 DEF OStopLegacy
<1>29. CASE OVerdict  BY <1>29 DEF OVerdict
<1>30. CASE OStart  BY <1>30 DEF OStart
<1>31. CASE OReady  BY <1>31 DEF OReady
<1>32. CASE ORequest  BY <1>32 DEF ORequest
<1>33. CASE OSpawn  BY <1>33 DEF OSpawn
<1>34. CASE OWait  BY <1>34 DEF OWait
<1>35. CASE OUnload  BY <1>35 DEF OUnload
<1>36. CASE OLinkDown  BY <1>36 DEF OLinkDown
<1>37. CASE ORmmod  BY <1>37 DEF ORmmod
<1>38. CASE OpAbort  BY <1>38 DEF OpAbort
<1>39. CASE UNCHANGED vars  BY <1>39
<1> QED
  BY <1>1, <1>2, <1>3, <1>4, <1>5, <1>6, <1>7, <1>8, <1>9, <1>10, <1>11,
     <1>12, <1>13, <1>14, <1>15, <1>16, <1>17, <1>18, <1>19, <1>20, <1>21,
     <1>22, <1>23, <1>24, <1>25, <1>26, <1>27, <1>28, <1>29, <1>30, <1>31,
     <1>32, <1>33, <1>34, <1>35, <1>36, <1>37, <1>38, <1>39
     DEF Next, Worker, Environment, Operator, OpStep

\* the worker's flags
LEMMA LocalsOKStep == TypeOK /\ [Next]_vars => LocalsOK'
<1> SUFFICES ASSUME TypeOK, [Next]_vars PROVE LocalsOK'
  OBVIOUS
<1> USE DEF TypeOK, HostOK, ProcessOK, LocalsOK, StatusOK, CommandOK,
           States, Commands, Reports, OpPcs
<1>1. CASE WBoot  BY <1>1 DEF WBoot
<1>2. CASE WStarting  BY <1>2 DEF WStarting
<1>3. CASE WChecks  BY <1>3 DEF WChecks
<1>4. CASE WMkdir  BY <1>4 DEF WMkdir
<1>5. CASE WRelease  BY <1>5 DEF WRelease
<1>6. CASE WVerify  BY <1>6 DEF WVerify
<1>7. CASE WApply  BY <1>7 DEF WApply
<1>8. ASSUME NEW c \in Children, WSpawn(c) PROVE LocalsOK'
  BY <1>8 DEF WSpawn
<1>9. CASE WLoop  BY <1>9 DEF WLoop
<1>10. CASE WPoll  BY <1>10 DEF WPoll
<1>11. CASE WReport  BY <1>11 DEF WReport
<1>12. CASE WExcept  BY <1>12 DEF WExcept
<1>13. CASE WReap  BY <1>13 DEF WReap
<1>14. CASE WUndo  BY <1>14 DEF WUndo
<1>15. CASE WRmtree  BY <1>15 DEF WRmtree
<1>16. CASE WFinal  BY <1>16 DEF WFinal
<1>17. CASE WMain  BY <1>17 DEF WMain
<1>18. ASSUME NEW c \in Children, ChildExits(c) PROVE LocalsOK'
  BY <1>18 DEF ChildExits
<1>19. CASE UnitGone  BY <1>19 DEF UnitGone
<1>20. CASE WorkerKilled  BY <1>20 DEF WorkerKilled
<1>21. CASE Unplug  BY <1>21 DEF Unplug
<1>22. CASE Plug  BY <1>22 DEF Plug
<1>23. CASE Reboot  BY <1>23 DEF Reboot
<1>24. ASSUME NEW c \in Commands, OpBegin(c) PROVE LocalsOK'
  BY <1>24 DEF OpBegin
<1>25. CASE OValidate  BY <1>25 DEF OValidate
<1>26. CASE OStop  BY <1>26 DEF OStop
<1>27. CASE OStopWait  BY <1>27 DEF OStopWait
<1>28. CASE OStopLegacy  BY <1>28 DEF OStopLegacy
<1>29. CASE OVerdict  BY <1>29 DEF OVerdict
<1>30. CASE OStart  BY <1>30 DEF OStart
<1>31. CASE OReady  BY <1>31 DEF OReady
<1>32. CASE ORequest  BY <1>32 DEF ORequest
<1>33. CASE OSpawn  BY <1>33 DEF OSpawn
<1>34. CASE OWait  BY <1>34 DEF OWait
<1>35. CASE OUnload  BY <1>35 DEF OUnload
<1>36. CASE OLinkDown  BY <1>36 DEF OLinkDown
<1>37. CASE ORmmod  BY <1>37 DEF ORmmod
<1>38. CASE OpAbort  BY <1>38 DEF OpAbort
<1>39. CASE UNCHANGED vars  BY <1>39
<1> QED
  BY <1>1, <1>2, <1>3, <1>4, <1>5, <1>6, <1>7, <1>8, <1>9, <1>10, <1>11,
     <1>12, <1>13, <1>14, <1>15, <1>16, <1>17, <1>18, <1>19, <1>20, <1>21,
     <1>22, <1>23, <1>24, <1>25, <1>26, <1>27, <1>28, <1>29, <1>30, <1>31,
     <1>32, <1>33, <1>34, <1>35, <1>36, <1>37, <1>38, <1>39
     DEF Next, Worker, Environment, Operator, OpStep

\* the status file and the history
LEMMA StatusOKStep == TypeOK /\ [Next]_vars => StatusOK'
<1> SUFFICES ASSUME TypeOK, [Next]_vars PROVE StatusOK'
  OBVIOUS
<1> USE DEF TypeOK, HostOK, ProcessOK, LocalsOK, StatusOK, CommandOK,
           States, Commands, Reports, OpPcs
<1>1. CASE WBoot  BY <1>1 DEF WBoot
<1>2. CASE WStarting  BY <1>2 DEF WStarting
<1>3. CASE WChecks  BY <1>3 DEF WChecks
<1>4. CASE WMkdir  BY <1>4 DEF WMkdir
<1>5. CASE WRelease  BY <1>5 DEF WRelease
<1>6. CASE WVerify  BY <1>6 DEF WVerify
<1>7. CASE WApply  BY <1>7 DEF WApply
<1>8. ASSUME NEW c \in Children, WSpawn(c) PROVE StatusOK'
  BY <1>8 DEF WSpawn
<1>9. CASE WLoop  BY <1>9 DEF WLoop
<1>10. CASE WPoll  BY <1>10 DEF WPoll
<1>11. CASE WReport  BY <1>11 DEF WReport
<1>12. CASE WExcept  BY <1>12 DEF WExcept
<1>13. CASE WReap  BY <1>13 DEF WReap
<1>14. CASE WUndo  BY <1>14 DEF WUndo
<1>15. CASE WRmtree  BY <1>15 DEF WRmtree
<1>16. CASE WFinal  BY <1>16 DEF WFinal
<1>17. CASE WMain  BY <1>17 DEF WMain
<1>18. ASSUME NEW c \in Children, ChildExits(c) PROVE StatusOK'
  BY <1>18 DEF ChildExits
<1>19. CASE UnitGone  BY <1>19 DEF UnitGone
<1>20. CASE WorkerKilled  BY <1>20 DEF WorkerKilled
<1>21. CASE Unplug  BY <1>21 DEF Unplug
<1>22. CASE Plug  BY <1>22 DEF Plug
<1>23. CASE Reboot  BY <1>23 DEF Reboot
<1>24. ASSUME NEW c \in Commands, OpBegin(c) PROVE StatusOK'
  BY <1>24 DEF OpBegin
<1>25. CASE OValidate  BY <1>25 DEF OValidate
<1>26. CASE OStop  BY <1>26 DEF OStop
<1>27. CASE OStopWait  BY <1>27 DEF OStopWait
<1>28. CASE OStopLegacy  BY <1>28 DEF OStopLegacy
<1>29. CASE OVerdict  BY <1>29 DEF OVerdict
<1>30. CASE OStart  BY <1>30 DEF OStart
<1>31. CASE OReady  BY <1>31 DEF OReady
<1>32. CASE ORequest  BY <1>32 DEF ORequest
<1>33. CASE OSpawn  BY <1>33 DEF OSpawn
<1>34. CASE OWait  BY <1>34 DEF OWait
<1>35. CASE OUnload  BY <1>35 DEF OUnload
<1>36. CASE OLinkDown  BY <1>36 DEF OLinkDown
<1>37. CASE ORmmod  BY <1>37 DEF ORmmod
<1>38. CASE OpAbort  BY <1>38 DEF OpAbort
<1>39. CASE UNCHANGED vars  BY <1>39
<1> QED
  BY <1>1, <1>2, <1>3, <1>4, <1>5, <1>6, <1>7, <1>8, <1>9, <1>10, <1>11,
     <1>12, <1>13, <1>14, <1>15, <1>16, <1>17, <1>18, <1>19, <1>20, <1>21,
     <1>22, <1>23, <1>24, <1>25, <1>26, <1>27, <1>28, <1>29, <1>30, <1>31,
     <1>32, <1>33, <1>34, <1>35, <1>36, <1>37, <1>38, <1>39
     DEF Next, Worker, Environment, Operator, OpStep

\* the command in progress
LEMMA CommandOKStep == TypeOK /\ [Next]_vars => CommandOK'
<1> SUFFICES ASSUME TypeOK, [Next]_vars PROVE CommandOK'
  OBVIOUS
<1> USE DEF TypeOK, HostOK, ProcessOK, LocalsOK, StatusOK, CommandOK,
           States, Commands, Reports, OpPcs
<1>1. CASE WBoot  BY <1>1 DEF WBoot
<1>2. CASE WStarting  BY <1>2 DEF WStarting
<1>3. CASE WChecks  BY <1>3 DEF WChecks
<1>4. CASE WMkdir  BY <1>4 DEF WMkdir
<1>5. CASE WRelease  BY <1>5 DEF WRelease
<1>6. CASE WVerify  BY <1>6 DEF WVerify
<1>7. CASE WApply  BY <1>7 DEF WApply
<1>8. ASSUME NEW c \in Children, WSpawn(c) PROVE CommandOK'
  BY <1>8 DEF WSpawn
<1>9. CASE WLoop  BY <1>9 DEF WLoop
<1>10. CASE WPoll  BY <1>10 DEF WPoll
<1>11. CASE WReport  BY <1>11 DEF WReport
<1>12. CASE WExcept  BY <1>12 DEF WExcept
<1>13. CASE WReap  BY <1>13 DEF WReap
<1>14. CASE WUndo  BY <1>14 DEF WUndo
<1>15. CASE WRmtree  BY <1>15 DEF WRmtree
<1>16. CASE WFinal  BY <1>16 DEF WFinal
<1>17. CASE WMain  BY <1>17 DEF WMain
<1>18. ASSUME NEW c \in Children, ChildExits(c) PROVE CommandOK'
  BY <1>18 DEF ChildExits
<1>19. CASE UnitGone  BY <1>19 DEF UnitGone
<1>20. CASE WorkerKilled  BY <1>20 DEF WorkerKilled
<1>21. CASE Unplug  BY <1>21 DEF Unplug
<1>22. CASE Plug  BY <1>22 DEF Plug
<1>23. CASE Reboot  BY <1>23 DEF Reboot
<1>24. ASSUME NEW c \in Commands, OpBegin(c) PROVE CommandOK'
  BY <1>24 DEF OpBegin
<1>25. CASE OValidate  BY <1>25 DEF OValidate
<1>26. CASE OStop  BY <1>26 DEF OStop
<1>27. CASE OStopWait  BY <1>27 DEF OStopWait
<1>28. CASE OStopLegacy  BY <1>28 DEF OStopLegacy
<1>29. CASE OVerdict  BY <1>29 DEF OVerdict
<1>30. CASE OStart  BY <1>30 DEF OStart
<1>31. CASE OReady  BY <1>31 DEF OReady
<1>32. CASE ORequest  BY <1>32 DEF ORequest
<1>33. CASE OSpawn  BY <1>33 DEF OSpawn
<1>34. CASE OWait  BY <1>34 DEF OWait
<1>35. CASE OUnload  BY <1>35 DEF OUnload
<1>36. CASE OLinkDown  BY <1>36 DEF OLinkDown
<1>37. CASE ORmmod  BY <1>37 DEF ORmmod
<1>38. CASE OpAbort  BY <1>38 DEF OpAbort
<1>39. CASE UNCHANGED vars  BY <1>39
<1> QED
  BY <1>1, <1>2, <1>3, <1>4, <1>5, <1>6, <1>7, <1>8, <1>9, <1>10, <1>11,
     <1>12, <1>13, <1>14, <1>15, <1>16, <1>17, <1>18, <1>19, <1>20, <1>21,
     <1>22, <1>23, <1>24, <1>25, <1>26, <1>27, <1>28, <1>29, <1>30, <1>31,
     <1>32, <1>33, <1>34, <1>35, <1>36, <1>37, <1>38, <1>39
     DEF Next, Worker, Environment, Operator, OpStep

LEMMA TypeStep == TypeOK /\ [Next]_vars => TypeOK'
<1> SUFFICES ASSUME TypeOK, [Next]_vars PROVE TypeOK'
  OBVIOUS
<1> QED BY HostOKStep, ProcessOKStep, LocalsOKStep, StatusOKStep, CommandOKStep
        DEF TypeOK

\* The undo list and the directory account for what the kernel holds.  A change is
\* recorded before it is made, so WApply finds no copy of it; WRmtree finds no
\* change left, or an error; WFinal carries that error into the file.
LEMMA RecordStep == IInv /\ TypeOK' /\ [Next]_vars => RecordInv'
<1> SUFFICES ASSUME IInv, TypeOK', [Next]_vars PROVE RecordInv'
  OBVIOUS
<1> USE FaultsSpared
    DEF IInv, RecordInv, ControlInv, CommandKnows, NoDoubleApply,
        LeftoversFlagged, DeadIsEmpty, EarlyIsClean, ChangingIsRecorded,
        RecordCovers, DirectoryHeld, TypeOK, HostOK, ProcessOK
<1>1. CASE WBoot  BY <1>1 DEF WBoot
<1>2. CASE WStarting  BY <1>2 DEF WStarting
<1>3. CASE WChecks  BY <1>3 DEF WChecks
<1>4. CASE WMkdir  BY <1>4 DEF WMkdir
<1>5. CASE WRelease
  <2> USE <1>5 DEF WRelease
  <2>1. NoDoubleApply'
    OBVIOUS
  <2>2. LeftoversFlagged'
    OBVIOUS
  <2>3. DeadIsEmpty'
    OBVIOUS
  <2>4. EarlyIsClean'
    OBVIOUS
  <2>5. ChangingIsRecorded'
    OBVIOUS
  <2>6. RecordCovers'
    OBVIOUS
  <2>7. DirectoryHeld'
    OBVIOUS
  <2> QED BY <2>1, <2>2, <2>3, <2>4, <2>5, <2>6, <2>7
<1>6. CASE WVerify  BY <1>6 DEF WVerify
<1>7. CASE WApply
  <2> USE <1>7 DEF WApply
  <2>1. NoDoubleApply'
    OBVIOUS
  <2>2. LeftoversFlagged'
    OBVIOUS
  <2>3. DeadIsEmpty'
    OBVIOUS
  <2>4. EarlyIsClean'
    OBVIOUS
  <2>5. ChangingIsRecorded'
    OBVIOUS
  <2>6. RecordCovers'
    OBVIOUS
  <2>7. DirectoryHeld'
    OBVIOUS
  <2> QED BY <2>1, <2>2, <2>3, <2>4, <2>5, <2>6, <2>7
<1>8. ASSUME NEW c \in Children, WSpawn(c) PROVE RecordInv'
  BY <1>8 DEF WSpawn
<1>9. CASE WLoop  BY <1>9 DEF WLoop
<1>10. CASE WPoll  BY <1>10 DEF WPoll
<1>11. CASE WReport  BY <1>11 DEF WReport
<1>12. CASE WExcept  BY <1>12 DEF WExcept
<1>13. CASE WReap  BY <1>13 DEF WReap
<1>14. CASE WUndo
  <2> USE <1>14 DEF WUndo
  \* no count grows, and an undo without an error leaves nothing of its change
  <2>1. \A c \in Kernel : /\ copies'[c] <= copies[c]
                          /\ ~errs' /\ c = undo => copies'[c] = 0
    <3> SUFFICES ASSUME NEW c \in Kernel
                 PROVE /\ copies'[c] <= copies[c]
                       /\ ~errs' /\ c = undo => copies'[c] = 0
      OBVIOUS
    <3>1. copies[c] \in Nat /\ copies[c] <= 1
      OBVIOUS
    <3>2. CASE copies' = copies /\ errs'
      BY <3>1, <3>2
    <3>3. CASE undo = Release /\ copies' = copies
      BY <3>1, <3>3
    <3>4. CASE undo \in Kernel /\ CanUndo(undo) /\ copies' = Undone(undo)
      <4>1. CASE c # undo
        BY <3>1, <3>4, <4>1
      <4>2. CASE c = undo /\ c \in Exceptions
        BY <3>1, <3>4, <4>2
      <4>3. CASE c = undo /\ c \notin Exceptions
        BY <3>1, <3>4, <4>3
      <4> QED BY <4>1, <4>2, <4>3
    <3> QED BY <3>2, <3>3, <3>4
  <2>2. NoDoubleApply'
    BY <2>1
  <2>3. RecordCovers'
    BY <2>1
  <2>4. DirectoryHeld'
    BY <2>1
  <2> QED BY <2>1, <2>2, <2>3, <2>4
<1>15. CASE WRmtree  BY <1>15 DEF WRmtree
<1>16. CASE WFinal  BY <1>16 DEF WFinal
<1>17. CASE WMain  BY <1>17 DEF WMain
<1>18. ASSUME NEW c \in Children, ChildExits(c) PROVE RecordInv'
  BY <1>18 DEF ChildExits
<1>19. CASE UnitGone  BY <1>19 DEF UnitGone
<1>20. CASE WorkerKilled  BY <1>20 DEF WorkerKilled
<1>21. CASE Unplug  BY <1>21 DEF Unplug
<1>22. CASE Plug  BY <1>22 DEF Plug
<1>23. CASE Reboot  BY <1>23 DEF Reboot
<1>24. ASSUME NEW c \in Commands, OpBegin(c) PROVE RecordInv'
  BY <1>24 DEF OpBegin
<1>25. CASE OValidate  BY <1>25 DEF OValidate
<1>26. CASE OStop
  <2> USE <1>26 DEF OStop
  <2>1. NoDoubleApply'
    OBVIOUS
  <2>2. LeftoversFlagged'
    OBVIOUS
  <2>3. DeadIsEmpty'
    OBVIOUS
  <2>4. EarlyIsClean'
    OBVIOUS
  <2>5. ChangingIsRecorded'
    OBVIOUS
  <2>6. RecordCovers'
    OBVIOUS
  <2>7. DirectoryHeld'
    OBVIOUS
  <2> QED BY <2>1, <2>2, <2>3, <2>4, <2>5, <2>6, <2>7
<1>27. CASE OStopWait  BY <1>27 DEF OStopWait
<1>28. CASE OStopLegacy  BY <1>28 DEF OStopLegacy
<1>29. CASE OVerdict  BY <1>29 DEF OVerdict
<1>30. CASE OStart  BY <1>30 DEF OStart
<1>31. CASE OReady  BY <1>31 DEF OReady
<1>32. CASE ORequest
  <2> USE <1>32 DEF ORequest
  <2>1. NoDoubleApply'
    OBVIOUS
  <2>2. LeftoversFlagged'
    OBVIOUS
  <2>3. DeadIsEmpty'
    OBVIOUS
  <2>4. EarlyIsClean'
    OBVIOUS
  <2>5. ChangingIsRecorded'
    OBVIOUS
  <2>6. RecordCovers'
    OBVIOUS
  <2>7. DirectoryHeld'
    OBVIOUS
  <2> QED BY <2>1, <2>2, <2>3, <2>4, <2>5, <2>6, <2>7
<1>33. CASE OSpawn
  <2> USE <1>33 DEF OSpawn
  <2>1. NoDoubleApply'
    OBVIOUS
  <2>2. LeftoversFlagged'
    OBVIOUS
  <2>3. DeadIsEmpty'
    OBVIOUS
  <2>4. EarlyIsClean'
    OBVIOUS
  <2>5. ChangingIsRecorded'
    OBVIOUS
  <2>6. RecordCovers'
    OBVIOUS
  <2>7. DirectoryHeld'
    OBVIOUS
  <2> QED BY <2>1, <2>2, <2>3, <2>4, <2>5, <2>6, <2>7
<1>34. CASE OWait  BY <1>34 DEF OWait
<1>35. CASE OUnload  BY <1>35 DEF OUnload
<1>36. CASE OLinkDown  BY <1>36 DEF OLinkDown
<1>37. CASE ORmmod  BY <1>37 DEF ORmmod
<1>38. CASE OpAbort  BY <1>38 DEF OpAbort
<1>39. CASE UNCHANGED vars  BY <1>39
<1> QED
  BY <1>1, <1>2, <1>3, <1>4, <1>5, <1>6, <1>7, <1>8, <1>9, <1>10, <1>11,
     <1>12, <1>13, <1>14, <1>15, <1>16, <1>17, <1>18, <1>19, <1>20, <1>21,
     <1>22, <1>23, <1>24, <1>25, <1>26, <1>27, <1>28, <1>29, <1>30, <1>31,
     <1>32, <1>33, <1>34, <1>35, <1>36, <1>37, <1>38, <1>39
     DEF Next, Worker, Environment, Operator, OpStep

\* A command acts on a unit that is gone, and reports what this worker wrote.
LEMMA ControlStep == IInv /\ TypeOK' /\ [Next]_vars => ControlInv'
<1> SUFFICES ASSUME IInv, TypeOK', [Next]_vars PROVE ControlInv'
  OBVIOUS
<1> USE FaultsSpared
    DEF IInv, RecordInv, ControlInv, CommandKnows, NoDoubleApply,
        LeftoversFlagged, DeadIsEmpty, EarlyIsClean, ChangingIsRecorded,
        RecordCovers, DirectoryHeld, StatusIsOfTheDead,
        StartedMeansOurs, WorkerOwnsAdapter, Commands, TypeOK, HostOK, ProcessOK
<1>1. CASE WBoot  BY <1>1 DEF WBoot
<1>2. CASE WStarting  BY <1>2 DEF WStarting
<1>3. CASE WChecks  BY <1>3 DEF WChecks
<1>4. CASE WMkdir  BY <1>4 DEF WMkdir
<1>5. CASE WRelease  BY <1>5 DEF WRelease
<1>6. CASE WVerify  BY <1>6 DEF WVerify
<1>7. CASE WApply  BY <1>7 DEF WApply
<1>8. ASSUME NEW c \in Children, WSpawn(c) PROVE ControlInv'
  BY <1>8 DEF WSpawn
<1>9. CASE WLoop  BY <1>9 DEF WLoop
<1>10. CASE WPoll  BY <1>10 DEF WPoll
<1>11. CASE WReport  BY <1>11 DEF WReport
<1>12. CASE WExcept  BY <1>12 DEF WExcept
<1>13. CASE WReap  BY <1>13 DEF WReap
<1>14. CASE WUndo  BY <1>14 DEF WUndo
<1>15. CASE WRmtree  BY <1>15 DEF WRmtree
<1>16. CASE WFinal  BY <1>16 DEF WFinal
<1>17. CASE WMain  BY <1>17 DEF WMain
<1>18. ASSUME NEW c \in Children, ChildExits(c) PROVE ControlInv'
  BY <1>18 DEF ChildExits
<1>19. CASE UnitGone  BY <1>19 DEF UnitGone
<1>20. CASE WorkerKilled
  <2> USE <1>20 DEF WorkerKilled
  <2>1. StatusIsOfTheDead'
    OBVIOUS
  <2>2. CommandKnows'
    OBVIOUS
  <2>3. StartedMeansOurs'
    OBVIOUS
  <2>4. WorkerOwnsAdapter'
    OBVIOUS
  <2> QED BY <2>1, <2>2, <2>3, <2>4
<1>21. CASE Unplug  BY <1>21 DEF Unplug
<1>22. CASE Plug  BY <1>22 DEF Plug
<1>23. CASE Reboot  BY <1>23 DEF Reboot
<1>24. ASSUME NEW c \in Commands, OpBegin(c) PROVE ControlInv'
  <2> USE <1>24 DEF OpBegin
  <2>1. StatusIsOfTheDead'
    OBVIOUS
  <2>2. CommandKnows'
    OBVIOUS
  <2>3. StartedMeansOurs'
    OBVIOUS
  <2>4. WorkerOwnsAdapter'
    OBVIOUS
  <2> QED BY <2>1, <2>2, <2>3, <2>4
<1>25. CASE OValidate  BY <1>25 DEF OValidate
<1>26. CASE OStop
  <2> USE <1>26 DEF OStop
  <2>1. StatusIsOfTheDead'
    OBVIOUS
  <2>2. CommandKnows'
    OBVIOUS
  <2>3. StartedMeansOurs'
    OBVIOUS
  <2>4. WorkerOwnsAdapter'
    OBVIOUS
  <2> QED BY <2>1, <2>2, <2>3, <2>4
<1>27. CASE OStopWait  BY <1>27 DEF OStopWait
<1>28. CASE OStopLegacy  BY <1>28 DEF OStopLegacy
<1>29. CASE OVerdict  BY <1>29 DEF OVerdict
<1>30. CASE OStart  BY <1>30 DEF OStart
<1>31. CASE OReady  BY <1>31 DEF OReady
<1>32. CASE ORequest  BY <1>32 DEF ORequest
<1>33. CASE OSpawn  BY <1>33 DEF OSpawn
<1>34. CASE OWait  BY <1>34 DEF OWait
<1>35. CASE OUnload  BY <1>35 DEF OUnload
<1>36. CASE OLinkDown  BY <1>36 DEF OLinkDown
<1>37. CASE ORmmod  BY <1>37 DEF ORmmod
<1>38. CASE OpAbort  BY <1>38 DEF OpAbort
<1>39. CASE UNCHANGED vars  BY <1>39
<1> QED
  BY <1>1, <1>2, <1>3, <1>4, <1>5, <1>6, <1>7, <1>8, <1>9, <1>10, <1>11,
     <1>12, <1>13, <1>14, <1>15, <1>16, <1>17, <1>18, <1>19, <1>20, <1>21,
     <1>22, <1>23, <1>24, <1>25, <1>26, <1>27, <1>28, <1>29, <1>30, <1>31,
     <1>32, <1>33, <1>34, <1>35, <1>36, <1>37, <1>38, <1>39
     DEF Next, Worker, Environment, Operator, OpStep

\* hostapd is spawned after the last rule and is gone before the first undo.
LEMMA HostapdStep == IInv /\ TypeOK' /\ [Next]_vars => HostapdPlace'
<1> SUFFICES ASSUME IInv, TypeOK', [Next]_vars PROVE HostapdPlace'
  OBVIOUS
<1> USE DEF IInv, HostapdPlace, RecordInv, ControlInv, CommandKnows,
           ChangingIsRecorded, TypeOK, HostOK, ProcessOK
<1>1. CASE WBoot  BY <1>1 DEF WBoot
<1>2. CASE WStarting  BY <1>2 DEF WStarting
<1>3. CASE WChecks  BY <1>3 DEF WChecks
<1>4. CASE WMkdir  BY <1>4 DEF WMkdir
<1>5. CASE WRelease  BY <1>5 DEF WRelease
<1>6. CASE WVerify  BY <1>6 DEF WVerify
<1>7. CASE WApply  BY <1>7 DEF WApply
<1>8. ASSUME NEW c \in Children, WSpawn(c) PROVE HostapdPlace'
  BY <1>8 DEF WSpawn
<1>9. CASE WLoop  BY <1>9 DEF WLoop
<1>10. CASE WPoll  BY <1>10 DEF WPoll
<1>11. CASE WReport  BY <1>11 DEF WReport
<1>12. CASE WExcept  BY <1>12 DEF WExcept
<1>13. CASE WReap  BY <1>13 DEF WReap
<1>14. CASE WUndo  BY <1>14 DEF WUndo
<1>15. CASE WRmtree  BY <1>15 DEF WRmtree
<1>16. CASE WFinal  BY <1>16 DEF WFinal
<1>17. CASE WMain  BY <1>17 DEF WMain
<1>18. ASSUME NEW c \in Children, ChildExits(c) PROVE HostapdPlace'
  BY <1>18 DEF ChildExits
<1>19. CASE UnitGone  BY <1>19 DEF UnitGone
<1>20. CASE WorkerKilled  BY <1>20 DEF WorkerKilled
<1>21. CASE Unplug  BY <1>21 DEF Unplug
<1>22. CASE Plug  BY <1>22 DEF Plug
<1>23. CASE Reboot  BY <1>23 DEF Reboot
<1>24. ASSUME NEW c \in Commands, OpBegin(c) PROVE HostapdPlace'
  BY <1>24 DEF OpBegin
<1>25. CASE OValidate  BY <1>25 DEF OValidate
<1>26. CASE OStop  BY <1>26 DEF OStop
<1>27. CASE OStopWait  BY <1>27 DEF OStopWait
<1>28. CASE OStopLegacy  BY <1>28 DEF OStopLegacy
<1>29. CASE OVerdict  BY <1>29 DEF OVerdict
<1>30. CASE OStart  BY <1>30 DEF OStart
<1>31. CASE OReady  BY <1>31 DEF OReady
<1>32. CASE ORequest  BY <1>32 DEF ORequest
<1>33. CASE OSpawn  BY <1>33 DEF OSpawn
<1>34. CASE OWait  BY <1>34 DEF OWait
<1>35. CASE OUnload  BY <1>35 DEF OUnload
<1>36. CASE OLinkDown  BY <1>36 DEF OLinkDown
<1>37. CASE ORmmod  BY <1>37 DEF ORmmod
<1>38. CASE OpAbort  BY <1>38 DEF OpAbort
<1>39. CASE UNCHANGED vars  BY <1>39
<1> QED
  BY <1>1, <1>2, <1>3, <1>4, <1>5, <1>6, <1>7, <1>8, <1>9, <1>10, <1>11,
     <1>12, <1>13, <1>14, <1>15, <1>16, <1>17, <1>18, <1>19, <1>20, <1>21,
     <1>22, <1>23, <1>24, <1>25, <1>26, <1>27, <1>28, <1>29, <1>30, <1>31,
     <1>32, <1>33, <1>34, <1>35, <1>36, <1>37, <1>38, <1>39
     DEF Next, Worker, Environment, Operator, OpStep

\* the NetworkManager state of the adapter through a step
LEMMA ManagedStep == IInv /\ ManagedKnown /\ [Next]_vars => ManagedKnown'
<1> SUFFICES ASSUME IInv, ManagedKnown, [Next]_vars PROVE ManagedKnown'
  OBVIOUS
<1> USE DEF IInv, ManagedKnown, TypeOK, HostOK, ProcessOK, LocalsOK, StatusOK,
           RecordInv, ControlInv, DeadIsEmpty, EarlyIsClean,
           ChangingIsRecorded, CommandKnows
<1>1. CASE WBoot  BY <1>1 DEF WBoot
<1>2. CASE WStarting  BY <1>2 DEF WStarting
<1>3. CASE WChecks  BY <1>3 DEF WChecks
<1>4. CASE WMkdir  BY <1>4 DEF WMkdir
<1>5. CASE WRelease  BY <1>5 DEF WRelease
<1>6. CASE WVerify  BY <1>6 DEF WVerify
<1>7. CASE WApply  BY <1>7 DEF WApply
<1>8. ASSUME NEW c \in Children, WSpawn(c) PROVE ManagedKnown'
  BY <1>8 DEF WSpawn
<1>9. CASE WLoop  BY <1>9 DEF WLoop
<1>10. CASE WPoll  BY <1>10 DEF WPoll
<1>11. CASE WReport  BY <1>11 DEF WReport
<1>12. CASE WExcept  BY <1>12 DEF WExcept
<1>13. CASE WReap  BY <1>13 DEF WReap
<1>14. CASE WUndo  BY <1>14 DEF WUndo
<1>15. CASE WRmtree  BY <1>15 DEF WRmtree
<1>16. CASE WFinal  BY <1>16 DEF WFinal
<1>17. CASE WMain  BY <1>17 DEF WMain
<1>18. ASSUME NEW c \in Children, ChildExits(c) PROVE ManagedKnown'
  BY <1>18 DEF ChildExits
<1>19. CASE UnitGone  BY <1>19 DEF UnitGone
<1>20. CASE WorkerKilled  BY <1>20 DEF WorkerKilled
<1>21. CASE Unplug  BY <1>21 DEF Unplug
<1>22. CASE Plug  BY <1>22 DEF Plug
<1>23. CASE Reboot  BY <1>23 DEF Reboot
<1>24. ASSUME NEW c \in Commands, OpBegin(c) PROVE ManagedKnown'
  BY <1>24 DEF OpBegin
<1>25. CASE OValidate  BY <1>25 DEF OValidate
<1>26. CASE OStop  BY <1>26 DEF OStop
<1>27. CASE OStopWait  BY <1>27 DEF OStopWait
<1>28. CASE OStopLegacy  BY <1>28 DEF OStopLegacy
<1>29. CASE OVerdict  BY <1>29 DEF OVerdict
<1>30. CASE OStart  BY <1>30 DEF OStart
<1>31. CASE OReady  BY <1>31 DEF OReady
<1>32. CASE ORequest  BY <1>32 DEF ORequest
<1>33. CASE OSpawn  BY <1>33 DEF OSpawn
<1>34. CASE OWait  BY <1>34 DEF OWait
<1>35. CASE OUnload  BY <1>35 DEF OUnload
<1>36. CASE OLinkDown  BY <1>36 DEF OLinkDown
<1>37. CASE ORmmod  BY <1>37 DEF ORmmod
<1>38. CASE OpAbort  BY <1>38 DEF OpAbort
<1>39. CASE UNCHANGED vars  BY <1>39
<1> QED
  BY <1>1, <1>2, <1>3, <1>4, <1>5, <1>6, <1>7, <1>8, <1>9, <1>10, <1>11,
     <1>12, <1>13, <1>14, <1>15, <1>16, <1>17, <1>18, <1>19, <1>20, <1>21,
     <1>22, <1>23, <1>24, <1>25, <1>26, <1>27, <1>28, <1>29, <1>30, <1>31,
     <1>32, <1>33, <1>34, <1>35, <1>36, <1>37, <1>38, <1>39
     DEF Next, Worker, Environment, Operator, OpStep

-----------------------------------------------------------------------------
LEMMA InitIInv == Init => IInv
<1> SUFFICES ASSUME Init PROVE IInv
  OBVIOUS
<1> USE DEF Init
<1>1. TypeOK
  <2>1. HostOK /\ LocalsOK
    BY DEF HostOK, LocalsOK
  <2>2. ProcessOK
    BY DEF ProcessOK
  <2>3. StatusOK /\ CommandOK
    BY DEF StatusOK, CommandOK, States, Commands, Reports, OpPcs
  <2> QED BY <2>1, <2>2, <2>3 DEF TypeOK
<1>2. RecordInv
  BY DEF RecordInv, NoDoubleApply, LeftoversFlagged, DeadIsEmpty, EarlyIsClean,
         ChangingIsRecorded, RecordCovers, DirectoryHeld
<1>3. ControlInv
  BY DEF ControlInv, StatusIsOfTheDead, CommandKnows, StartedMeansOurs,
         WorkerOwnsAdapter
<1>4. HostapdPlace
  BY DEF HostapdPlace
<1> QED BY <1>1, <1>2, <1>3, <1>4 DEF IInv

LEMMA NextIInv == IInv /\ [Next]_vars => IInv'
<1> SUFFICES ASSUME IInv, [Next]_vars PROVE IInv'
  OBVIOUS
<1>1. TypeOK'
  BY TypeStep DEF IInv
<1> QED BY <1>1, RecordStep, ControlStep, HostapdStep DEF IInv

LEMMA SpecIInv == Spec => []IInv
BY InitIInv, NextIInv, PTL DEF Spec

LEMMA SpecManaged == Spec => []ManagedKnown
<1>1. Init => ManagedKnown
  BY DEF Init, ManagedKnown
<1> QED BY <1>1, SpecIInv, ManagedStep, PTL DEF Spec

\* Every variable of the service keeps its type (hotspot.py, manage.py).
THEOREM TypeCorrect == Spec => []TypeOK
<1>1. Init => TypeOK
  BY InitIInv DEF IInv
<1> QED BY <1>1, TypeStep, PTL DEF Spec

\* No start adds a rule, or the address, on top of one left behind: RUN.mkdir()
\* and the refusal after cleanup errors are enough (manage.py:90, hotspot.py:79).
THEOREM NeverDoubled == Spec => []NoDoubleApply
<1>1. IInv => NoDoubleApply
  BY DEF IInv, RecordInv
<1> QED BY <1>1, SpecIInv, PTL

\* What a dead worker left is marked by its directory or by its status.
THEOREM LeftoversAreFlagged == Spec => []LeftoversFlagged
<1>1. IInv => LeftoversFlagged
  BY DEF IInv, RecordInv
<1> QED BY <1>1, SpecIInv, PTL

\* Clients are served only behind the rules, whenever hostapd or the worker dies.
THEOREM ServedBehindRules == Spec => []ServeOnlyBehindRules
<1>1. IInv => ServeOnlyBehindRules
  BY DEF IInv, HostapdPlace, ServeOnlyBehindRules
<1> QED BY <1>1, SpecIInv, PTL

\* `start` reports only a status its own worker wrote.
THEOREM StartedIsOurs == Spec => []StartedMeansOurs
<1>1. IInv => StartedMeansOurs
  BY DEF IInv, ControlInv
<1> QED BY <1>1, SpecIInv, PTL

\* The module and the adapter are the worker's as long as it lives.
THEOREM AdapterIsOwned == Spec => []WorkerOwnsAdapter
<1>1. IInv => WorkerOwnsAdapter
  BY DEF IInv, ControlInv
<1> QED BY <1>1, SpecIInv, PTL

\* `stopped` without cleanup errors is the truth of every rule, of the address
\* and of the NetworkManager state (hotspot.py:189, 199).
THEOREM StopIsClean == Spec => []CleanStop
<1>1. IInv /\ ManagedKnown => CleanStop
  <2> SUFFICES ASSUME IInv, ManagedKnown PROVE CleanStop
    OBVIOUS
  <2>1. StatusIsOfTheDead /\ DirectoryHeld
    BY DEF IInv, RecordInv, ControlInv
  <2> QED BY <2>1 DEF StatusIsOfTheDead, DirectoryHeld, ManagedKnown, CleanStop
<1> QED BY <1>1, SpecIInv, SpecManaged, PTL

\* No step of a worker, of a command, of systemd or of the host clears the
\* cleanup errors (manage.py:91): whoever writes the status knows there are none.
THEOREM ErrorsAreKept == Spec => ErrorsKept
<1>1. IInv /\ [Next]_vars => (cleanupErrors => cleanupErrors')
  <2> SUFFICES ASSUME IInv, [Next]_vars, cleanupErrors PROVE cleanupErrors'
    OBVIOUS
  <2>1. wpc = "dead" /\ opc # "request"
    BY DEF IInv, ControlInv, StatusIsOfTheDead, CommandKnows
  <2>2. ~Worker
    BY <2>1 DEF Worker, WBoot, WStarting, WChecks, WMkdir, WRelease, WVerify,
           WApply, WSpawn, WLoop, WPoll, WReport, WExcept, WReap, WUndo,
           WRmtree, WFinal, WMain
  <2>3. CASE Environment
    BY <2>3 DEF Environment, ChildExits, UnitGone, WorkerKilled, Unplug, Plug,
           Reboot
  <2>4. ASSUME NEW c \in Commands, OpBegin(c) PROVE cleanupErrors'
    BY <2>4 DEF OpBegin
  <2>5. CASE OpStep
    BY <2>1, <2>5 DEF OpStep, OValidate, OStop, OStopWait, OStopLegacy,
           OVerdict, OStart, OReady, ORequest, OSpawn, OWait, OUnload,
           OLinkDown, ORmmod
  <2>6. CASE OpAbort
    BY <2>6 DEF OpAbort
  <2>7. CASE UNCHANGED vars
    BY <2>7
  <2> QED BY <2>2, <2>3, <2>4, <2>5, <2>6, <2>7 DEF Next, Operator
<1> QED BY <1>1, SpecIInv, PTL DEF Spec, ErrorsKept
=============================================================================
