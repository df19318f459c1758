------------------------------- MODULE Hotspot -------------------------------
(***************************************************************************)
(* The hotspot service of lib/: the background worker `run()` of           *)
(* hotspot.py, the commands start / stop / restart / unload of manage.py   *)
(* that supervise it, the transient systemd unit both of them talk about,  *)
(* and the host whose network configuration the worker changes.            *)
(*                                                                         *)
(* The worker makes its changes in one fixed order: change 1 takes the     *)
(* adapter from NetworkManager, change 2 adds the address, the others are  *)
(* the rules of network_changes().  Every change is pushed on the undo     *)
(* list BEFORE it is made, so the undo list is always a prefix of that     *)
(* order and is kept as its length.                                        *)
(***************************************************************************)
EXTENDS Naturals

CONSTANTS
  NChanges,     \* how many changes a start makes (1 release, 2 address, rules)
  PolicyRules,  \* the rules among them that are `ip rule`s (8000, 8001)
  Exceptions,   \* the nft exception, undone by its comment, not by its text
  MaxAge,       \* loop rounds after which an AP that is not up has failed
  Faults        \* which of FaultKinds the environment may inject

FaultKinds == {"kill",      \* SIGKILL of the worker (OOM, TimeoutStopSec)
               "late",      \* that SIGKILL between rmtree and the last status
               "rmtree",    \* shutil.rmtree(RUN) raises
               "disk"}      \* a write under logs/ or state/ fails

ASSUME NChangesAssumption == NChanges \in Nat /\ NChanges >= 3
ASSUME RulesAssumption == /\ PolicyRules \subseteq 3..NChanges
                          /\ Exceptions \subseteq 3..NChanges
ASSUME MaxAgeAssumption == MaxAge \in Nat
ASSUME FaultsAssumption == Faults \subseteq FaultKinds

Release == 1
Address == 2
Rules   == 3..NChanges
Kernel  == 2..NChanges      \* changes that leave something in the kernel

VARIABLES
  (* the host *)
  copies,      \* how many copies of each address / rule the kernel holds
  managed,     \* NetworkManager manages the adapter
  plugged,     \* the USB adapter is present
  driver,      \* mt7603usta is loaded
  runDir,      \* /run/nas-wifi exists
  legacy,      \* the unit of the earlier test project is active
  (* the unit and its processes *)
  unit,        \* what systemd says of nas-wifi.service
  child,       \* hostapd and dnsmasq
  wpc,         \* where the worker is
  (* the worker's locals *)
  undo,        \* length of the undo list
  oldManaged,  \* the NM state the release change restores
  created,     \* created_run
  stopping,    \* set by the signal handler
  failed,      \* failure is not None
  errs,        \* cleanup_errors is not empty
  raised,      \* an exception leaves run()
  age,         \* loop rounds so far (time.monotonic() - started), up to MaxAge
  (* state/hotspot-status.json, as far as a command or the worker looks at it *)
  state, cleanupErrors,
  (* the command that holds operation.lock *)
  op, opc, savedManaged, report,
  (* history: the status was written by the worker spawned last; the NM state
     of the adapter when that worker was spawned, and by NM's configuration *)
  fresh, preManaged, nmDefault

host   == <<copies, managed, plugged, driver, runDir, legacy>>
procs  == <<unit, child>>
locals == <<undo, oldManaged, created, stopping, failed, errs, raised, age>>
status == <<state, cleanupErrors>>
cmdv   == <<op, opc, savedManaged, report>>
hist   == <<fresh, preManaged, nmDefault>>
vars   == <<host, procs, wpc, locals, status, cmdv, hist>>

Early    == {"boot", "starting", "checks", "mkdir"}
Changing == {"release", "verify", "apply", "hostapd"}
Serving  == {"dnsmasq", "loop", "poll", "enabled", "disabled"}
Ending   == {"except", "reap", "undo", "final", "main"}
Children == {"hostapd", "dnsmasq"}
States   == {"not_started", "requested", "starting", "initializing", "running",
             "failed", "stopped"}
Commands == {"start", "stop", "restart", "unload"}
Reports  == {"none", "started", "already", "stopped", "unloaded", "error",
             "aborted"}
OpPcs    == {"validate", "start", "ready", "request", "spawn", "wait",
             "stop", "stopwait", "stoplegacy", "verdict",
             "unload", "linkdown", "rmmod"}

HostOK ==
  /\ copies \in [Kernel -> Nat]
  /\ managed \in BOOLEAN /\ plugged \in BOOLEAN /\ driver \in BOOLEAN
  /\ runDir \in BOOLEAN /\ legacy \in BOOLEAN
ProcessOK ==
  /\ unit \in {"inactive", "active", "deactivating"}
  /\ child \in [Children -> {"none", "up", "dying"}]
  /\ wpc \in {"dead"} \cup Early \cup Changing \cup Serving \cup Ending
  /\ undo \in 0..NChanges /\ age \in 0..MaxAge
LocalsOK ==
  /\ oldManaged \in BOOLEAN /\ created \in BOOLEAN /\ stopping \in BOOLEAN
  /\ failed \in BOOLEAN /\ errs \in BOOLEAN /\ raised \in BOOLEAN
StatusOK ==
  /\ state \in States /\ cleanupErrors \in BOOLEAN
  /\ fresh \in BOOLEAN /\ preManaged \in BOOLEAN /\ nmDefault \in BOOLEAN
CommandOK ==
  /\ op \in {"none"} \cup Commands /\ opc \in {"none"} \cup OpPcs
  /\ savedManaged \in BOOLEAN /\ report \in Reports
\* the type invariant: every variable has its type
TypeOK == HostOK /\ ProcessOK /\ LocalsOK /\ StatusOK /\ CommandOK

Init ==
  /\ copies = [c \in Kernel |-> 0]
  /\ nmDefault \in BOOLEAN /\ managed = nmDefault
  /\ plugged \in BOOLEAN /\ legacy \in BOOLEAN
  /\ driver = FALSE /\ runDir = FALSE
  /\ unit = "inactive" /\ child = [c \in Children |-> "none"] /\ wpc = "dead"
  /\ undo = 0 /\ age = 0
  /\ oldManaged = FALSE /\ created = FALSE /\ stopping = FALSE
  /\ failed = FALSE /\ errs = FALSE /\ raised = FALSE
  /\ state = "not_started" /\ cleanupErrors = FALSE
  /\ op = "none" /\ opc = "none" /\ savedManaged = FALSE /\ report = "none"
  /\ fresh = FALSE /\ preManaged = FALSE

Iface      == plugged /\ driver         \* find_adapter() has its interface
Leftover   == \E c \in Kernel : copies[c] > 0
NoChildren == \A c \in Children : child[c] = "none"

-----------------------------------------------------------------------------
(* The worker.  Each action is one stretch of run() between two points at  *)
(* which a kill, a signal or another process can be noticed.               *)

\* save_status(): replaces the whole record, so what it does not mention is gone
SaveStatus(s, e) == state' = s /\ cleanupErrors' = e /\ fresh' = TRUE

\* the process is gone and its memory with it; systemd turns to the cgroup
Exit == /\ wpc' = "dead" /\ unit' = "deactivating"
        /\ undo' = 0 /\ age' = 0
        /\ oldManaged' = FALSE /\ created' = FALSE /\ stopping' = FALSE
        /\ failed' = FALSE /\ errs' = FALSE /\ raised' = FALSE

\* an exception inside the try block of run()
Fail == wpc' = "except" /\ failed' = TRUE
Goto(pc) == wpc' = pc /\ UNCHANGED failed

\* load_config, check_driver, check_proxy, find_adapter: no handler yet, an
\* exception goes straight to main()
WBoot ==
  /\ wpc = "boot"
  /\ \/ Iface /\ Goto("starting")
     \/ Goto("main")
  /\ UNCHANGED <<host, procs, undo, oldManaged, created, stopping, errs,
                 raised, age, status, cmdv, hist>>

WStarting ==
  /\ wpc = "starting"
  /\ \/ SaveStatus("starting", FALSE) /\ Goto("checks")
     \/ "disk" \in Faults /\ Fail /\ UNCHANGED <<status, fresh>>
  /\ UNCHANGED <<host, procs, undo, oldManaged, created, stopping, errs,
                 raised, age, cmdv, preManaged, nmDefault>>

\* module, ip_forward, routes, the two priorities, an address on the adapter
WChecks ==
  /\ wpc = "checks"
  /\ \/ /\ Iface /\ copies[Address] = 0
        /\ \A r \in PolicyRules : copies[r] = 0
        /\ Goto("mkdir")
     \/ Fail
  /\ UNCHANGED <<host, procs, undo, oldManaged, created, stopping, errs,
                 raised, age, status, cmdv, hist>>

\* Mutant of WMkdir: mkdir(exist_ok=True)
WMkdirExistOk ==
  /\ wpc = "mkdir" /\ runDir' = TRUE /\ created' = TRUE /\ Goto("release")
  /\ UNCHANGED <<copies, managed, plugged, driver, legacy, procs, undo,
                 oldManaged, stopping, errs, raised, age, status, cmdv, hist>>

WMkdir ==
  /\ wpc = "mkdir"
  /\ \/ ~runDir /\ runDir' = TRUE /\ created' = TRUE /\ Goto("release")
     \/ runDir /\ Fail /\ UNCHANGED <<runDir, created>>
  /\ UNCHANGED <<copies, managed, plugged, driver, legacy, procs, undo,
                 oldManaged, stopping, errs, raised, age, status, cmdv, hist>>

\* the configuration files and `dnsmasq --test` come first and may fail
WRelease ==
  /\ wpc = "release"
  /\ \/ Fail /\ UNCHANGED <<managed, undo, oldManaged>>
     \/ /\ Iface /\ oldManaged' = managed /\ undo' = Release
        /\ \/ managed' = FALSE /\ Goto("verify")
           \/ Fail /\ (managed' = FALSE \/ UNCHANGED managed)
  /\ UNCHANGED <<copies, plugged, driver, runDir, legacy, procs, created,
                 stopping, errs, raised, age, status, cmdv, hist>>

\* after sleep(5): the adapter must be unmanaged, and two logs are written
WVerify ==
  /\ wpc = "verify"
  /\ \/ Iface /\ ~managed /\ Goto("apply")
     \/ Fail
  /\ UNCHANGED <<host, procs, undo, oldManaged, created, stopping, errs,
                 raised, age, status, cmdv, hist>>

\* Mutant of WApply: the last rule is left out of the plan's bound
WApplyShort ==
  /\ wpc = "apply" /\ undo' = undo + 1
  /\ undo' = Address => Iface
  /\ copies' = [copies EXCEPT ![undo'] = @ + 1]
  /\ Goto(IF undo' = NChanges - 1 THEN "hostapd" ELSE "apply")
  /\ UNCHANGED <<managed, plugged, driver, runDir, legacy, procs, oldManaged,
                 created, stopping, errs, raised, age, status, cmdv, hist>>

\* change(forward, backward): recorded first.  A command that fails or times
\* out may have done its work all the same.
WApply ==
  /\ wpc = "apply" /\ undo < NChanges
  /\ LET c == undo + 1
         done == [copies EXCEPT ![c] = @ + 1]
     IN /\ undo' = c
        /\ \/ /\ c = Address => Iface
              /\ copies' = done
              /\ Goto(IF c = NChanges THEN "hostapd" ELSE "apply")
           \/ Fail /\ copies' \in {copies} \cup {d \in {done} : c # Address \/ Iface}
  /\ UNCHANGED <<managed, plugged, driver, runDir, legacy, procs, oldManaged,
                 created, stopping, errs, raised, age, status, cmdv, hist>>

\* Popen of hostapd, then of dnsmasq
WSpawn(c) ==
  /\ wpc = c
  /\ \/ child' = [child EXCEPT ![c] = "up"]
        /\ Goto(IF c = "hostapd" THEN "dnsmasq" ELSE "loop")
     \/ Fail /\ UNCHANGED child
  /\ UNCHANGED <<host, unit, undo, oldManaged, created, stopping, errs,
                 raised, age, status, cmdv, hist>>

\* Mutant of WLoop: the loop does not look at `stopping`
WLoopDeaf ==
  /\ wpc = "loop" /\ Goto("poll")
  /\ UNCHANGED <<host, procs, undo, oldManaged, created, stopping, errs,
                 raised, age, status, cmdv, hist>>

WLoop ==
  /\ wpc = "loop"
  /\ Goto(IF stopping THEN "reap" ELSE "poll")
  /\ UNCHANGED <<host, procs, undo, oldManaged, created, stopping, errs,
                 raised, age, status, cmdv, hist>>

\* poll() of the children, then hostapd_cli says whether the AP is ENABLED
WPoll ==
  /\ wpc = "poll"
  /\ IF \E c \in Children : child[c] = "none" THEN Fail
     ELSE \/ Iface /\ child["hostapd"] = "up" /\ Goto("enabled")
          \/ Goto("disabled")
          \/ Fail
  /\ UNCHANGED <<host, procs, undo, oldManaged, created, stopping, errs,
                 raised, age, status, cmdv, hist>>

\* Mutant of WReport: no limit on how long an AP may take to come up
WReportNoLimit ==
  /\ wpc \in {"enabled", "disabled"}
  /\ SaveStatus(IF wpc = "enabled" THEN "running" ELSE "initializing", FALSE)
  /\ Goto("loop")
  /\ UNCHANGED <<host, procs, undo, oldManaged, created, stopping, errs,
                 raised, age, cmdv, preManaged, nmDefault>>

\* the status is saved from what hostapd_cli said; after 30 s the AP has to be up
WReport ==
  /\ wpc \in {"enabled", "disabled"}
  /\ \/ /\ SaveStatus(IF wpc = "enabled" THEN "running" ELSE "initializing", FALSE)
        /\ age' = IF age < MaxAge THEN age + 1 ELSE age
        /\ IF wpc = "disabled" /\ age = MaxAge THEN Fail ELSE Goto("loop")
     \/ Fail /\ UNCHANGED <<age, status, fresh>>
  /\ UNCHANGED <<host, procs, undo, oldManaged, created, stopping, errs,
                 raised, cmdv, preManaged, nmDefault>>

\* the except block: hotspot-error.log is written outside any try
WExcept ==
  /\ wpc = "except"
  /\ Goto("reap")
  /\ raised' \in {FALSE} \cup {b \in {TRUE} : "disk" \in Faults}
  /\ UNCHANGED <<host, procs, undo, oldManaged, created, stopping, errs,
                 age, status, cmdv, hist>>

\* terminate, wait 5 s, else kill() and do not wait
WReap ==
  /\ wpc = "reap"
  /\ child' \in [Children -> {"none", "dying"}]
  /\ \A c \in Children : child[c] = "none" => child'[c] = "none"
  /\ Goto("undo")
  /\ UNCHANGED <<host, unit, undo, oldManaged, created, stopping, errs,
                 raised, age, status, cmdv, hist>>

\* Mutants: the exception is not found by its comment; an undo that does not
\* look at what the kernel holds
UndoneNoTag(c) == IF c \in Exceptions THEN copies ELSE [copies EXCEPT ![c] = @ - 1]
CanUndoBlind(c) == TRUE

\* what the kernel holds after one backward command, and after its failure
Undone(c) == IF c \in Exceptions THEN [copies EXCEPT ![c] = 0]
                                 ELSE [copies EXCEPT ![c] = @ - 1]
CanUndo(c) == CASE c = Release    -> Iface
                [] c = Address    -> Iface /\ copies[c] > 0
                [] c \in Exceptions -> TRUE
                [] OTHER          -> copies[c] > 0

\* reversed(undo): an action that raises is noted, and the next one is tried
WUndo ==
  /\ wpc = "undo" /\ undo > 0
  /\ undo' = undo - 1
  /\ \/ /\ CanUndo(undo)
        /\ IF undo = Release THEN managed' = oldManaged /\ UNCHANGED copies
                             ELSE copies' = Undone(undo) /\ UNCHANGED managed
        /\ (errs' = TRUE \/ UNCHANGED errs)
     \/ errs' = TRUE /\ UNCHANGED <<managed, copies>>
  /\ UNCHANGED <<plugged, driver, runDir, legacy, procs, wpc, oldManaged,
                 created, stopping, failed, raised, age, status, cmdv, hist>>

\* Mutant of WRmtree: the directory is removed by a run that did not create it
WRmtreeAnyone ==
  /\ wpc = "undo" /\ undo = 0 /\ Goto("final") /\ runDir' = FALSE
  /\ UNCHANGED <<copies, managed, plugged, driver, legacy, procs, undo,
                 oldManaged, created, stopping, errs, raised, age, status,
                 cmdv, hist>>

\* only the run that created /run/nas-wifi removes it; an exception here skips
\* the status of this run and goes to main()
WRmtree ==
  /\ wpc = "undo" /\ undo = 0
  /\ \/ Goto("final") /\ runDir' = (runDir /\ ~created)
     \/ created /\ runDir /\ "rmtree" \in Faults /\ Goto("main") /\ UNCHANGED runDir
  /\ UNCHANGED <<copies, managed, plugged, driver, legacy, procs, undo,
                 oldManaged, created, stopping, errs, raised, age, status,
                 cmdv, hist>>

\* the status of this run; an exception still pending goes on to main()
WFinal ==
  /\ wpc = "final"
  /\ \/ /\ SaveStatus(IF failed THEN "failed" ELSE "stopped", errs)
        /\ IF raised THEN Goto("main") /\ UNCHANGED <<unit, undo, oldManaged,
                           created, stopping, errs, raised, age>>
                     ELSE Exit
     \/ /\ "disk" \in Faults /\ Goto("main")
        /\ UNCHANGED <<unit, undo, oldManaged, created, stopping, errs,
                       raised, age, status, fresh>>
  /\ UNCHANGED <<host, child, cmdv, preManaged, nmDefault>>

\* main(): `except Exception` around run() saves a status without errors
WMain ==
  /\ wpc = "main"
  /\ \/ SaveStatus("failed", FALSE)
     \/ "disk" \in Faults /\ UNCHANGED <<status, fresh>>
  /\ Exit
  /\ UNCHANGED <<host, child, cmdv, preManaged, nmDefault>>

Worker ==
  \/ WBoot \/ WStarting \/ WChecks \/ WMkdir \/ WRelease \/ WVerify \/ WApply
  \/ \E c \in Children : WSpawn(c)
  \/ WLoop \/ WPoll \/ WReport
  \/ WExcept \/ WReap \/ WUndo \/ WRmtree \/ WFinal \/ WMain

-----------------------------------------------------------------------------
(* systemd, the children and the host around them.                         *)

\* hostapd or dnsmasq exits: by itself, or because it was sent a signal
ChildExits(c) ==
  /\ child[c] # "none"
  /\ child' = [child EXCEPT ![c] = "none"]
  /\ UNCHANGED <<host, unit, wpc, locals, status, cmdv, hist>>

\* the cgroup is empty: the transient unit is collected
UnitGone ==
  /\ unit = "deactivating" /\ wpc = "dead" /\ NoChildren
  /\ unit' = "inactive"
  /\ UNCHANGED <<host, child, wpc, locals, status, cmdv, hist>>

\* SIGKILL: no finally block runs
WorkerKilled ==
  /\ wpc # "dead"
  /\ IF wpc = "final" THEN "late" \in Faults ELSE "kill" \in Faults
  /\ Exit
  /\ UNCHANGED <<host, child, status, cmdv, hist>>

\* the adapter is pulled out and takes its address and NM state with it
Unplug ==
  /\ plugged
  /\ plugged' = FALSE /\ managed' = nmDefault
  /\ copies' = [copies EXCEPT ![Address] = 0]
  /\ UNCHANGED <<driver, runDir, legacy, procs, wpc, locals, status, cmdv, hist>>

Plug ==
  /\ ~plugged /\ plugged' = TRUE
  /\ UNCHANGED <<copies, managed, driver, runDir, legacy, procs, wpc, locals,
                 status, cmdv, hist>>

\* everything but the files under BASE is lost
Reboot ==
  /\ copies' = [c \in Kernel |-> 0] /\ managed' = nmDefault
  /\ driver' = FALSE /\ runDir' = FALSE /\ legacy' = FALSE
  /\ unit' = "inactive" /\ child' = [c \in Children |-> "none"] /\ wpc' = "dead"
  /\ undo' = 0 /\ age' = 0
  /\ oldManaged' = FALSE /\ created' = FALSE /\ stopping' = FALSE
  /\ failed' = FALSE /\ errs' = FALSE /\ raised' = FALSE
  /\ op' = "none" /\ opc' = "none" /\ savedManaged' = FALSE /\ report' = "none"
  /\ UNCHANGED <<plugged, status, hist>>

Environment == \/ \E c \in Children : ChildExits(c)
               \/ UnitGone \/ WorkerKilled \/ Unplug \/ Plug \/ Reboot

-----------------------------------------------------------------------------
(* The commands of manage.py; operation.lock lets one of them in at a time. *)

OpBegin(c) ==
  /\ op = "none"
  /\ op' = c /\ report' = "none"
  /\ opc' = CASE c = "start" -> "start" [] c = "restart" -> "validate"
              [] OTHER -> "stop"
  /\ UNCHANGED <<host, procs, wpc, locals, status, savedManaged, hist>>

\* the command returns or raises, and the lock is released
Return(r) == op' = "none" /\ opc' = "none" /\ savedManaged' = FALSE /\ report' = r
Step(pc) == opc' = pc /\ UNCHANGED <<op, savedManaged, report>>

\* restart: preflight() before a working AP is interrupted
OValidate ==
  /\ opc = "validate"
  /\ Step("stop") \/ Return("error")
  /\ UNCHANGED <<host, procs, wpc, locals, status, hist>>

\* Mutant of OStop: active() knows `active` but not `deactivating`
OStopActiveOnly ==
  /\ opc = "stop"
  /\ \/ unit # "active" /\ Step("stoplegacy") /\ UNCHANGED <<unit, stopping>>
     \/ /\ unit = "active" /\ Step("stopwait")
        /\ unit' = "deactivating" /\ stopping' = (wpc # "dead")
  /\ UNCHANGED <<host, child, wpc, undo, oldManaged, created, failed, errs,
                 raised, age, status, hist>>

\* stop_unit(UNIT): `systemctl stop` sends SIGTERM to the whole cgroup.  A
\* worker that has no handler yet dies of it.
OStop ==
  /\ opc = "stop"
  /\ \/ unit = "inactive" /\ Step("stoplegacy") /\ UNCHANGED <<unit, wpc, locals>>
     \/ /\ unit # "inactive" /\ Step("stopwait")
        /\ IF wpc = "boot" THEN Exit
           ELSE /\ unit' = "deactivating"
                /\ stopping' = (wpc # "dead")
                /\ UNCHANGED <<wpc, undo, oldManaged, created, failed, errs,
                               raised, age>>
  /\ UNCHANGED <<host, child, status, hist>>

\* systemctl returns when the unit is gone, or cmd() gives up on it
OStopWait ==
  /\ opc = "stopwait"
  /\ (unit = "inactive" /\ Step("stoplegacy")) \/ Return("error")
  /\ UNCHANGED <<host, procs, wpc, locals, status, hist>>

OStopLegacy ==
  /\ opc = "stoplegacy"
  /\ \/ legacy' = FALSE /\ Step("verdict")
     \/ legacy /\ Return("error") /\ UNCHANGED legacy
  /\ UNCHANGED <<copies, managed, plugged, driver, runDir, procs, wpc, locals,
                 status, hist>>

\* stop() has the last word of the worker: its cleanup errors
OVerdict ==
  /\ opc = "verdict"
  /\ CASE cleanupErrors  -> Return("error")
       [] op = "stop"     -> Return("stopped")
       [] op = "unload"   -> Step("unload")
       [] OTHER           -> Step("start")
  /\ UNCHANGED <<host, procs, wpc, locals, status, hist>>

\* start(): preflight, then `active(UNIT)`, then the earlier test project
OStart ==
  /\ opc = "start"
  /\ \/ Return("error") /\ UNCHANGED legacy
     \/ unit # "inactive" /\ Return("already") /\ UNCHANGED legacy
     \/ unit = "inactive" /\ legacy' = FALSE /\ Step("ready")
  /\ UNCHANGED <<copies, managed, plugged, driver, runDir, procs, wpc, locals,
                 status, hist>>

\* Mutant of OReady: the cleanup errors are not looked at
OReadyBlind ==
  /\ opc = "ready"
  /\ \/ driver' = TRUE /\ plugged /\ Step("request")
     \/ driver' \in {driver, TRUE} /\ Return("error")
  /\ UNCHANGED <<copies, managed, plugged, runDir, legacy, procs, wpc, locals,
                 status, hist>>

\* refuse after cleanup errors; ensure_driver() loads the module
OReady ==
  /\ opc = "ready"
  /\ \/ ~cleanupErrors /\ driver' = TRUE /\ plugged /\ Step("request")
     \/ ~cleanupErrors /\ driver' \in {driver, TRUE} /\ Return("error")
     \/ cleanupErrors /\ Return("error") /\ UNCHANGED driver
  /\ UNCHANGED <<copies, managed, plugged, runDir, legacy, procs, wpc, locals,
                 status, hist>>

\* Mutant of ORequest: the status of the run before stays in the file
ORequestKeeps ==
  /\ opc = "request" /\ Step("spawn")
  /\ UNCHANGED <<host, procs, wpc, locals, status, hist>>

\* save_status(state='requested') forgets the status of the run before
ORequest ==
  /\ opc = "request"
  /\ \/ state' = "requested" /\ cleanupErrors' = FALSE /\ Step("spawn")
     \/ "disk" \in Faults /\ Return("error") /\ UNCHANGED status
  /\ UNCHANGED <<host, procs, wpc, locals, hist>>

\* systemd-run
OSpawn ==
  /\ opc = "spawn"
  /\ \/ /\ unit' = "active" /\ wpc' = "boot"
        /\ preManaged' = managed /\ fresh' = FALSE
        /\ Step("wait")
     \/ Return("error") /\ UNCHANGED <<unit, wpc, preManaged, fresh>>
  /\ UNCHANGED <<host, child, locals, status, nmDefault>>

\* up to 60 rounds of reading the status and asking systemd
OWait ==
  /\ opc = "wait"
  /\ \/ state = "running" /\ Return("started")
     \/ state \in {"failed", "stopped"} /\ Return("error")
     \/ state # "running" /\ unit = "inactive" /\ Return("error")
     \/ state # "running" /\ Return("error")
  /\ UNCHANGED <<host, procs, wpc, locals, status, hist>>

\* unload(): nothing to do, or take the adapter from NetworkManager first
OUnload ==
  /\ opc = "unload"
  /\ \/ ~driver /\ Return("unloaded") /\ UNCHANGED managed
     \/ driver /\ Return("error") /\ UNCHANGED managed
     \/ /\ Iface /\ opc' = "linkdown" /\ savedManaged' = managed
        /\ managed' = FALSE /\ UNCHANGED <<op, report>>
  /\ UNCHANGED <<copies, plugged, driver, runDir, legacy, procs, wpc, locals,
                 status, hist>>

\* `ip link set down`: its failure does not give the adapter back
OLinkDown ==
  /\ opc = "linkdown"
  /\ (Iface /\ Step("rmmod")) \/ Return("error")
  /\ UNCHANGED <<host, procs, wpc, locals, status, hist>>

\* the network device goes with the module; when rmmod fails the NM state is
\* put back as well as that can be done
ORmmod ==
  /\ opc = "rmmod"
  /\ \/ /\ driver' = FALSE /\ managed' = nmDefault
        /\ copies' = [copies EXCEPT ![Address] = 0]
        /\ Return("unloaded")
     \/ /\ managed' \in {managed} \cup {b \in {savedManaged} : Iface}
        /\ Return("error") /\ UNCHANGED <<driver, copies>>
  /\ UNCHANGED <<plugged, runDir, legacy, procs, wpc, locals, status, hist>>

\* ^C or a kill of manage.py: the kernel drops the flock
OpAbort ==
  /\ op # "none" /\ Return("aborted")
  /\ UNCHANGED <<host, procs, wpc, locals, status, hist>>

OpStep == \/ OValidate \/ OStop \/ OStopWait \/ OStopLegacy \/ OVerdict
          \/ OStart \/ OReady \/ ORequest \/ OSpawn \/ OWait
          \/ OUnload \/ OLinkDown \/ ORmmod

Operator == (\E c \in Commands : OpBegin(c)) \/ OpStep \/ OpAbort

Next == Worker \/ Environment \/ Operator

Spec == Init /\ [][Next]_vars

\* A child that was sent SIGKILL, or whose cgroup systemd is emptying, is gone
\* in the end; the worker, systemd and nothing else is sure to go on.
Reaped(c) == (child[c] = "dying" \/ (unit = "deactivating" /\ wpc = "dead")) /\ ChildExits(c)
Fairness == /\ WF_vars(Worker) /\ WF_vars(UnitGone)
            /\ \A c \in Children : WF_vars(Reaped(c))
FairSpec == Spec /\ Fairness

-----------------------------------------------------------------------------
(* What the commands and the worker promise together.                       *)

\* No change is ever made on top of itself (manage.py:91): iptables would hold
\* the rule twice, and the one -D of the undo list would leave one of them.
NoDoubleApply == \A c \in Kernel : copies[c] <= 1

\* A worker that is gone and left changes behind is noticed by the next start:
\* either its directory is still there (mkdir fails) or its status has errors.
LeftoversFlagged == wpc = "dead" /\ Leftover => runDir \/ cleanupErrors

\* A status `stopped` without cleanup errors is the truth: every change was
\* undone, and the adapter is NetworkManager's as it was before the start (or
\* as NetworkManager took it when it was plugged in again).
CleanStop ==
  /\ wpc = "dead" /\ state = "stopped" /\ ~cleanupErrors => ~Leftover
  /\ wpc = "final" /\ ~failed /\ ~errs => managed \in {preManaged, nmDefault}

\* hostapd serves clients only while every rule is in place, the rejection of
\* traffic that would leave by the wire among them: from before it is spawned
\* until after it was terminated, also when the worker dies before it.
ServeOnlyBehindRules ==
  child["hostapd"] = "up" => \A r \in Rules : copies[r] > 0

\* `start` reports success only for a status that the worker of this very start
\* has written, never for the `running` a killed worker left in the file.
StartedMeansOurs == report = "started" => fresh

\* While a worker lives nobody else has the adapter: the earlier test project is
\* stopped, and the module is not removed under it.
WorkerOwnsAdapter == wpc # "dead" => driver /\ ~legacy

\* Cleanup errors are never forgotten: no worker, no later start and no reboot
\* clears them, until somebody has looked at the file ("to avoid adding rules
\* twice", manage.py:91).
ErrorsKept == [][cleanupErrors => cleanupErrors']_vars

\* A stop that reached systemd ends with the unit inactive, whatever the worker
\* was doing, and whatever failed while it undid its changes.
StopCompletes == unit = "deactivating" ~> unit = "inactive"

\* A start does not hang: its worker comes to serve clients, or it ends.
ServesOrEnds == wpc = "boot" ~> (fresh /\ state = "running") \/ wpc = "dead"
=============================================================================
