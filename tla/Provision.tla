------------------------------ MODULE Provision ------------------------------
(***************************************************************************)
(* The panel's port and secrets: the configuration file panel.json, the      *)
(* commands that fill and change it (config-ensure-all, panel-port-set with  *)
(* the installer's restart and rollback, config-migrate), the running panel, *)
(* which keeps the configuration it started with, and the ports of its rules. *)
(*                                                                         *)
(* Commands are processes of their own: they share the file and the database  *)
(* with the panel, and no lock.  One command runs at a time.                 *)
(***************************************************************************)
EXTENDS Integers, FiniteSets

CONSTANTS
    Ports,        \* ports
    PanelRange,   \* ports the panel's may be chosen from (10000-65535)
    RuleRange,    \* ports a rule's may be chosen from (20000-59999)
    Ephemeral,    \* the kernel's local port range
    Guarded,      \* ssh_port and guard_ports
    Legacy,       \* LegacyDefaultPort, 8090
    Secrets,      \* what randomHex may return
    MaxFaults     \* bound: failures, deaths and edits by hand

ASSUME PortAssumption ==
    /\ Ports \subseteq Nat \ {0} /\ Guarded \subseteq Ports
    /\ PanelRange \subseteq Ports \ {Legacy} /\ RuleRange \subseteq Ports
    /\ Legacy \in Ports \ Guarded
ASSUME SecretAssumption == Secrets \subseteq Nat \ ({0} \cup Ports)
ASSUME BoundAssumption == MaxFaults \in Nat

VARIABLES
    file,      \* panel.json as programs read it
    disk,      \* panel.json as it is after a loss of power
    op,        \* the command that is running
    panel,     \* the running panel: the port it listens on and guards, 0 if down
    rules,     \* SQLite: listening ports of the live rules
    announced, \* history: what a command has told the user, 0 where nothing
    unsynced,  \* history: a directory could not be flushed after a rename, and no
               \* command has told the user since what is on disk
    unguarded, \* history: rules written on a port that was the panel's to be already
    faults

vars == <<file, disk, op, panel, rules, announced, unsynced, unguarded, faults>>

Keys == {"port", "token", "entry"}
\* 0 is a key that is missing; "dated" says that deprecated keys are there, "whole"
\* that the file can be read and decoded, as one that does not exist.
Files == [port : Ports \cup {0}, token : Secrets \cup {0}, entry : Secrets \cup {0},
          dated : BOOLEAN, whole : BOOLEAN]
Empty == [port |-> 0, token |-> 0, entry |-> 0, dated |-> FALSE, whole |-> TRUE]
Damaged == [Empty EXCEPT !.whole = FALSE]

Writing == {"write", "fsync", "rename", "dirsync"}
Deciding == {"port", "pick", "token", "entry", "check", "validate", "restart", "restore"}
\* "next" is what is being written, "flushed" whether it is on disk, "then" what
\* follows; "taken" are the reserved ports, "want" and "old" those of a change.
None == [cmd |-> "none", pc |-> "idle", next |-> Empty, flushed |-> FALSE, then |-> "idle",
         taken |-> {}, want |-> 0, old |-> 0]
Ops == [cmd : {"none", "ensure", "change", "migrate"}, pc : Writing \cup Deciding \cup {"idle"},
        next : Files, flushed : BOOLEAN, then : Deciding \cup {"idle"},
        taken : SUBSET Ports, want : Ports \cup {0}, old : Ports \cup {0}]

TypeOK ==
    /\ file \in Files /\ disk \in Files /\ op \in Ops
    /\ panel \in Ports \cup {0} /\ rules \subseteq Ports
    /\ announced \in [Keys -> Ports \cup Secrets \cup {0}]
    /\ unsynced \in BOOLEAN /\ unguarded \subseteq rules
    /\ faults \in 0..MaxFaults

\* A fresh host, or an installation of a release with the fixed port.
Init ==
    /\ file \in {Empty, [Empty EXCEPT !.port = Legacy, !.dated = TRUE]}
    /\ disk = file /\ op = None /\ panel = 0
    /\ rules \in SUBSET (Ports \ (Guarded \cup {Legacy}))
    /\ announced = [k \in Keys |-> 0] /\ unsynced = FALSE /\ unguarded = {} /\ faults = 0

Fault == faults < MaxFaults /\ faults' = faults + 1

-----------------------------------------------------------------------------
(* Reading the configuration, and what is reserved.                         *)

\* LoadStrict: a file that is there and cannot be read is an error.
LoadedAnyway == TRUE
Loaded == file.whole

\* ValidateServe.
Complete(c) == \A k \in Keys : c[k] # 0

\* GuardPorts, of a command from the file and of the panel from its start on.
GuardPortsOfAll(port) == Guarded \cup {port}
GuardPorts(port) == Guarded \cup ({port} \ {0})
\* reservedPorts: forwarded ports are bound by nobody, so only the rules tell.
ReservedUnread == GuardPorts(file.port)
Reserved == GuardPorts(file.port) \cup rules

\* pickPort: as any ports may be in use by others, and phase 2 takes ephemeral ones,
\* any of these may be found.
Pickable == PanelRange \ (op.taken \cup {panel})

\* Allocate: the ephemeral range is not avoided if it covers all.
Avoided == IF RuleRange \subseteq Ephemeral THEN {} ELSE Ephemeral
Allocatable == RuleRange \ (Avoided \cup GuardPorts(panel) \cup rules)

-----------------------------------------------------------------------------
(* WriteFileAtomic, in stages.                                              *)

\* The first stage of a write of c, and the stage after each.
Write(c, then) ==
    [op EXCEPT !.pc = "write", !.next = [c EXCEPT !.whole = TRUE], !.flushed = FALSE, !.then = then]
StageUnsynced(pc) == IF pc = "write" THEN "rename" ELSE "dirsync"
Stage(pc) == IF pc = "write" THEN "fsync" ELSE IF pc = "fsync" THEN "rename" ELSE "dirsync"

WriteTemp ==
    /\ op.pc = "write" /\ op' = [op EXCEPT !.pc = Stage("write")]
    /\ UNCHANGED <<file, disk, panel, rules, announced, unsynced, unguarded, faults>>
SyncTemp ==
    /\ op.pc = "fsync" /\ op' = [op EXCEPT !.pc = Stage("fsync"), !.flushed = TRUE]
    /\ UNCHANGED <<file, disk, panel, rules, announced, unsynced, unguarded, faults>>
Rename ==
    /\ op.pc = "rename" /\ op' = [op EXCEPT !.pc = Stage("rename")]
    /\ file' = op.next
    /\ UNCHANGED <<disk, panel, rules, announced, unsynced, unguarded, faults>>
SyncDir ==
    /\ op.pc = "dirsync"
    /\ op' = IF op.then = "idle" THEN None ELSE [None EXCEPT !.cmd = op.cmd, !.pc = op.then, !.old = op.old]
    /\ disk' = file
    /\ UNCHANGED <<file, panel, rules, announced, unsynced, unguarded, faults>>

-----------------------------------------------------------------------------
(* The commands.                                                            *)

Begin(cmd, pc, port) ==
    /\ op = None
    /\ op' = [None EXCEPT !.cmd = cmd, !.pc = pc, !.want = port]
    /\ UNCHANGED <<file, disk, panel, rules, unsynced, unguarded, faults>>
\* Running the installer, changing the port, cleaning up.
BeginEnsure == Begin("ensure", "port", 0) /\ UNCHANGED announced
BeginChange(p) == Begin("change", "validate", p) /\ UNCHANGED announced
BeginMigrate ==
    /\ op = None /\ Loaded /\ file.dated
    /\ op' = [Write([file EXCEPT !.dated = FALSE], "idle") EXCEPT !.cmd = "migrate"]
    /\ UNCHANGED <<file, disk, panel, rules, announced, unsynced, unguarded, faults>>

\* A command ends; a change that has been given up, and one that has been rolled
\* back, tell the user that the old port is the port.
Tell(port) == announced' = [announced EXCEPT !["port"] = port]
End == op' = None /\ UNCHANGED <<file, disk, panel, rules, unguarded>>
Refuse == IF op.then = "restart" THEN Tell(op.old) ELSE UNCHANGED announced

Decide(pc) == op.pc = pc /\ Loaded
Go(step) == op' = step /\ UNCHANGED <<file, disk, panel, rules, announced, unsynced, unguarded, faults>>

\* EnsurePanelPort: the fixed port of old is cleared, any other is kept, and one
\* is chosen where there is none.
PortKept == Decide("port") /\ file.port # 0 /\ file.port # Legacy /\ Go([op EXCEPT !.pc = "token"])
PortCleared == Decide("port") /\ file.port = Legacy /\ Go(Write([file EXCEPT !.port = 0], "port"))
PortWanted == Decide("port") /\ file.port = 0 /\ Go([op EXCEPT !.pc = "pick", !.taken = Reserved])
PortPicked ==
    /\ Decide("pick")
    /\ \E p \in Pickable : Go(Write([file EXCEPT !.port = p], "token"))

\* EnsureToken, EnsureEntryPath.
Following(k) == IF k = "token" THEN "entry" ELSE "check"
SecretKept(k) == Decide(k) /\ file[k] # 0 /\ Go([op EXCEPT !.pc = Following(k)])
SecretMade(k) ==
    /\ Decide(k) /\ file[k] = 0
    /\ \E v \in Secrets : Go(Write([file EXCEPT ![k] = v], Following(k)))

EnsureDone ==
    /\ Decide("check") /\ Complete(file) /\ End
    /\ announced' = [k \in Keys |-> file[k]] /\ unsynced' = (disk # file)
    /\ UNCHANGED faults

\* SetPanelPortChecked, with ValidatePanelPort.
Acceptable(p) == p \notin Reserved \cup {panel}
ChangeAccepted ==
    /\ Decide("validate") /\ Acceptable(op.want)
    /\ op' = [Write([file EXCEPT !.port = op.want], "restart") EXCEPT !.old = file.port]
    /\ Tell(0)
    /\ UNCHANGED <<file, disk, panel, rules, unsynced, unguarded, faults>>
ChangeRejected == Decide("validate") /\ End /\ UNCHANGED <<announced, unsynced, faults>>

\* change_panel_port of the installer: restart, else write the old port back.
Serving == Loaded /\ Complete(file)
Restarted == panel' = file.port /\ UNCHANGED <<file, disk, rules, unsynced, unguarded>>
ChangeDone ==
    /\ op.pc = "restart" /\ Serving /\ Restarted
    /\ op' = None /\ Tell(file.port) /\ UNCHANGED faults
\* The panel does not start, or is up and not healthy.
Unhealthy ==
    \/ ~Serving /\ panel' = 0 /\ UNCHANGED faults
    \/ Serving /\ panel' \in {0, file.port} /\ Fault
ChangeUndone ==
    /\ op.pc = "restart" /\ Loaded /\ Unhealthy
    /\ op' = Write([file EXCEPT !.port = op.old], "restore")
    /\ UNCHANGED <<file, disk, rules, announced, unsynced, unguarded>>
ChangeRestored ==
    /\ op.pc = "restore" /\ Serving /\ Restarted
    /\ op' = None /\ Tell(op.old) /\ UNCHANGED faults
ChangeLost ==
    /\ op.pc = "restore" /\ Unhealthy
    /\ op' = None /\ UNCHANGED <<file, disk, rules, announced, unsynced, unguarded>>

\* An error ends a command: the file is damaged, the database cannot be read, no
\* port is found, a write fails.  The one of the last stage, the flush of the
\* directory, is returned as any other: the file is in place, and what the user is
\* told is that nothing was written.
Fails == op.pc \in (Writing \cup Deciding) \ {"restart", "restore"} /\ Fault
Unable ==
    /\ \/ op.pc \in Deciding /\ ~Loaded
       \/ op.pc = "pick"
       \/ op.pc = "check" /\ ~Complete(file)
    /\ UNCHANGED faults
Abort ==
    /\ (Unable \/ Fails) /\ End /\ Refuse
    /\ unsynced' = (unsynced \/ op.pc = "dirsync")

-----------------------------------------------------------------------------
(* The panel.                                                               *)

\* Serve: the configuration is read once.
Serve == Serving /\ Restarted /\ UNCHANGED <<op, announced, faults>>

\* The ports that a start of the panel may find in the file: what is there, what a
\* loss of power may bring back, what a command writes, may choose or goes back to.
Claimed ==
    {file.port, disk.port, op.old}
        \cup (IF op.pc \in Writing THEN {op.next.port} ELSE {})
        \cup (IF op.pc = "pick" THEN PanelRange \ op.taken ELSE {})

\* Create and Delete of rulesvc, whose guards are those of the panel's start.
Guards == GuardPorts(panel)
Listen(p) == rules' = rules \cup {p} /\ unguarded' = unguarded \cup ({p} \cap Claimed)
Create ==
    /\ panel # 0
    /\ \E p \in Ports \ (Guards \cup rules) : Listen(p)
    /\ UNCHANGED <<file, disk, op, panel, announced, unsynced, faults>>
CreateAllocated ==
    /\ panel # 0 /\ \E p \in Allocatable : Listen(p)
    /\ UNCHANGED <<file, disk, op, panel, announced, unsynced, faults>>
Delete ==
    /\ panel # 0 /\ \E p \in rules : rules' = rules \ {p} /\ unguarded' = unguarded \ {p}
    /\ UNCHANGED <<file, disk, op, panel, announced, unsynced, faults>>

-----------------------------------------------------------------------------
(* Death, loss of power, and the user's editor.                             *)

Stop == panel # 0 /\ panel' = 0 /\ UNCHANGED <<file, disk, op, rules, announced, unsynced, unguarded, faults>>
\* The command is killed; what it renamed is on disk before the next one runs.
Die ==
    /\ op # None /\ Fault
    /\ op' = None /\ disk' = IF op.pc = "dirsync" THEN file ELSE disk
    /\ UNCHANGED <<file, panel, rules, announced, unsynced, unguarded>>
\* As long as the directory has not been flushed after a rename, either file may be
\* there; a content that was not flushed is lost.
AfterPowerLoss == {disk, IF op.pc = "dirsync" /\ ~op.flushed THEN Damaged ELSE file}
PowerLoss ==
    /\ Fault /\ file' \in AfterPowerLoss /\ disk' = file'
    /\ op' = None /\ panel' = 0
    /\ UNCHANGED <<rules, announced, unsynced, unguarded>>
\* The file is damaged, or repaired: nothing that was told before counts.
EditByHand ==
    /\ op = None /\ Fault
    /\ file' \in {Damaged, Empty} /\ file' # file /\ disk' = file'
    /\ announced' = [k \in Keys |-> 0] /\ unsynced' = FALSE
    /\ UNCHANGED <<op, panel, rules, unguarded>>

-----------------------------------------------------------------------------
WriteStep == WriteTemp \/ SyncTemp \/ Rename \/ SyncDir
Ensure ==
    \/ BeginEnsure \/ PortKept \/ PortCleared \/ PortWanted \/ PortPicked
    \/ \E k \in {"token", "entry"} : SecretKept(k) \/ SecretMade(k)
    \/ EnsureDone
Change ==
    \/ \E p \in Ports : BeginChange(p)
    \/ ChangeAccepted \/ ChangeRejected \/ ChangeDone \/ ChangeUndone
    \/ ChangeRestored \/ ChangeLost
Panel == Serve \/ Create \/ CreateAllocated \/ Delete \/ Stop
Next == WriteStep \/ Ensure \/ Change \/ BeginMigrate \/ Abort \/ Panel \/ Die \/ PowerLoss \/ EditByHand
Spec == Init /\ [][Next]_vars

-----------------------------------------------------------------------------
(* Properties.                                                             *)

\* No rule forwards the port of the panel, neither the one it listens on nor the
\* one it will have after its next start.  The code does not keep this: the guards
\* that a new rule is checked with are those of the panel's start.
PanelAlone == {panel, file.port} \cap rules = {}

\* What the code does keep.  No command gives the panel a port that a rule has when
\* the rules are read, no rule takes a port that the running panel has, and no
\* failure, rollback, death or loss of power brings the two together later.  A rule
\* on the panel's port, or on that of its next start, was written when the port was
\* already the panel's to be and the running panel did not guard it.
OnlyUnguardedCollide == {panel, file.port} \cap rules \subseteq unguarded

\* What the user has been told stays true, until he asks for a change: the token,
\* the path and the port survive commands that fail, deaths and losses of power.
\* Only the port 8090 is taken back, even if it was asked for.
AnnouncedStays == \A k \in Keys : announced[k] \in {0, Legacy, file[k]}

\* The same, of a disk on which no flush of the directory has failed since the user
\* was told what is on disk.
AnnouncedKept == ~unsynced => AnnouncedStays

\* No command writes over a file that it cannot read.
DamagedKept == [][~file.whole /\ op # None => file' = file]_vars
=============================================================================
