--------------------------- MODULE ProvisionProofs ---------------------------
(***************************************************************************)
(* What holds of Provision for any ports, ranges and secrets.              *)
(*                                                                         *)
(* The inductive invariant says what each stage of a write may rely on      *)
(* (Staged), that what was told is also what is on disk and what is being    *)
(* written, as long as no flush of the directory failed (Telling), and that a  *)
(* rule on any port the panel has, will have or may go back to was written on  *)
(* one that was not guarded (Apart).                                        *)
(***************************************************************************)
EXTENDS Provision, TLAPS

\* Contents only change by a rename of something whole and flushed, and the disk has
\* them but for the flush of the directory; a damaged file is as it is on disk.
AtRest == (unsynced \/ disk = file) /\ (file.whole \/ disk = file)
Synced == (op.pc # "dirsync" => AtRest) /\ (file.whole \/ disk = file)
Flushed == op.pc \in {"rename", "dirsync"} => op.flushed
Whole == op.pc \in Writing => file.whole /\ op.next.whole
Visible == op.pc = "dirsync" => file = op.next
Planless == op.then # "pick" /\ (op.pc \in Deciding \cup {"idle"} => op.then = "idle")
Staged == Synced /\ Flushed /\ Whole /\ Visible /\ Planless

\* No content that a file may come to have takes back what was told.
Agrees(c) == \A k \in Keys : announced[k] \in {0, Legacy, c[k]}
Changing == \/ op.pc \in {"restart", "restore"}
            \/ op.pc \in Writing /\ op.then \in {"restart", "restore"}
Untold == Changing => announced["port"] = 0
Vacant == op.pc = "pick" => file.port = 0
Before == op.pc \in Writing \ {"dirsync"} /\ op.then = "restart" => op.old = file.port
Back == /\ op.pc = "restore" => file.port = op.old
        /\ op.pc \in Writing /\ op.then = "restore" => op.next.port = op.old
Told ==
    /\ Agrees(file) /\ Agrees(disk) /\ (op.pc \in Writing => Agrees(op.next))
    /\ Untold /\ Vacant /\ Before /\ Back
Telling == ~unsynced => Told

\* Rules on a port that is, or may become, the panel's.
Apart == Claimed \cap rules \subseteq unguarded /\ {panel} \cap rules \subseteq unguarded

IInv == TypeOK /\ Staged /\ Telling /\ Apart

-----------------------------------------------------------------------------
\* The constant values have their types, and no key is a value.
LEMMA Constants ==
    /\ Empty \in Files /\ Damaged \in Files /\ None \in Ops
    /\ Empty.port = 0 /\ Damaged.port = 0 /\ Empty.whole
    /\ None.pc = "idle" /\ None.then = "idle" /\ None.old = 0
    /\ \A k \in Keys : Empty[k] = 0 /\ Damaged[k] = 0
<1>1. Empty \in Files /\ Damaged \in Files
  BY DEF Empty, Damaged, Files
<1>2. None \in Ops
  BY <1>1 DEF None, Ops
<1>3. \A k \in Keys : Empty[k] = 0 /\ Damaged[k] = 0
  BY DEF Empty, Damaged, Keys
<1> QED
  BY <1>1, <1>2, <1>3 DEF Empty, Damaged, None

\* Every value of a key has the type that what is told has.
LEMMA Value == ASSUME NEW c \in Files, NEW k \in Keys
               PROVE  c[k] \in Ports \cup Secrets \cup {0}
  BY DEF Files, Keys

\* A write that has begun.
LEMMA WriteType ==
    ASSUME TypeOK, NEW c \in Files, NEW then \in Deciding \cup {"idle"}
    PROVE  /\ Write(c, then) \in Ops /\ Write(c, then).pc = "write"
           /\ Write(c, then).then = then /\ Write(c, then).old = op.old
           /\ Write(c, then).next = [c EXCEPT !.whole = TRUE]
           /\ Write(c, then).next \in Files /\ Write(c, then).next.whole
<1>1. [c EXCEPT !.whole = TRUE] \in Files
  BY DEF Files
<1>2. op \in Ops /\ "write" \in Writing
  BY DEF TypeOK, Writing
<1>3. Write(c, then).next = [c EXCEPT !.whole = TRUE]
  BY <1>2 DEF Write, Ops
<1>4. Write(c, then) \in Ops
  BY <1>1, <1>2 DEF Write, Ops
<1>5. [c EXCEPT !.whole = TRUE].whole
  BY DEF Files
<1> QED
  BY <1>1, <1>2, <1>3, <1>4, <1>5 DEF Write, Ops

LEMMA WriteKeys ==
    ASSUME TypeOK, NEW c \in Files, NEW then
    PROVE  \A k \in Keys : Write(c, then).next[k] = c[k]
<1>1. Write(c, then).next = [c EXCEPT !.whole = TRUE]
  BY DEF Write, TypeOK, Ops
<1>2. \A k \in Keys : [c EXCEPT !.whole = TRUE][k] = c[k]
  BY DEF Files, Keys
<1> QED
  BY <1>1, <1>2

\* Writes that also note the command, or the port that was.
LEMMA NoteType ==
    ASSUME NEW step \in Ops, NEW cmd, NEW old
    PROVE  /\ [step EXCEPT !.cmd = cmd].pc = step.pc /\ [step EXCEPT !.cmd = cmd].next = step.next
           /\ [step EXCEPT !.cmd = cmd].then = step.then /\ [step EXCEPT !.cmd = cmd].old = step.old
           /\ [step EXCEPT !.old = old].pc = step.pc /\ [step EXCEPT !.old = old].next = step.next
           /\ [step EXCEPT !.old = old].then = step.then /\ [step EXCEPT !.old = old].old = old
  BY DEF Ops

\* The ports that are reserved are ports, and the panel's and the rules' are reserved.
LEMMA GuardType == ASSUME NEW p \in Ports \cup {0}
                   PROVE  GuardPorts(p) \subseteq Ports /\ (p # 0 => p \in GuardPorts(p))
  BY PortAssumption DEF GuardPorts

\* A step that only moves op, and one that ends a command.
LEMMA GoType == ASSUME TypeOK, NEW step \in Ops, Go(step) PROVE TypeOK'
  BY DEF TypeOK, Go
LEMMA WriteGoType ==
    ASSUME TypeOK, NEW c \in Files, NEW then \in Deciding \cup {"idle"}, Go(Write(c, then))
    PROVE  TypeOK'
  BY WriteType, GoType
LEMMA EndType ==
    ASSUME TypeOK, op' = None, UNCHANGED <<panel, rules, unguarded>>, file' \in Files, disk' \in Files, unsynced' \in BOOLEAN,
           announced' \in [Keys -> Ports \cup Secrets \cup {0}], faults' \in 0..MaxFaults
    PROVE  TypeOK'
  BY Constants DEF TypeOK
LEMMA TellType == ASSUME TypeOK, NEW p \in Ports \cup {0}, Tell(p)
                  PROVE  announced' \in [Keys -> Ports \cup Secrets \cup {0}]
  BY DEF TypeOK, Tell
LEMMA FaultType == ASSUME TypeOK, Fault PROVE faults' \in 0..MaxFaults
  BY BoundAssumption DEF TypeOK, Fault

LEMMA InitType == Init => TypeOK
<1>1. [Empty EXCEPT !.port = Legacy, !.dated = TRUE] \in Files
  BY PortAssumption DEF Empty, Files
<1>2. Init => unsynced \in BOOLEAN
  BY DEF Init
<1> QED
  BY <1>1, <1>2, Constants, BoundAssumption DEF Init, TypeOK

LEMMA NextType == TypeOK /\ [Next]_vars => TypeOK'
<1> SUFFICES ASSUME TypeOK, [Next]_vars PROVE TypeOK'
  OBVIOUS
<1> USE DEF Decide
<1>1. CASE WriteTemp \/ SyncTemp \/ Rename
  BY <1>1 DEF WriteTemp, SyncTemp, Rename, Stage, TypeOK, Ops, Writing
<1>2. CASE SyncDir
  <2>1. op' \in Ops
    BY <1>2, Constants DEF SyncDir, TypeOK, Ops, None
  <2> QED
    BY <1>2, <2>1 DEF SyncDir, TypeOK
<1>3. ASSUME NEW cmd \in {"ensure", "change"}, NEW pc \in Deciding, NEW port \in Ports \cup {0},
             Begin(cmd, pc, port), UNCHANGED announced
      PROVE  TypeOK'
  BY <1>3, Constants DEF Begin, None, TypeOK, Ops
<1>4. CASE BeginEnsure \/ \E p \in Ports : BeginChange(p)
  BY <1>3, <1>4 DEF BeginEnsure, BeginChange, Deciding
<1>5. CASE BeginMigrate
  <2>1. PICK c \in Files : c = [file EXCEPT !.dated = FALSE]
    BY DEF TypeOK, Files
  <2>2. op' = [Write(c, "idle") EXCEPT !.cmd = "migrate"] /\ Write(c, "idle") \in Ops
    BY <1>5, <2>1, WriteType DEF BeginMigrate
  <2>3. op' \in Ops
    BY <2>2 DEF Ops
  <2> QED
    BY <1>5, <2>3 DEF BeginMigrate, TypeOK
<1>6. CASE PortKept
  BY <1>6, GoType DEF PortKept, TypeOK, Ops, Deciding
<1>7. CASE PortCleared
  <2>1. [file EXCEPT !.port = 0] \in Files
    BY DEF TypeOK, Files
  <2> QED
    BY <1>7, <2>1, WriteGoType DEF PortCleared, Deciding
<1>8. CASE PortWanted
  <2>1. Reserved \subseteq Ports
    BY GuardType DEF Reserved, TypeOK, Files
  <2>2. [op EXCEPT !.pc = "pick", !.taken = Reserved] \in Ops
    BY <2>1 DEF TypeOK, Ops, Deciding
  <2> QED
    BY <1>8, <2>2, GoType DEF PortWanted
<1>9. CASE PortPicked
  <2>1. PICK p \in Pickable : Go(Write([file EXCEPT !.port = p], "token"))
    BY <1>9 DEF PortPicked
  <2>2. [file EXCEPT !.port = p] \in Files
    BY PortAssumption DEF Pickable, TypeOK, Files
  <2> QED
    BY <2>1, <2>2, WriteGoType DEF Deciding
<1>10. ASSUME NEW k \in {"token", "entry"}, SecretKept(k) PROVE TypeOK'
  BY <1>10, GoType DEF SecretKept, Following, TypeOK, Ops, Deciding
<1>11. ASSUME NEW k \in {"token", "entry"}, SecretMade(k) PROVE TypeOK'
  <2>1. PICK v \in Secrets : Go(Write([file EXCEPT ![k] = v], Following(k)))
    BY <1>11 DEF SecretMade
  <2>2. CASE k = "token"
    <3>1. [file EXCEPT !["token"] = v] \in Files
      BY DEF TypeOK, Files
    <3> QED
      BY <2>1, <2>2, <3>1, WriteGoType DEF Following, Deciding
  <2>3. CASE k = "entry"
    <3>1. [file EXCEPT !["entry"] = v] \in Files
      BY DEF TypeOK, Files
    <3> QED
      BY <2>1, <2>3, <3>1, WriteGoType DEF Following, Deciding
  <2> QED
    BY <2>2, <2>3
<1>12. CASE EnsureDone
  <2>1. announced' \in [Keys -> Ports \cup Secrets \cup {0}]
    BY <1>12, Value DEF EnsureDone, TypeOK
  <2> QED
    BY <1>12, <2>1, EndType DEF EnsureDone, End, TypeOK
<1>13. CASE ChangeAccepted
  <2>1. PICK c \in Files : c = [file EXCEPT !.port = op.want]
    BY DEF TypeOK, Files, Ops
  <2>2. Write(c, "restart") \in Ops
    BY WriteType DEF Deciding
  <2>3. op' \in Ops
    BY <1>13, <2>1, <2>2 DEF ChangeAccepted, TypeOK, Files, Ops
  <2> QED
    BY <1>13, <2>3, TellType DEF ChangeAccepted, TypeOK
<1>14. CASE ChangeRejected
  BY <1>14, EndType DEF ChangeRejected, End, TypeOK
<1>15. file.port \in Ports \cup {0} /\ op.old \in Ports \cup {0}
  BY DEF TypeOK, Files, Ops
<1>16. CASE ChangeDone \/ ChangeRestored
  <2>1. announced' \in [Keys -> Ports \cup Secrets \cup {0}]
    BY <1>15, <1>16, TellType DEF ChangeDone, ChangeRestored
  <2> QED
    BY <1>15, <1>16, <2>1, Constants DEF ChangeDone, ChangeRestored, Restarted, TypeOK
<1>17. Unhealthy => panel' \in Ports \cup {0} /\ faults' \in 0..MaxFaults
  BY <1>15, FaultType DEF Unhealthy, TypeOK
<1>18. CASE ChangeUndone
  <2>1. [file EXCEPT !.port = op.old] \in Files
    BY <1>15 DEF TypeOK, Files
  <2>2. op' \in Ops
    BY <1>18, <2>1, WriteType DEF ChangeUndone, Deciding
  <2> QED
    BY <1>17, <1>18, <2>2 DEF ChangeUndone, TypeOK
<1>19. CASE ChangeLost
  BY <1>17, <1>19, Constants DEF ChangeLost, TypeOK
<1>20. CASE Abort
  <2>1. announced' \in [Keys -> Ports \cup Secrets \cup {0}]
    BY <1>15, <1>20, TellType DEF Abort, Refuse, TypeOK
  <2>2. faults' \in 0..MaxFaults
    BY <1>20, FaultType DEF Abort, Unable, Fails, TypeOK
  <2> QED
    BY <1>20, <2>1, <2>2, EndType DEF Abort, End, TypeOK
<1>21. CASE Serve \/ Stop
  BY <1>15, <1>21 DEF Serve, Restarted, Stop, TypeOK
<1>22. CASE Create \/ CreateAllocated \/ Delete
  BY <1>22, PortAssumption DEF Create, CreateAllocated, Allocatable, Listen, Delete, TypeOK
<1>23. CASE Die
  BY <1>23, EndType, FaultType DEF Die, TypeOK
<1>24. CASE PowerLoss
  <2>1. file' \in Files /\ disk' = file'
    BY <1>24, Constants DEF PowerLoss, AfterPowerLoss, TypeOK
  <2> QED
    BY <1>24, <2>1, FaultType, Constants DEF PowerLoss, TypeOK
<1>25. CASE EditByHand
  <2>1. file' \in Files /\ disk' = file'
    BY <1>25, Constants DEF EditByHand
  <2>2. announced' \in [Keys -> Ports \cup Secrets \cup {0}]
    BY <1>25 DEF EditByHand
  <2> QED
    BY <1>25, <2>1, <2>2, FaultType DEF EditByHand, TypeOK
<1>26. CASE UNCHANGED vars
  BY <1>26 DEF vars, TypeOK
<1> QED
  BY <1>1, <1>2, <1>4, <1>5, <1>6, <1>7, <1>8, <1>9, <1>10, <1>11, <1>12, <1>13, <1>14,
     <1>16, <1>18, <1>19, <1>20, <1>21, <1>22, <1>23, <1>24, <1>25, <1>26
     DEF Next, WriteStep, Ensure, Change, Panel

-----------------------------------------------------------------------------
(* What the stages of a write may rely on.                                 *)

\* A step to another decision, the first stage of a write, the end of a command.
LEMMA DecideStaged ==
    ASSUME AtRest', op'.pc \in Deciding \cup {"idle"}, op'.then = "idle" PROVE Staged'
  BY DEF Staged, Synced, AtRest, Flushed, Whole, Visible, Planless, Deciding, Writing
LEMMA WriteStaged ==
    ASSUME AtRest', file'.whole, op'.pc = "write", op'.next.whole, op'.then # "pick"
    PROVE  Staged'
  BY DEF Staged, Synced, AtRest, Flushed, Whole, Visible, Planless, Deciding, Writing
LEMMA EndStaged == ASSUME op' = None, AtRest' PROVE Staged'
  BY Constants, DecideStaged

\* A command that decides follows no plan, and leaves files at rest that it does not write.
LEMMA Rested ==
    ASSUME Staged, op.pc \in Deciding \cup {"idle"} PROVE AtRest /\ op.then = "idle"
  BY DEF Staged, Synced, Planless, Deciding
LEMMA StayRested == ASSUME AtRest, UNCHANGED <<file, disk, unsynced>> PROVE AtRest'
  BY DEF AtRest

LEMMA NextStaged == TypeOK /\ Staged /\ [Next]_vars => Staged'
<1> SUFFICES ASSUME TypeOK, Staged, [Next]_vars PROVE Staged'
  OBVIOUS
<1> USE DEF Decide, Go
<1>1. CASE WriteTemp
  BY <1>1 DEF WriteTemp, Stage, Staged, Synced, AtRest, Flushed, Whole, Visible, Planless, Writing, Deciding, TypeOK, Ops
<1>2. CASE SyncTemp
  BY <1>2 DEF SyncTemp, Stage, Staged, Synced, AtRest, Flushed, Whole, Visible, Planless, Writing, Deciding, TypeOK, Ops
<1>3. CASE Rename
  BY <1>3 DEF Rename, Stage, Staged, Synced, AtRest, Flushed, Whole, Visible, Planless, Writing, Deciding, TypeOK, Ops
<1>4. CASE SyncDir
  <2>0. AtRest'
    BY <1>4 DEF SyncDir, AtRest
  <2>1. CASE op.then = "idle"
    BY <1>4, <2>0, <2>1, EndStaged DEF SyncDir
  <2>2. CASE op.then # "idle"
    <3>1. op'.pc \in Deciding /\ op'.then = "idle"
      BY <1>4, <2>2 DEF SyncDir, None, TypeOK, Ops
    <3> QED
      BY <2>0, <3>1, DecideStaged
  <2> QED
    BY <2>1, <2>2
<1>5. ASSUME NEW cmd, NEW pc \in Deciding, NEW port, Begin(cmd, pc, port)
      PROVE  Staged'
  <2>1. op'.pc = pc /\ op'.then = "idle"
    BY <1>5 DEF Begin, None
  <2>2. AtRest'
    BY <1>5, Rested, StayRested, Constants DEF Begin
  <2> QED
    BY <2>1, <2>2, DecideStaged
<1>6. CASE BeginEnsure \/ \E p \in Ports : BeginChange(p)
  BY <1>5, <1>6 DEF BeginEnsure, BeginChange, Deciding
<1>7. ASSUME NEW c \in Files, NEW then \in Deciding \ {"pick"}, Go(Write(c, then)),
             op.pc \in Deciding, file.whole
      PROVE  Staged'
  <2>1. op' = Write(c, then) /\ then \in Deciding \cup {"idle"} /\ then # "pick"
    BY <1>7
  <2>2. op'.pc = "write" /\ op'.next.whole /\ op'.then = then
    BY <2>1, WriteType
  <2> QED
    BY <1>7, <2>1, <2>2, Rested, StayRested, WriteStaged
<1>8. CASE BeginMigrate
  <2>1. PICK c \in Files : c = [file EXCEPT !.dated = FALSE]
    BY DEF TypeOK, Files
  <2>2. op' = [Write(c, "idle") EXCEPT !.cmd = "migrate"] /\ UNCHANGED <<file, disk, unsynced>> /\ file.whole
    BY <1>8, <2>1 DEF BeginMigrate, Loaded
  <2>3. PICK step \in Ops : /\ step = Write(c, "idle") /\ step.pc = "write"
                            /\ step.next.whole /\ step.then = "idle"
    BY WriteType, "idle" \in Deciding \cup {"idle"}
  <2>4. op'.pc = "write" /\ op'.next.whole /\ op'.then # "pick"
    BY <2>2, <2>3, NoteType
  <2>5. AtRest
    BY <1>8, Rested, Constants DEF BeginMigrate
  <2> QED
    BY <2>2, <2>4, <2>5, StayRested, WriteStaged
<1>9. CASE PortKept \/ PortWanted
  <2>1. op'.pc \in Deciding /\ op'.then = op.then /\ op.pc = "port" /\ UNCHANGED <<file, disk, unsynced>>
    BY <1>9 DEF PortKept, PortWanted, TypeOK, Ops, Deciding
  <2> QED
    BY <2>1, Rested, StayRested, DecideStaged DEF Deciding
<1>10. CASE PortCleared
  <2>1. [file EXCEPT !.port = 0] \in Files
    BY DEF TypeOK, Files
  <2> QED
    BY <1>7, <1>10, <2>1 DEF PortCleared, Loaded, Deciding
<1>11. CASE PortPicked
  <2>1. PICK p \in Pickable : Go(Write([file EXCEPT !.port = p], "token"))
    BY <1>11 DEF PortPicked
  <2>2. [file EXCEPT !.port = p] \in Files
    BY PortAssumption DEF Pickable, TypeOK, Files
  <2> QED
    BY <1>7, <1>11, <2>1, <2>2 DEF PortPicked, Loaded, Deciding
<1>12. ASSUME NEW k \in {"token", "entry"}, SecretKept(k) PROVE Staged'
  <2>1. op'.pc \in Deciding /\ op'.then = op.then /\ op.pc \in Deciding /\ UNCHANGED <<file, disk, unsynced>>
    BY <1>12 DEF SecretKept, Following, TypeOK, Ops, Deciding
  <2> QED
    BY <2>1, Rested, StayRested, DecideStaged
<1>13. ASSUME NEW k \in {"token", "entry"}, SecretMade(k) PROVE Staged'
  <2>1. PICK v \in Secrets : Go(Write([file EXCEPT ![k] = v], Following(k)))
    BY <1>13 DEF SecretMade
  <2>2. [file EXCEPT !["token"] = v] \in Files /\ [file EXCEPT !["entry"] = v] \in Files
    BY DEF TypeOK, Files
  <2>3. [file EXCEPT ![k] = v] \in Files
    BY <2>2
  <2>4. Following(k) \in Deciding \ {"pick"} /\ op.pc \in Deciding /\ file.whole
    BY <1>13 DEF SecretMade, Following, Deciding, Loaded
  <2> QED
    BY <1>7, <2>1, <2>3, <2>4
<1>14. ASSUME op' = None, UNCHANGED <<file, disk, unsynced>>, op.pc \in Deciding PROVE Staged'
  BY <1>14, Rested, StayRested, EndStaged
<1>15. CASE EnsureDone \/ ChangeRejected
  <2>1. op' = None /\ UNCHANGED <<file, disk>> /\ op.pc \in Deciding
    BY <1>15 DEF EnsureDone, ChangeRejected, End, Deciding
  <2>2. AtRest' \/ unsynced' = unsynced
    BY <1>15 DEF EnsureDone, End, ChangeRejected, Loaded, AtRest
  <2> QED
    BY <1>14, <2>1, <2>2, EndStaged
<1>16. CASE ChangeAccepted
  <2>1. PICK c \in Files : c = [file EXCEPT !.port = op.want]
    BY DEF TypeOK, Files, Ops
  <2>2. PICK step \in Ops : /\ step = Write(c, "restart") /\ step.pc = "write"
                            /\ step.next.whole /\ step.then = "restart"
    BY WriteType, "restart" \in Deciding \cup {"idle"} DEF Deciding
  <2>3. op' = [step EXCEPT !.old = file.port]
    BY <1>16, <2>1, <2>2 DEF ChangeAccepted
  <2>4. op'.pc = "write" /\ op'.next.whole /\ op'.then # "pick"
    BY <2>2, <2>3, NoteType
  <2> QED
    BY <1>16, <2>4, Rested, StayRested, WriteStaged DEF ChangeAccepted, Loaded, Deciding
<1>17. CASE ChangeUndone
  <2>1. PICK c \in Files : c = [file EXCEPT !.port = op.old]
    BY DEF TypeOK, Files, Ops
  <2>2. op' = Write(c, "restore") /\ "restore" \in Deciding \cup {"idle"}
    BY <1>17, <2>1 DEF ChangeUndone, Deciding
  <2>3. op'.pc = "write" /\ op'.next.whole /\ op'.then = "restore"
    BY <2>2, WriteType
  <2> QED
    BY <1>17, <2>3, Rested, StayRested, WriteStaged DEF ChangeUndone, Loaded, Deciding
<1>18. CASE ChangeDone \/ ChangeRestored \/ ChangeLost
  BY <1>14, <1>18 DEF ChangeDone, ChangeRestored, ChangeLost, Restarted, Deciding
<1>19. CASE Abort
  <2>1. op' = None /\ UNCHANGED <<file, disk>> /\ unsynced' = (unsynced \/ op.pc = "dirsync")
    BY <1>19 DEF Abort, End
  <2>2. AtRest'
    BY <2>1 DEF Staged, Synced, AtRest
  <2> QED
    BY <2>1, <2>2, EndStaged
<1>20. CASE Die \/ PowerLoss \/ EditByHand
  <2>1. op' = None
    BY <1>20 DEF Die, PowerLoss, EditByHand
  <2>2. AtRest'
    BY <1>20 DEF Die, PowerLoss, EditByHand, Staged, Synced, AtRest
  <2> QED
    BY <2>1, <2>2, EndStaged
<1>21. CASE UNCHANGED <<file, disk, op, unsynced>>
  BY <1>21 DEF Staged, Synced, AtRest, Flushed, Whole, Visible, Planless
<1>22. CASE Panel
  BY <1>21, <1>22 DEF Panel, Serve, Restarted, Create, CreateAllocated, Delete, Stop
<1>23. CASE UNCHANGED vars
  BY <1>21, <1>23 DEF vars
<1> QED
  BY <1>1, <1>2, <1>3, <1>4, <1>6, <1>8, <1>9, <1>10, <1>11, <1>12, <1>13, <1>15, <1>16,
     <1>17, <1>18, <1>19, <1>20, <1>22, <1>23
     DEF Next, WriteStep, Ensure, Change

-----------------------------------------------------------------------------
(* What was told stays true of everything that is, or may come to be, the file. *)

LEMMA DecideTold ==
    ASSUME Told, UNCHANGED <<file, disk, announced>>,
           op'.pc \in {"idle", "port", "token", "entry", "check", "validate"}
    PROVE  Told'
  BY DEF Told, Agrees, Untold, Changing, Vacant, Before, Back, Writing
LEMMA WriteTold ==
    ASSUME Told, UNCHANGED <<file, disk, announced>>,
           op'.pc = "write", op'.then \notin {"restart", "restore"},
           \A k \in Keys : op'.next[k] = file[k] \/ announced[k] \in {0, Legacy}
    PROVE  Told'
  BY DEF Told, Agrees, Untold, Changing, Vacant, Before, Back, Writing
LEMMA EndTold == ASSUME op' = None, Agrees(file)', Agrees(disk)' PROVE Told'
  BY Constants DEF Told, Untold, Changing, Vacant, Before, Back, Writing

\* Told the user a port agrees with a file that has it.
LEMMA TellAgrees ==
    ASSUME TypeOK, Agrees(file), file' = file, Tell(file.port) PROVE Agrees(file)'
  BY DEF TypeOK, Files, Agrees, Tell, Keys

LEMMA NextTold ==
    ASSUME TypeOK, Staged, Told, ~unsynced, ~unsynced', [Next]_vars PROVE Told'
<1> USE DEF Decide, Go
<1>1. CASE WriteTemp \/ SyncTemp
  <2>1. /\ op'.pc \in {"fsync", "rename"} /\ op.pc \in {"write", "fsync"}
        /\ op'.then = op.then /\ op'.next = op.next /\ op'.old = op.old
        /\ UNCHANGED <<file, disk, announced>>
    BY <1>1 DEF WriteTemp, SyncTemp, Stage, TypeOK, Ops
  <2> QED
    BY <2>1 DEF Told, Agrees, Untold, Changing, Vacant, Before, Back, Writing
<1>2. CASE Rename
  <2>1. /\ op'.pc = "dirsync" /\ op.pc = "rename" /\ file' = op.next
        /\ op'.then = op.then /\ op'.next = op.next /\ op'.old = op.old
        /\ UNCHANGED <<disk, announced>>
    BY <1>2 DEF Rename, Stage, TypeOK, Ops
  <2> QED
    BY <2>1 DEF Told, Agrees, Untold, Changing, Vacant, Before, Back, Writing
<1>3. CASE SyncDir
  <2>1. disk' = file /\ UNCHANGED <<file, announced>> /\ op.pc = "dirsync"
    BY <1>3 DEF SyncDir
  <2>2. Agrees(file)' /\ Agrees(disk)'
    BY <2>1 DEF Told, Agrees
  <2>3. CASE op.then = "idle"
    BY <1>3, <2>2, <2>3, EndTold DEF SyncDir
  <2>4. CASE op.then # "idle"
    <3>1. /\ op'.pc = op.then /\ op'.old = op.old
          /\ op.then \in Deciding \ {"pick"}
      BY <1>3, <2>4 DEF SyncDir, None, TypeOK, Ops, Staged, Planless
    <3>2. op.then = "restore" => file.port = op.old
      BY <2>1 DEF Told, Back, Writing, Staged, Visible
    <3> QED
      BY <2>1, <2>2, <3>1, <3>2
         DEF Told, Untold, Changing, Vacant, Before, Back, Writing, Deciding
  <2> QED
    BY <2>3, <2>4
<1>4. CASE BeginEnsure \/ \E p \in Ports : BeginChange(p)
  <2>1. op'.pc \in {"port", "validate"} /\ UNCHANGED <<file, disk, announced>>
    BY <1>4 DEF BeginEnsure, BeginChange, Begin, None
  <2> QED
    BY <2>1, DecideTold
<1>5. CASE BeginMigrate
  <2>1. PICK c \in Files : c = [file EXCEPT !.dated = FALSE]
    BY DEF TypeOK, Files
  <2>2. op' = [Write(c, "idle") EXCEPT !.cmd = "migrate"] /\ UNCHANGED <<file, disk, announced>>
    BY <1>5, <2>1 DEF BeginMigrate
  <2>3. PICK step \in Ops : step = Write(c, "idle") /\ step.pc = "write" /\ step.then = "idle"
    BY WriteType, "idle" \in Deciding \cup {"idle"}
  <2>4. op'.pc = "write" /\ op'.then = "idle" /\ op'.next = step.next
    BY <2>2, <2>3, NoteType
  <2>5. \A k \in Keys : c[k] = file[k]
    BY <2>1 DEF TypeOK, Files, Keys
  <2>6. \A k \in Keys : op'.next[k] = c[k]
    BY <2>3, <2>4, WriteKeys
  <2> QED
    BY <2>2, <2>4, <2>5, <2>6, WriteTold
<1>6. CASE PortKept
  BY <1>6, DecideTold DEF PortKept, TypeOK, Ops
<1>7. ASSUME NEW c \in Files, NEW then \in Deciding \ {"restart", "restore"}, Go(Write(c, then)),
             \A k \in Keys : c[k] = file[k] \/ announced[k] \in {0, Legacy}
      PROVE  Told'
  <2>1. op' = Write(c, then) /\ then \in Deciding \cup {"idle"}
    BY <1>7
  <2>2. op'.pc = "write" /\ op'.then = then
    BY <2>1, WriteType
  <2>3. \A k \in Keys : op'.next[k] = c[k]
    BY <2>1, WriteKeys
  <2> QED
    BY <1>7, <2>2, <2>3, WriteTold
<1>8. \A k \in Keys : announced[k] \in {0, Legacy, file[k]}
  BY DEF Told, Agrees
<1>9. CASE PortCleared
  <2>1. PICK c \in Files : c = [file EXCEPT !.port = 0]
    BY DEF TypeOK, Files
  <2>2. \A k \in Keys : c[k] = file[k] \/ announced[k] \in {0, Legacy}
    BY <1>8, <1>9, <2>1 DEF PortCleared, TypeOK, Files, Keys
  <2> QED
    BY <1>7, <1>9, <2>1, <2>2 DEF PortCleared, Deciding
<1>10. CASE PortWanted
  <2>1. op'.pc = "pick" /\ file.port = 0 /\ UNCHANGED <<file, disk, announced>>
    BY <1>10 DEF PortWanted, TypeOK, Ops
  <2> QED
    BY <2>1 DEF Told, Agrees, Untold, Changing, Vacant, Before, Back, Writing
<1>11. CASE PortPicked
  <2>1. PICK p \in Pickable : Go(Write([file EXCEPT !.port = p], "token"))
    BY <1>11 DEF PortPicked
  <2>2. PICK c \in Files : c = [file EXCEPT !.port = p]
    BY PortAssumption DEF Pickable, TypeOK, Files
  <2>3. file.port = 0
    BY <1>11 DEF PortPicked, Told, Vacant
  <2>4. \A k \in Keys : c[k] = file[k] \/ announced[k] \in {0, Legacy}
    BY <1>8, <2>2, <2>3 DEF TypeOK, Files, Keys
  <2> QED
    BY <1>7, <2>1, <2>2, <2>4 DEF Deciding
<1>12. ASSUME NEW k \in {"token", "entry"}, SecretKept(k) PROVE Told'
  BY <1>12, DecideTold DEF SecretKept, Following, TypeOK, Ops
<1>13. ASSUME NEW k \in {"token", "entry"}, SecretMade(k) PROVE Told'
  <2>1. PICK v \in Secrets : Go(Write([file EXCEPT ![k] = v], Following(k)))
    BY <1>13 DEF SecretMade
  <2>2. [file EXCEPT !["token"] = v] \in Files /\ [file EXCEPT !["entry"] = v] \in Files
    BY DEF TypeOK, Files
  <2>3. PICK c \in Files : c = [file EXCEPT ![k] = v]
    BY <2>2
  <2>4. \A j \in Keys : j # k => c[j] = file[j]
    BY <2>3 DEF TypeOK, Files, Keys
  <2>5. announced[k] \in {0, Legacy}
    BY <1>8, <1>13 DEF SecretMade, Keys
  <2>6. Following(k) \in Deciding \ {"restart", "restore"}
    BY DEF Following, Deciding
  <2> QED
    BY <1>7, <2>1, <2>3, <2>4, <2>5, <2>6
<1>14. ASSUME op.pc # "dirsync" PROVE disk = file
  BY <1>14 DEF Staged, Synced, AtRest
<1>15. ASSUME op' = None, UNCHANGED <<file, disk>>, Agrees(file)', op.pc # "dirsync" PROVE Told'
  <2>1. Agrees(disk)'
    BY <1>14, <1>15 DEF Agrees
  <2> QED
    BY <1>15, <2>1, EndTold
<1>16. announced' = announced /\ file' = file => Agrees(file)'
  BY DEF Told, Agrees
<1>17. CASE EnsureDone
  <2>1. Agrees(file)'
    BY <1>17 DEF EnsureDone, End, Agrees
  <2> QED
    BY <1>15, <1>17, <2>1 DEF EnsureDone, End
<1>18. CASE ChangeRejected
  BY <1>15, <1>16, <1>18 DEF ChangeRejected, End
<1>19. CASE ChangeAccepted
  <2>1. PICK c \in Files : c = [file EXCEPT !.port = op.want]
    BY DEF TypeOK, Files, Ops
  <2>2. PICK step \in Ops : step = Write(c, "restart") /\ step.pc = "write" /\ step.then = "restart"
    BY WriteType, "restart" \in Deciding \cup {"idle"} DEF Deciding
  <2>3. op' = [step EXCEPT !.old = file.port] /\ UNCHANGED <<file, disk>>
    BY <1>19, <2>1, <2>2 DEF ChangeAccepted
  <2>4. op'.pc = "write" /\ op'.then = "restart" /\ op'.next = step.next /\ op'.old = file.port
    BY <2>2, <2>3, NoteType
  <2>5. announced'["port"] = 0 /\ \A k \in Keys \ {"port"} : announced'[k] = announced[k]
    BY <1>19 DEF ChangeAccepted, Tell, TypeOK, Keys
  <2>6. disk = file
    BY <1>14, <1>19 DEF ChangeAccepted
  <2>7. \A k \in Keys \ {"port"} : c[k] = file[k]
    BY <2>1 DEF TypeOK, Files, Keys
  <2>8. \A k \in Keys : op'.next[k] = c[k]
    BY <2>2, <2>4, WriteKeys
  <2>9. Agrees(file)' /\ Agrees(disk)' /\ Agrees(op.next)'
    BY <1>8, <2>3, <2>5, <2>6, <2>7, <2>8 DEF Agrees
  <2> QED
    BY <2>3, <2>4, <2>5, <2>9 DEF Told, Untold, Changing, Vacant, Before, Back, Writing
<1>20. CASE ChangeUndone
  <2>1. PICK c \in Files : c = [file EXCEPT !.port = op.old]
    BY DEF TypeOK, Files, Ops
  <2>2. op' = Write(c, "restore") /\ "restore" \in Deciding \cup {"idle"}
    BY <1>20, <2>1 DEF ChangeUndone, Deciding
  <2>3. /\ op'.pc = "write" /\ op'.then = "restore" /\ op'.old = op.old
        /\ op'.next = [c EXCEPT !.whole = TRUE]
    BY <2>2, WriteType
  <2>4. op'.next.port = op.old
    BY <2>1, <2>3 DEF TypeOK, Files, Ops
  <2>5. announced["port"] = 0
    BY <1>20 DEF ChangeUndone, Told, Untold, Changing
  <2>6. UNCHANGED <<file, disk, announced>> /\ disk = file
    BY <1>14, <1>20 DEF ChangeUndone
  <2>7. \A k \in Keys \ {"port"} : c[k] = file[k]
    BY <2>1 DEF TypeOK, Files, Ops, Keys
  <2>8. \A k \in Keys : op'.next[k] = c[k]
    BY <2>2, WriteKeys
  <2>9. Agrees(file)' /\ Agrees(disk)' /\ Agrees(op.next)'
    BY <1>8, <2>5, <2>6, <2>7, <2>8 DEF Agrees
  <2> QED
    BY <2>1, <2>3, <2>4, <2>5, <2>6, <2>9 DEF Told, Untold, Changing, Vacant, Before, Back, Writing
<1>21. CASE ChangeDone
  <2>1. Agrees(file)'
    BY <1>21, TellAgrees DEF ChangeDone, Restarted, Told
  <2> QED
    BY <1>15, <1>21, <2>1 DEF ChangeDone, Restarted
<1>22. CASE ChangeRestored
  <2>1. op.old = file.port
    BY <1>22 DEF ChangeRestored, Told, Back
  <2>2. Agrees(file)'
    BY <1>22, <2>1, TellAgrees DEF ChangeRestored, Restarted, Told
  <2> QED
    BY <1>15, <1>22, <2>2 DEF ChangeRestored, Restarted
<1>23. CASE ChangeLost
  BY <1>15, <1>16, <1>23 DEF ChangeLost
<1>24. CASE Abort
  <2>1. op.pc # "dirsync" /\ op.pc \in Writing \cup Deciding /\ op' = None /\ UNCHANGED <<file, disk>>
    BY <1>24 DEF Abort, Unable, Fails, End, Deciding
  <2>2. Agrees(file)'
    <3>1. CASE op.then = "restart"
      <4>1. op.old = file.port
        BY <2>1, <3>1 DEF Staged, Planless, Told, Before, Deciding
      <4> QED
        BY <1>24, <2>1, <3>1, <4>1, TellAgrees DEF Abort, Refuse, Told
    <3>2. CASE op.then # "restart"
      BY <1>16, <1>24, <2>1, <3>2 DEF Abort, Refuse
    <3> QED
      BY <3>1, <3>2
  <2> QED
    BY <1>15, <2>1, <2>2
<1>25. CASE Die
  <2>1. Agrees(file)' /\ Agrees(disk)'
    BY <1>25 DEF Die, Told, Agrees
  <2> QED
    BY <1>25, <2>1, EndTold DEF Die
<1>26. CASE PowerLoss
  <2>1. file' \in {disk, file} /\ disk' = file' /\ UNCHANGED announced
    BY <1>26 DEF PowerLoss, AfterPowerLoss, Staged, Flushed
  <2>2. Agrees(file)' /\ Agrees(disk)'
    BY <2>1 DEF Told, Agrees
  <2> QED
    BY <1>26, <2>2, EndTold DEF PowerLoss
<1>27. CASE EditByHand
  <2>1. op' = None /\ Agrees(file)' /\ Agrees(disk)'
    BY <1>27 DEF EditByHand, Agrees
  <2> QED
    BY <2>1, EndTold
<1>28. CASE UNCHANGED <<file, disk, op, announced>>
  BY <1>28 DEF Told, Agrees, Untold, Changing, Vacant, Before, Back
<1>29. CASE Panel
  BY <1>28, <1>29 DEF Panel, Serve, Restarted, Create, CreateAllocated, Delete, Stop
<1>30. CASE UNCHANGED vars
  BY <1>28, <1>30 DEF vars
<1> QED
  BY <1>1, <1>2, <1>3, <1>4, <1>5, <1>6, <1>9, <1>10, <1>11, <1>12, <1>13, <1>17, <1>18,
     <1>19, <1>20, <1>21, <1>22, <1>23, <1>24, <1>25, <1>26, <1>27, <1>29, <1>30
     DEF Next, WriteStep, Ensure, Change

LEMMA NextTelling == TypeOK /\ Staged /\ Telling /\ [Next]_vars => Telling'
<1> SUFFICES ASSUME TypeOK, Staged, Telling, [Next]_vars, ~unsynced' PROVE Told'
  BY DEF Telling
<1>1. CASE ~unsynced
  BY <1>1, NextTold DEF Telling
<1>2. CASE unsynced
  <2>1. EnsureDone \/ EditByHand
    BY <1>2 DEF Next, WriteStep, WriteTemp, SyncTemp, Rename, SyncDir, Ensure, BeginEnsure, Begin, PortKept,
       PortCleared, PortWanted, PortPicked, SecretKept, SecretMade, Go, Change,
       BeginChange, ChangeAccepted, ChangeRejected, ChangeDone, ChangeUndone, ChangeRestored,
       ChangeLost, Restarted, BeginMigrate, Abort, Panel, Serve, Create, CreateAllocated, Delete,
       Stop, Die, PowerLoss, vars
  <2>2. op' = None /\ Agrees(file)' /\ Agrees(disk)'
    BY <2>1 DEF EnsureDone, End, EditByHand, Agrees
  <2> QED
    BY <2>2, EndTold
<1> QED
  BY <1>1, <1>2

-----------------------------------------------------------------------------
(* Rules on a port that is, or may become, the panel's.                     *)

\* A step that leaves files, panel and rules, and one that ends a command.
LEMMA DecideApart ==
    ASSUME Apart, UNCHANGED <<file, disk, panel, rules, unguarded>>,
           op'.pc \notin Writing \cup {"pick"}, op'.old = op.old
    PROVE  Apart'
  BY DEF Apart, Claimed
LEMMA WriteApart ==
    ASSUME Apart, UNCHANGED <<file, disk, rules, unguarded>>, panel' \in {0, panel, file.port},
           0 \notin rules, op'.pc = "write", op'.old \in {op.old, file.port},
           op'.next.port \in rules => op'.next.port \in unguarded
    PROVE  Apart'
  BY DEF Apart, Claimed
LEMMA EndApart ==
    ASSUME op' = None, UNCHANGED <<rules, unguarded>>, 0 \notin rules,
           {panel', file'.port, disk'.port} \cap rules \subseteq unguarded
    PROVE  Apart'
  BY Constants DEF Apart, Claimed, Writing

LEMMA NextApart == TypeOK /\ Staged /\ Apart /\ [Next]_vars => Apart'
<1> SUFFICES ASSUME TypeOK, Staged, Apart, [Next]_vars PROVE Apart'
  OBVIOUS
<1> USE DEF Decide, Go
<1>0. 0 \notin rules
  BY PortAssumption DEF TypeOK
<1>1. CASE WriteTemp \/ SyncTemp
  <2>1. /\ op'.pc \in {"fsync", "rename"} /\ op.pc \in Writing
        /\ op'.next = op.next /\ op'.old = op.old /\ UNCHANGED <<file, disk, panel, rules, unguarded>>
    BY <1>1 DEF WriteTemp, SyncTemp, Stage, TypeOK, Ops, Writing
  <2> QED
    BY <2>1 DEF Apart, Claimed, Writing
<1>2. CASE Rename
  <2>1. /\ op'.pc = "dirsync" /\ op.pc \in Writing /\ file' = op.next
        /\ op'.next = op.next /\ op'.old = op.old /\ UNCHANGED <<disk, panel, rules, unguarded>>
    BY <1>2 DEF Rename, Stage, TypeOK, Ops, Writing
  <2> QED
    BY <2>1 DEF Apart, Claimed, Writing
<1>3. CASE SyncDir
  <2>1. disk' = file /\ UNCHANGED <<file, panel, rules, unguarded>>
    BY <1>3 DEF SyncDir
  <2>2. CASE op.then = "idle"
    <3>1. op' = None
      BY <1>3, <2>2 DEF SyncDir
    <3> QED
      BY <1>0, <2>1, <3>1, EndApart DEF Apart, Claimed
  <2>3. CASE op.then # "idle"
    <3>1. op'.pc = op.then /\ op'.old = op.old /\ op.then \in Deciding \ {"pick"}
      BY <1>3, <2>3 DEF SyncDir, None, TypeOK, Ops, Staged, Planless
    <3> QED
      BY <2>1, <3>1 DEF Apart, Claimed, Deciding, Writing
  <2> QED
    BY <2>2, <2>3
<1>4. CASE BeginEnsure \/ \E p \in Ports : BeginChange(p)
  <2>1. op'.pc \in {"port", "validate"} /\ op'.old = op.old /\ UNCHANGED <<file, disk, panel, rules, unguarded>>
    BY <1>4, Constants DEF BeginEnsure, BeginChange, Begin, None
  <2> QED
    BY <2>1, DecideApart DEF Writing
<1>5. {file.port, disk.port, op.old, panel} \cap rules \subseteq unguarded
  BY DEF Apart, Claimed
<1>6. CASE BeginMigrate
  <2>1. PICK c \in Files : c = [file EXCEPT !.dated = FALSE]
    BY DEF TypeOK, Files
  <2>2. op' = [Write(c, "idle") EXCEPT !.cmd = "migrate"] /\ UNCHANGED <<file, disk, panel, rules, unguarded>>
    BY <1>6, <2>1 DEF BeginMigrate
  <2>3. PICK step \in Ops : /\ step = Write(c, "idle") /\ step.pc = "write" /\ step.old = op.old
                            /\ step.next = [c EXCEPT !.whole = TRUE]
    BY WriteType, "idle" \in Deciding \cup {"idle"}
  <2>4. op'.pc = "write" /\ op'.old = op.old /\ op'.next = [c EXCEPT !.whole = TRUE]
    BY <2>2, <2>3, NoteType
  <2>5. op'.next.port = file.port
    BY <2>1, <2>4 DEF TypeOK, Files
  <2> QED
    BY <1>0, <1>5, <2>2, <2>4, <2>5, WriteApart
<1>7. CASE PortKept
  <2>1. op'.pc = "token" /\ op'.old = op.old
    BY <1>7 DEF PortKept, TypeOK, Ops
  <2> QED
    BY <1>7, <2>1, DecideApart DEF PortKept, Writing
<1>8. ASSUME NEW c \in Files, NEW then \in Deciding, op' = Write(c, then),
             c.port \in rules => c.port \in unguarded,
             UNCHANGED <<file, disk, rules, unguarded>>, panel' \in {0, panel, file.port}
      PROVE  Apart'
  <2>1. op'.pc = "write" /\ op'.old = op.old /\ op'.next = [c EXCEPT !.whole = TRUE]
    BY <1>8, WriteType
  <2>2. op'.next.port = c.port
    BY <2>1 DEF Files
  <2> QED
    BY <1>0, <1>8, <2>1, <2>2, WriteApart
<1>9. CASE PortCleared
  <2>1. PICK c \in Files : c = [file EXCEPT !.port = 0]
    BY DEF TypeOK, Files
  <2>2. c.port = 0
    BY <2>1 DEF TypeOK, Files
  <2> QED
    BY <1>0, <1>8, <1>9, <2>1, <2>2 DEF PortCleared, Deciding
<1>10. CASE PortWanted
  <2>1. op'.pc = "pick" /\ op'.old = op.old /\ op'.taken = Reserved /\ UNCHANGED <<file, disk, panel, rules, unguarded>>
    BY <1>10 DEF PortWanted, TypeOK, Ops
  <2>2. rules \subseteq Reserved
    BY DEF Reserved
  <2> QED
    BY <2>1, <2>2 DEF Apart, Claimed, Writing
<1>11. CASE PortPicked
  <2>1. PICK p \in Pickable : Go(Write([file EXCEPT !.port = p], "token"))
    BY <1>11 DEF PortPicked
  <2>2. PICK c \in Files : c = [file EXCEPT !.port = p]
    BY PortAssumption DEF Pickable, TypeOK, Files
  <2>3. c.port = p
    BY <2>2 DEF TypeOK, Files
  <2>4. p \in rules => p \in unguarded
    BY <1>11 DEF PortPicked, Pickable, Apart, Claimed
  <2> QED
    BY <1>8, <2>1, <2>2, <2>3, <2>4 DEF Deciding
<1>12. ASSUME NEW k \in {"token", "entry"}, SecretKept(k) PROVE Apart'
  <2>1. op'.pc \in {"entry", "check"} /\ op'.old = op.old
    BY <1>12 DEF SecretKept, Following, TypeOK, Ops
  <2> QED
    BY <1>12, <2>1, DecideApart DEF SecretKept, Writing
<1>13. ASSUME NEW k \in {"token", "entry"}, SecretMade(k) PROVE Apart'
  <2>1. PICK v \in Secrets : Go(Write([file EXCEPT ![k] = v], Following(k)))
    BY <1>13 DEF SecretMade
  <2>2. [file EXCEPT !["token"] = v] \in Files /\ [file EXCEPT !["entry"] = v] \in Files
    BY DEF TypeOK, Files
  <2>3. PICK c \in Files : c = [file EXCEPT ![k] = v]
    BY <2>2
  <2>4. c.port = file.port
    BY <2>3 DEF TypeOK, Files
  <2>5. Following(k) \in Deciding
    BY DEF Following, Deciding
  <2> QED
    BY <1>5, <1>8, <2>1, <2>3, <2>4, <2>5
<1>14. ASSUME op' = None, UNCHANGED <<file, disk, rules, unguarded>>, panel' \in {0, panel, file.port}
       PROVE  Apart'
  BY <1>0, <1>5, <1>14, EndApart
<1>15. CASE EnsureDone \/ ChangeRejected \/ Abort \/ ChangeDone \/ ChangeRestored \/ ChangeLost
  BY <1>14, <1>15 DEF EnsureDone, ChangeRejected, Abort, End, ChangeDone, ChangeRestored, ChangeLost,
     Unhealthy, Restarted
<1>16. CASE ChangeAccepted
  <2>1. PICK c \in Files : c = [file EXCEPT !.port = op.want]
    BY DEF TypeOK, Files, Ops
  <2>2. PICK step \in Ops : /\ step = Write(c, "restart") /\ step.pc = "write"
                            /\ step.next = [c EXCEPT !.whole = TRUE]
    BY WriteType, "restart" \in Deciding \cup {"idle"} DEF Deciding
  <2>3. op' = [step EXCEPT !.old = file.port] /\ UNCHANGED <<file, disk, panel, rules, unguarded>>
    BY <1>16, <2>1, <2>2 DEF ChangeAccepted
  <2>4. op'.pc = "write" /\ op'.old = file.port /\ op'.next = [c EXCEPT !.whole = TRUE]
    BY <2>2, <2>3, NoteType
  <2>5. op'.next.port = op.want
    BY <2>1, <2>4 DEF TypeOK, Files, Ops
  <2>6. op.want \notin rules
    BY <1>16 DEF ChangeAccepted, Acceptable, Reserved
  <2> QED
    BY <1>0, <2>3, <2>4, <2>5, <2>6, WriteApart
<1>17. CASE ChangeUndone
  <2>1. PICK c \in Files : c = [file EXCEPT !.port = op.old]
    BY DEF TypeOK, Files, Ops
  <2>2. c.port = op.old
    BY <2>1 DEF TypeOK, Files, Ops
  <2>3. op' = Write(c, "restore") /\ panel' \in {0, panel, file.port} /\ UNCHANGED <<file, disk, rules, unguarded>>
    BY <1>17, <2>1 DEF ChangeUndone, Unhealthy
  <2> QED
    BY <1>5, <1>8, <2>2, <2>3 DEF Deciding
<1>18. CASE Serve \/ Stop
  <2>1. UNCHANGED <<file, disk, op, rules, unguarded>> /\ panel' \in {0, file.port}
    BY <1>18 DEF Serve, Restarted, Stop
  <2> QED
    BY <1>0, <1>5, <2>1 DEF Apart, Claimed
<1>19. ASSUME NEW p \in Ports \ {panel}, Listen(p), UNCHANGED <<file, disk, op, panel>> PROVE Apart'
  <2>1. UNCHANGED Claimed
    BY <1>19 DEF Claimed
  <2> QED
    BY <1>19, <2>1 DEF Listen, Apart
<1>20. panel # 0 => panel \in Guards
  BY GuardType DEF Guards, TypeOK
<1>21. CASE Create \/ CreateAllocated
  <2>1. PICK p \in Ports \ Guards : Listen(p)
    BY <1>21, PortAssumption DEF Create, CreateAllocated, Allocatable, Guards
  <2> QED
    BY <1>19, <1>20, <1>21, <2>1 DEF Create, CreateAllocated
<1>22. CASE Delete
  <2>1. UNCHANGED <<Claimed, panel>>
    BY <1>22 DEF Delete, Claimed
  <2> QED
    BY <1>22, <2>1 DEF Delete, Apart
<1>23. CASE Die
  <2>1. op' = None /\ disk' \in {disk, file} /\ UNCHANGED <<file, panel, rules, unguarded>>
    BY <1>23 DEF Die
  <2> QED
    BY <1>0, <1>5, <2>1, EndApart
<1>24. CASE PowerLoss
  <2>1. /\ file' \in {disk, file} /\ disk' = file' /\ panel' = 0 /\ op' = None
        /\ UNCHANGED <<rules, unguarded>>
    BY <1>24 DEF PowerLoss, AfterPowerLoss, Staged, Flushed
  <2> QED
    BY <1>0, <1>5, <2>1, EndApart
<1>25. CASE EditByHand
  <2>1. file'.port = 0 /\ disk'.port = 0 /\ op' = None /\ UNCHANGED <<panel, rules, unguarded>>
    BY <1>25, Constants DEF EditByHand
  <2> QED
    BY <1>0, <1>5, <2>1, EndApart
<1>26. CASE UNCHANGED vars
  BY <1>26 DEF vars, Apart, Claimed
<1> QED
  BY <1>1, <1>2, <1>3, <1>4, <1>6, <1>7, <1>9, <1>10, <1>11, <1>12, <1>13, <1>15, <1>16,
     <1>17, <1>18, <1>21, <1>22, <1>23, <1>24, <1>25, <1>26
     DEF Next, WriteStep, Ensure, Change, Panel

-----------------------------------------------------------------------------
LEMMA InitInv == Init => IInv
<1> SUFFICES ASSUME Init PROVE IInv
  OBVIOUS
<1>1. /\ op = None /\ disk = file /\ panel = 0 /\ ~unsynced /\ \A k \in Keys : announced[k] = 0
      /\ file.port \in {0, Legacy} /\ rules \subseteq Ports \ {Legacy}
  BY Constants DEF Init, Empty
<1>2. Staged
  BY <1>1, Constants DEF Staged, Synced, AtRest, Flushed, Whole, Visible, Planless, Writing
<1>3. Telling
  BY <1>1, Constants DEF Telling, Told, Agrees, Untold, Changing, Vacant, Before, Back, Writing
<1>4. Apart
  BY <1>1, Constants, PortAssumption DEF Apart, Claimed, Writing
<1> QED
  BY <1>2, <1>3, <1>4, InitType DEF IInv

LEMMA NextInv == IInv /\ [Next]_vars => IInv'
  BY NextType, NextStaged, NextTelling, NextApart DEF IInv

THEOREM Invariance == Spec => []IInv
  BY InitInv, NextInv, PTL DEF Spec

\* Files, commands, ports and what was told keep their types.
THEOREM TypeCorrect == Spec => []TypeOK
<1>1. IInv => TypeOK
  BY DEF IInv
<1> QED
  BY <1>1, Invariance, PTL

\* A port that a command has announced, a token or a path that it has, is in
\* panel.json until the user asks for another port, through failures, deaths and
\* losses of power at any stage of a write but one: after a rename whose directory
\* could not be flushed, only once he has been told again what is on disk.
THEOREM Announced == Spec => []AnnouncedKept
<1>1. IInv => AnnouncedKept
  BY DEF IInv, Telling, Told, Agrees, AnnouncedKept, AnnouncedStays
<1> QED
  BY <1>1, Invariance, PTL

\* A rule that has the panel's port, or that of its next start, was written when
\* the port was already in the file, on disk, or in a command's hands, and the
\* running panel did not guard it.  Rules may be written at any time.
THEOREM PanelApart == Spec => []OnlyUnguardedCollide
<1>1. IInv => OnlyUnguardedCollide
  BY DEF IInv, Apart, Claimed, OnlyUnguardedCollide
<1> QED
  BY <1>1, Invariance, PTL

\* No command writes over a panel.json that it cannot read.
THEOREM NeverOverwritten == Spec => DamagedKept
<1>1. ASSUME IInv, [Next]_vars PROVE ~file.whole /\ op # None => file' = file
  <2> SUFFICES ASSUME ~file.whole, op # None PROVE file' = file
    OBVIOUS
  <2>1. op.pc \notin Writing
    BY <1>1 DEF IInv, Staged, Whole
  <2>2. disk = file
    BY <1>1 DEF IInv, Staged, Synced
  <2>3. file' = file \/ Rename \/ PowerLoss \/ EditByHand
    BY <1>1 DEF Next, WriteStep, WriteTemp, SyncTemp, SyncDir, Ensure, BeginEnsure, Begin, PortKept,
       PortCleared, PortWanted, PortPicked, SecretKept, SecretMade, Go, EnsureDone, End, Change,
       BeginChange, ChangeAccepted, ChangeRejected, ChangeDone, ChangeUndone, ChangeRestored,
       ChangeLost, Restarted, BeginMigrate, Abort, Panel, Serve, Create, CreateAllocated, Delete,
       Stop, Die, vars
  <2>4. ~Rename
    BY <2>1 DEF Rename, Writing
  <2>5. PowerLoss => file' = file
    BY <2>1, <2>2 DEF PowerLoss, AfterPowerLoss, Writing
  <2>6. ~EditByHand
    BY DEF EditByHand
  <2> QED
    BY <2>3, <2>4, <2>5, <2>6
<1>2. IInv /\ [Next]_vars => [~file.whole /\ op # None => file' = file]_vars
  BY <1>1
<1> QED
  BY <1>2, Invariance, PTL DEF Spec, DamagedKept
=============================================================================
