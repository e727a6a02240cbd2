--------------------------- MODULE DailyBaseline ---------------------------
(* The equity baseline of the UTC day (live_risk.py) and its transfer       *)
(* through a backup (daily_risk_recovery.py).  Executors and operator tools *)
(* share the state file; each holds a non-blocking lock on a sidecar while  *)
(* it reads, replaces or publishes the file, and has read its clock, and    *)
(* its equity, before.  The clock is kept to the day.                       *)
EXTENDS Integers

CONSTANTS
    Procs,         \* executors and tools
    Equities,      \* equities the exchange may report
    MaximumLoss,   \* the daily limit
    MaxDay,        \* bound: days
    MaxLosses,     \* bound: losses of the state file
    None

State == [day : Nat, start : Nat]

ASSUME DailyAssumption ==
    /\ Equities \subseteq Nat /\ MaximumLoss \in Nat \ {0}
    /\ MaxDay \in Nat /\ MaxLosses \in Nat
ASSUME NoneAssumption == None \notin Procs \cup State

VARIABLES
    today,      \* the wall clock
    file,       \* the state file
    lock,       \* who holds the lock on its sidecar
    backups,    \* the states in published backups
    proc,       \* per process: step, job, what it read
    baselines,  \* history: the states the file has had
    admitted,   \* history: the evaluations that admitted an entry
    losses

vars == <<today, file, lock, backups, proc, baselines, admitted, losses>>

Idle == [pc |-> "idle", job |-> "none", equity |-> 0, day |-> 0, seen |-> None]

\* The first baseline is reviewed and provisioned by hand.
Init ==
    /\ today = 1
    /\ \E e \in Equities : file = [day |-> 1, start |-> e]
    /\ baselines = {file}
    /\ lock = None /\ backups = {} /\ admitted = {} /\ losses = 0
    /\ proc = [p \in Procs |-> Idle]

At(p, step) == proc[p].pc = step

-----------------------------------------------------------------------------
(* Every job reads its inputs and its clock, then takes the lock *)

\* The account is read first, the clock after it.
Observe(p) ==
    /\ At(p, "idle")
    /\ \E e \in Equities :
         proc' = [proc EXCEPT ![p].pc = "clock", ![p].job = "evaluate", ![p].equity = e]
    /\ UNCHANGED <<today, file, lock, backups, baselines, admitted, losses>>

ReadClock(p) ==
    /\ At(p, "clock")
    /\ proc' = [proc EXCEPT ![p].pc = "lock", ![p].day = today]
    /\ UNCHANGED <<today, file, lock, backups, baselines, admitted, losses>>

StartBackup(p) ==
    /\ At(p, "idle")
    /\ proc' = [proc EXCEPT ![p].pc = "lock", ![p].job = "backup", ![p].day = today]
    /\ UNCHANGED <<today, file, lock, backups, baselines, admitted, losses>>

SameDay(b, day) == b.day = day

\* The bundle is read and checked against the clock of the call, without the lock.
StartRestore(p) ==
    /\ At(p, "idle")
    /\ \E b \in backups :
         /\ SameDay(b, today)
         /\ proc' = [proc EXCEPT ![p].pc = "lock", ![p].job = "restore",
                                 ![p].day = today, ![p].seen = b]
    /\ UNCHANGED <<today, file, lock, backups, baselines, admitted, losses>>

\* mutant: the holder of the lock is not asked
NoLock(p) == TRUE

Unlocked(p) == lock = None

TakeLock(p) ==
    /\ At(p, "lock") /\ Unlocked(p)
    /\ lock' = p
    /\ proc' = [proc EXCEPT ![p].pc = proc[p].job]
    /\ UNCHANGED <<today, file, backups, baselines, admitted, losses>>

-----------------------------------------------------------------------------
(* daily_equity_blockers *)

\* A state of a later day, like a missing one, is refused.
Load(p) ==
    /\ At(p, "evaluate") /\ file # None /\ file.day <= proc[p].day
    /\ proc' = [proc EXCEPT ![p].seen = file,
                  ![p].pc = IF file.day < proc[p].day THEN "roll" ELSE "judge"]
    /\ UNCHANGED <<today, file, lock, backups, baselines, admitted, losses>>

\* os.replace puts the first equity of the new day in place.
Roll(p) ==
    LET new == [day |-> proc[p].day, start |-> proc[p].equity] IN
    /\ At(p, "roll")
    /\ file' = new /\ baselines' = baselines \cup {new}
    /\ proc' = [proc EXCEPT ![p].seen = new, ![p].pc = "judge"]
    /\ UNCHANGED <<today, lock, backups, admitted, losses>>

\* mutant: the limit itself is still allowed
LossAtLimit(start, value) == start - value > MaximumLoss

LossReached(start, value) == start - value >= MaximumLoss

Judge(p) ==
    /\ At(p, "judge")
    /\ admitted' = IF LossReached(proc[p].seen.start, proc[p].equity) THEN admitted
                   ELSE admitted \cup {[day |-> proc[p].day, equity |-> proc[p].equity]}
    /\ lock' = None
    /\ proc' = [proc EXCEPT ![p] = Idle]
    /\ UNCHANGED <<today, file, backups, baselines, losses>>

-----------------------------------------------------------------------------
(* create_daily_backup and restore_daily_backup *)

Backup(p) ==
    /\ At(p, "backup") /\ file # None /\ SameDay(file, proc[p].day)
    /\ backups' = backups \cup {file}
    /\ lock' = None
    /\ proc' = [proc EXCEPT ![p] = Idle]
    /\ UNCHANGED <<today, file, baselines, admitted, losses>>

\* mutant: the restored state takes the place of an existing one
Overwrites(p) == TRUE

\* os.link fails when the state exists.
Vacant(p) == file = None

Restore(p) ==
    /\ At(p, "restore") /\ Vacant(p)
    /\ file' = proc[p].seen /\ baselines' = baselines \cup {proc[p].seen}
    /\ lock' = None
    /\ proc' = [proc EXCEPT ![p] = Idle]
    /\ UNCHANGED <<today, backups, admitted, losses>>

Released(p) == IF lock = p THEN None ELSE lock

\* A refusal, an exception or a kill.
End(p) ==
    /\ ~At(p, "idle")
    /\ lock' = Released(p)
    /\ proc' = [proc EXCEPT ![p] = Idle]
    /\ UNCHANGED <<today, file, backups, baselines, admitted, losses>>

-----------------------------------------------------------------------------

Midnight ==
    /\ today < MaxDay /\ today' = today + 1
    /\ UNCHANGED <<file, lock, backups, proc, baselines, admitted, losses>>

\* The state is lost, but not while it is being restored.
LoseFile ==
    /\ losses < MaxLosses /\ losses' = losses + 1
    /\ file # None /\ file' = None
    /\ \A p \in Procs : proc[p].job # "restore"
    /\ UNCHANGED <<today, lock, backups, proc, baselines, admitted>>

Next ==
    \/ Midnight \/ LoseFile
    \/ \E p \in Procs :
         \/ Observe(p) \/ ReadClock(p) \/ StartBackup(p) \/ StartRestore(p) \/ TakeLock(p)
         \/ Load(p) \/ Roll(p) \/ Judge(p) \/ Backup(p) \/ Restore(p) \/ End(p)

Spec == Init /\ [][Next]_vars

-----------------------------------------------------------------------------
(* Properties *)

Locked == {"evaluate", "roll", "judge", "backup", "restore"}

Processes == [pc : {"idle", "clock", "lock"} \cup Locked,
              job : {"evaluate", "backup", "restore", "none"},
              equity : Nat, day : Nat, seen : State \cup {None}]

\* Types, and the lock belongs to the process that works on the file.
TypeOK ==
    /\ today \in Nat /\ losses \in Nat
    /\ file \in State \cup {None} /\ lock \in Procs \cup {None}
    /\ backups \subseteq State /\ baselines \subseteq State
    /\ admitted \subseteq [day : Nat, equity : Nat]
    /\ proc \in [Procs -> Processes]
    /\ \A p \in Procs : lock = p <=> proc[p].pc \in Locked

\* A UTC day has one baseline: two executors around midnight, a kill, a lost
\* file and its restoration from a backup never give the day another one.
OneBaselinePerDay == \A b, c \in baselines : b.day = c.day => b = c

\* Every admitted entry is within the limit of whatever baseline its day ever
\* had, also of one that was written before the file was lost.
LossLimitHolds ==
    \A v \in admitted, b \in baselines : v.day = b.day => b.start - v.equity < MaximumLoss

\* The baseline in force moves forward in time, across losses and restorations.
\* A file lost while a restore is between its clock reading and its link is left
\* out (LoseFile): the older day's baseline could then replace a newer one
\* (daily_risk_recovery.py:104, 126).
BaselineMovesForward ==
    [][ file' # None /\ file' # file => \A b \in baselines : b.day <= file'.day ]_vars
=============================================================================
