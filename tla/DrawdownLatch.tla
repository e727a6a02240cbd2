--------------------------- MODULE DrawdownLatch ---------------------------
(* The observed peak of the portfolio and its breach latch                  *)
(* (portfolio_drawdown.py).  Several processes evaluate it, each with an    *)
(* equity and a clock it read earlier; the state file is read and replaced  *)
(* under a non-blocking lock on a sidecar.  Equity in whole units, the      *)
(* threshold in percent.                                                    *)
EXTENDS Integers, Sequences

CONSTANTS
    Procs,            \* processes that evaluate the guard
    Equities,         \* equities the exchange may report
    MaximumDrawdown,  \* percent: the code admits more than 0 and at most 10
    MaxTime,          \* bound: clock
    MaxMarks,         \* bound: observations recorded
    None

State == [peak : Nat \ {0}, last : Nat, stamp : Nat, latched : BOOLEAN]

ASSUME DrawdownAssumption ==
    /\ Equities \subseteq Nat /\ MaximumDrawdown \in 1..10
    /\ MaxTime \in Nat /\ MaxMarks \in Nat
ASSUME NoneAssumption == None \notin Procs \cup State

VARIABLES
    now,      \* the wall clock
    file,     \* the state file
    lock,     \* who holds the lock on its sidecar
    proc,     \* per process: step, equity and time read, state read
    marks     \* history: the observations recorded, in the order of the writes

vars == <<now, file, lock, proc, marks>>

Idle == [pc |-> "idle", equity |-> 0, time |-> 0, seen |-> None]

\* A reviewed state is provisioned by hand.
Init ==
    /\ now = 1
    /\ \E e \in Equities \ {0} :
         /\ file = [peak |-> e, last |-> e, stamp |-> 0, latched |-> FALSE]
         /\ marks = <<[equity |-> e, time |-> 0, latched |-> FALSE]>>
    /\ lock = None
    /\ proc = [p \in Procs |-> Idle]

At(p, step) == proc[p].pc = step

\* A relative decline from the peak, as a product.
Breach(peak, value) == (peak - value) * 100 >= MaximumDrawdown * peak

-----------------------------------------------------------------------------

\* The account is read first, whatever it holds by then, and the clock after it.
Observe(p) ==
    /\ At(p, "idle")
    /\ \E e \in Equities :
         proc' = [proc EXCEPT ![p].pc = "clock", ![p].equity = e]
    /\ UNCHANGED <<now, file, lock, marks>>

ReadClock(p) ==
    /\ At(p, "clock")
    /\ proc' = [proc EXCEPT ![p].pc = "lock", ![p].time = now]
    /\ UNCHANGED <<now, file, lock, marks>>

\* mutant: evaluations do not exclude each other
NoLock(p) == TRUE

Unlocked(p) == lock = None

TakeLock(p) ==
    /\ At(p, "lock") /\ file # None /\ Unlocked(p)
    /\ lock' = p
    /\ proc' = [proc EXCEPT ![p].pc = "load"]
    /\ UNCHANGED <<now, file, marks>>

\* mutant: the time of the last observation is not compared
AnyTime(s, time) == Breach(s.peak, s.last) => s.latched

\* A state from the future, or a breach without its latch, is refused.
Valid(s, time) == s.stamp <= time /\ (Breach(s.peak, s.last) => s.latched)

Load(p) ==
    /\ At(p, "load") /\ file # None /\ Valid(file, proc[p].time)
    /\ proc' = [proc EXCEPT ![p].pc = "store", ![p].seen = file]
    /\ UNCHANGED <<now, file, lock, marks>>

\* The peak only rises, the latch is only set.
Updated(s, value, time) ==
    LET peak == IF value > s.peak THEN value ELSE s.peak IN
    [peak |-> peak, last |-> value, stamp |-> time,
     latched |-> s.latched \/ Breach(peak, value)]

\* os.replace puts the new state in place; the verdict is its latch.
Store(p) ==
    LET new == Updated(proc[p].seen, proc[p].equity, proc[p].time) IN
    /\ At(p, "store") /\ Len(marks) < MaxMarks
    /\ file' = new
    /\ marks' = Append(marks, [equity |-> new.last, time |-> new.stamp, latched |-> new.latched])
    /\ lock' = None
    /\ proc' = [proc EXCEPT ![p] = Idle]
    /\ UNCHANGED now

Released(p) == IF lock = p THEN None ELSE lock

\* A refusal, an exception or a kill.
End(p) ==
    /\ ~At(p, "idle")
    /\ lock' = Released(p)
    /\ proc' = [proc EXCEPT ![p] = Idle]
    /\ UNCHANGED <<now, file, marks>>

Tick == now < MaxTime /\ now' = now + 1 /\ UNCHANGED <<file, lock, proc, marks>>
LoseFile == file # None /\ file' = None /\ UNCHANGED <<now, lock, proc, marks>>

Next ==
    \/ Tick \/ LoseFile
    \/ \E p \in Procs : \/ Observe(p) \/ ReadClock(p) \/ TakeLock(p)
                        \/ Load(p) \/ Store(p) \/ End(p)

Spec == Init /\ [][Next]_vars

-----------------------------------------------------------------------------
(* Properties *)

Processes == [pc : {"idle", "clock", "lock", "load", "store"},
              equity : Nat, time : Nat, seen : State \cup {None}]

\* Types, and the lock belongs to the process that reads or replaces the file.
TypeOK ==
    /\ now \in Nat
    /\ file \in State \cup {None} /\ lock \in Procs \cup {None}
    /\ proc \in [Procs -> Processes]
    /\ marks \in Seq([equity : Nat, time : Nat, latched : BOOLEAN])
    /\ \A p \in Procs : lock = p <=> proc[p].pc \in {"load", "store"}

\* New entries are paused exactly when some recorded equity fell from an earlier
\* recorded one by the allowed drawdown or more: no interleaving, stale equity,
\* kill or loss of the file forgets a peak or lifts the latch, or
\* raises it without a breach.
DrawdownExact ==
    \A k \in DOMAIN marks :
        marks[k].latched <=> \E j \in 1..k : \E i \in 1..j :
            Breach(marks[i].equity, marks[j].equity)

\* Observations enter the state in the order of the clock readings, whatever
\* process wrote them.
ObservationsInOrder ==
    \A i, j \in DOMAIN marks : i <= j => marks[i].time <= marks[j].time
=============================================================================
