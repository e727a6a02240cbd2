------------------------ MODULE DrawdownLatchProofs ------------------------
(* For any number of processes, equities and observations: the latch is      *)
(* raised exactly by a breach among the recorded observations, which are in  *)
(* the order of their clock readings.                                        *)
EXTENDS DrawdownLatch, TLAPS

Marks == Seq([equity : Nat, time : Nat, latched : BOOLEAN])

(* The state s summarises the observations m.                                *)
Summary(s, m) ==
    /\ \E i \in 1..Len(m) : m[i].equity = s.peak
    /\ \A i \in 1..Len(m) : m[i].equity <= s.peak
    /\ s.latched = m[Len(m)].latched
    /\ s.stamp = m[Len(m)].time

(* The two properties, of any sequence of observations.                      *)
Exact(m) ==
    \A k \in 1..Len(m) :
        m[k].latched <=> \E j \in 1..k : \E i \in 1..j : Breach(m[i].equity, m[j].equity)

Ordered(m) == \A i, j \in 1..Len(m) : i <= j => m[i].time <= m[j].time

(* The file summarises them, and so does what the lock's holder has read.    *)
SummaryInv ==
    /\ Len(marks) >= 1
    /\ file # None => Summary(file, marks)
    /\ \A p \in Procs : proc[p].pc = "store" =>
         /\ proc[p].seen # None /\ Summary(proc[p].seen, marks)
         /\ proc[p].seen.stamp <= proc[p].time

IInv == TypeOK /\ SummaryInv /\ DrawdownExact /\ ObservationsInOrder

-----------------------------------------------------------------------------

USE DrawdownAssumption, NoneAssumption
USE DEF At, State

(* A breach stays one when the peak is higher.                               *)
LEMMA HigherPeak ==
  ASSUME NEW low \in Nat, NEW high \in Nat, NEW value \in Nat, low <= high,
         Breach(low, value)
  PROVE  Breach(high, value)
<1>1. MaximumDrawdown \in {1, 2, 3, 4, 5, 6, 7, 8, 9, 10}
  OBVIOUS
<1>2. (low - value) * 100 >= MaximumDrawdown * low
  BY DEF Breach
<1>3. (high - value) * 100 >= MaximumDrawdown * high
  <2>1. CASE MaximumDrawdown = 1
    BY <1>2, <2>1
  <2>2. CASE MaximumDrawdown = 2
    BY <1>2, <2>2
  <2>3. CASE MaximumDrawdown = 3
    BY <1>2, <2>3
  <2>4. CASE MaximumDrawdown = 4
    BY <1>2, <2>4
  <2>5. CASE MaximumDrawdown = 5
    BY <1>2, <2>5
  <2>6. CASE MaximumDrawdown = 6
    BY <1>2, <2>6
  <2>7. CASE MaximumDrawdown = 7
    BY <1>2, <2>7
  <2>8. CASE MaximumDrawdown = 8
    BY <1>2, <2>8
  <2>9. CASE MaximumDrawdown = 9
    BY <1>2, <2>9
  <2>10. CASE MaximumDrawdown = 10
    BY <1>2, <2>10
  <2> QED
    BY <1>1, <2>1, <2>2, <2>3, <2>4, <2>5, <2>6, <2>7, <2>8, <2>9, <2>10
<1> QED
  BY <1>3 DEF Breach

LEMMA Initially == Init => IInv
<1> SUFFICES ASSUME Init PROVE IInv
  OBVIOUS
<1>1. PICK e \in Equities \ {0} :
        /\ file = [peak |-> e, last |-> e, stamp |-> 0, latched |-> FALSE]
        /\ marks = <<[equity |-> e, time |-> 0, latched |-> FALSE]>>
  BY DEF Init
<1>2. /\ e \in Nat \ {0} /\ Len(marks) = 1 /\ DOMAIN marks = {1} /\ 1..1 = {1}
      /\ marks[1].equity = e /\ marks[1].time = 0 /\ marks[1].latched = FALSE
  BY <1>1
<1>3. TypeOK
  BY <1>1, <1>2 DEF Init, TypeOK, Processes, Idle
<1>4. SummaryInv
  <2>1. file.peak = e /\ file.latched = FALSE /\ file.stamp = 0
    BY <1>1
  <2>2. Summary(file, marks)
    <3>1. \A i \in 1..1 : i = 1
      OBVIOUS
    <3>2. \A i \in 1..1 : marks[i].equity <= file.peak
      BY <1>2, <2>1, <3>1
    <3>3. file.latched = marks[1].latched /\ file.stamp = marks[1].time
      BY <1>2, <2>1
    <3> QED
      BY <1>2, <2>1, <3>2, <3>3 DEF Summary
  <2>3. \A p \in Procs : proc[p].pc # "store"
    BY DEF Init, Idle
  <2> QED
    BY <1>2, <2>2, <2>3 DEF SummaryInv
<1>5. ObservationsInOrder
  BY <1>2 DEF ObservationsInOrder
<1>6. DrawdownExact
  <2>1. ~Breach(e, e)
    BY <1>2 DEF Breach
  <2> QED
    BY <1>2, <2>1 DEF DrawdownExact
<1> QED
  BY <1>3, <1>4, <1>5, <1>6 DEF IInv

(* The properties are those of the sequence.                                 *)
LEMMA History ==
  ASSUME marks \in Marks
  PROVE  (DrawdownExact <=> Exact(marks)) /\ (ObservationsInOrder <=> Ordered(marks))
<1>1. DOMAIN marks = 1..Len(marks)
  BY DEF Marks
<1> QED
  BY <1>1 DEF DrawdownExact, Exact, ObservationsInOrder, Ordered

(* What a process notes before it takes the lock.                            *)
LEMMA Noted ==
  ASSUME NEW x \in Processes
  PROVE  /\ [x EXCEPT !.pc = "load"] \in Processes
         /\ \A e \in Nat : [x EXCEPT !.pc = "clock", !.equity = e] \in Processes
         /\ \A t \in Nat : [x EXCEPT !.pc = "lock", !.time = t] \in Processes
         /\ \A r \in State : [x EXCEPT !.pc = "store", !.seen = r] \in Processes
BY DEF Processes

(* The state that Store writes.                                              *)
LEMMA NewState ==
  ASSUME NEW r \in State, NEW value \in Nat, NEW time \in Nat
  PROVE  /\ Updated(r, value, time) \in State
         /\ Updated(r, value, time).last = value /\ Updated(r, value, time).stamp = time
         /\ Updated(r, value, time).peak = (IF value > r.peak THEN value ELSE r.peak)
         /\ Updated(r, value, time).latched =
              (r.latched \/ Breach(Updated(r, value, time).peak, value))
BY DEF Updated, Breach

(* Steps that record nothing.                                                *)
LEMMA Quiet ==
  ASSUME IInv, UNCHANGED marks, TypeOK',
         file' \in {file, None},
         \A p \in Procs : proc'[p].pc = "store" =>
           \/ proc'[p] = proc[p]
           \/ file # None /\ proc'[p].seen = file /\ file.stamp <= proc'[p].time
  PROVE  IInv'
<1>1. SummaryInv'
  <2>1. Len(marks') >= 1 /\ marks' = marks
    BY DEF IInv, SummaryInv
  <2>2. file' # None => Summary(file', marks')
    BY DEF IInv, SummaryInv
  <2>3. ASSUME NEW p \in Procs, proc'[p].pc = "store"
        PROVE  /\ proc'[p].seen # None /\ Summary(proc'[p].seen, marks')
               /\ proc'[p].seen.stamp <= proc'[p].time
    <3>1. CASE proc'[p] = proc[p]
      BY <2>1, <2>3, <3>1 DEF IInv, SummaryInv
    <3>2. CASE file # None /\ proc'[p].seen = file /\ file.stamp <= proc'[p].time
      BY <2>1, <3>2 DEF IInv, SummaryInv
    <3> QED
      BY <2>3, <3>1, <3>2
  <2> QED
    BY <2>1, <2>2, <2>3 DEF SummaryInv, Summary
<1>2. DrawdownExact' /\ ObservationsInOrder'
  BY DEF IInv, DrawdownExact, ObservationsInOrder
<1> QED
  BY <1>1, <1>2 DEF IInv

LEMMA ObserveStep == ASSUME IInv, NEW p \in Procs, Observe(p) PROVE IInv'
<1> USE DEF IInv, TypeOK
<1>1. PICK e \in Equities :
        proc' = [proc EXCEPT ![p] = [proc[p] EXCEPT !.pc = "clock", !.equity = e]]
  BY DEF Observe
<1>2. e \in Nat
  OBVIOUS
<1>3. proc' \in [Procs -> Processes]
  BY <1>1, <1>2, Noted
<1>4. \A q \in Procs : lock' = q <=> proc'[q].pc \in {"load", "store"}
  BY SMTT(20) DEF Observe, Processes
<1>5. TypeOK'
  BY <1>3, <1>4 DEF Observe
<1>6. \A q \in Procs : proc'[q].pc = "store" =>
        \/ proc'[q] = proc[q]
        \/ file # None /\ proc'[q].seen = file /\ file.stamp <= proc'[q].time
  BY DEF Observe, Processes
<1> QED
  BY <1>5, <1>6, Quiet DEF Observe

LEMMA ReadClockStep == ASSUME IInv, NEW p \in Procs, ReadClock(p) PROVE IInv'
<1> USE DEF IInv, TypeOK
<1>1. proc' = [proc EXCEPT ![p] = [proc[p] EXCEPT !.pc = "lock", !.time = now]]
  BY DEF ReadClock
<1>2. now \in Nat
  BY DEF ReadClock
<1>3. proc' \in [Procs -> Processes]
  BY <1>1, <1>2, Noted
<1>4. \A q \in Procs : lock' = q <=> proc'[q].pc \in {"load", "store"}
  BY DEF ReadClock, Processes
<1>5. TypeOK'
  BY <1>3, <1>4 DEF ReadClock
<1>6. \A q \in Procs : proc'[q].pc = "store" =>
        \/ proc'[q] = proc[q]
        \/ file # None /\ proc'[q].seen = file /\ file.stamp <= proc'[q].time
  BY DEF ReadClock, Processes
<1> QED
  BY <1>5, <1>6, Quiet DEF ReadClock

LEMMA TakeLockStep == ASSUME IInv, NEW p \in Procs, TakeLock(p) PROVE IInv'
<1> USE DEF IInv, TypeOK
<1>1. proc' = [proc EXCEPT ![p] = [proc[p] EXCEPT !.pc = "load"]]
  BY DEF TakeLock
<1>3. proc' \in [Procs -> Processes]
  BY <1>1, Noted
<1>4. \A q \in Procs : lock' = q <=> proc'[q].pc \in {"load", "store"}
  BY DEF TakeLock, Processes, Unlocked
<1>5. TypeOK'
  BY <1>3, <1>4 DEF TakeLock, Unlocked
<1>6. \A q \in Procs : proc'[q].pc = "store" =>
        \/ proc'[q] = proc[q]
        \/ file # None /\ proc'[q].seen = file /\ file.stamp <= proc'[q].time
  BY DEF TakeLock, Processes, Unlocked
<1> QED
  BY <1>5, <1>6, Quiet DEF TakeLock

LEMMA LoadStep == ASSUME IInv, NEW p \in Procs, Load(p) PROVE IInv'
<1> USE DEF IInv, TypeOK
<1>1. proc' = [proc EXCEPT ![p] = [proc[p] EXCEPT !.pc = "store", !.seen = file]]
  BY DEF Load
<1>2. file \in State
  BY DEF Load
<1>3. proc' \in [Procs -> Processes]
  BY <1>1, <1>2, Noted
<1>4. \A q \in Procs : lock' = q <=> proc'[q].pc \in {"load", "store"}
  BY DEF Load, Processes
<1>5. TypeOK'
  BY <1>3, <1>4 DEF Load
<1>6. \A q \in Procs : proc'[q].pc = "store" =>
        \/ proc'[q] = proc[q]
        \/ file # None /\ proc'[q].seen = file /\ file.stamp <= proc'[q].time
  BY DEF Load, Processes, Valid
<1> QED
  BY <1>5, <1>6, Quiet DEF Load

LEMMA EndStep == ASSUME IInv, NEW p \in Procs, End(p) PROVE IInv'
<1> USE DEF IInv, TypeOK
<1>3. proc' \in [Procs -> Processes]
  BY DEF End, Processes, Released, Idle
<1>4. \A q \in Procs : lock' = q <=> proc'[q].pc \in {"load", "store"}
  BY DEF End, Processes, Released, Idle
<1>5. TypeOK'
  BY <1>3, <1>4 DEF End, Released, Idle
<1>6. \A q \in Procs : proc'[q].pc = "store" =>
        \/ proc'[q] = proc[q]
        \/ file # None /\ proc'[q].seen = file /\ file.stamp <= proc'[q].time
  BY DEF End, Processes, Released, Idle
<1> QED
  BY <1>5, <1>6, Quiet DEF End

(* One more observation, of a state that summarises the earlier ones.        *)
LEMMA Recorded ==
  ASSUME NEW m \in Marks, Len(m) >= 1, NEW s \in State, NEW value \in Nat, NEW time \in Nat,
         Summary(s, m), s.stamp <= time, Exact(m), Ordered(m),
         NEW new, new = Updated(s, value, time),
         NEW mark, mark = [equity |-> new.last, time |-> new.stamp, latched |-> new.latched],
         NEW longer, longer = Append(m, mark)
  PROVE  longer \in Marks /\ Len(longer) >= 1 /\ Summary(new, longer)
         /\ Exact(longer) /\ Ordered(longer)
<1> DEFINE n == Len(m)
<1>1. /\ new \in State /\ new.last = value /\ new.stamp = time
      /\ new.peak = (IF value > s.peak THEN value ELSE s.peak)
      /\ new.latched = (s.latched \/ Breach(new.peak, value))
  BY DEF Updated, Breach
<1>2. /\ mark \in [equity : Nat, time : Nat, latched : BOOLEAN]
      /\ mark.equity = value /\ mark.time = time /\ mark.latched = new.latched
  BY <1>1
<1>3. /\ n \in Nat \ {0} /\ Len(longer) = n + 1 /\ longer[n + 1] = mark
      /\ longer \in Marks
  BY <1>2 DEF Marks
<1>4. \A i \in 1..n : /\ longer[i] = m[i] /\ m[i].equity \in Nat /\ m[i].time \in Nat
                      /\ m[i].latched \in BOOLEAN
  <2>1. \A i \in 1..n : m[i] \in [equity : Nat, time : Nat, latched : BOOLEAN]
    <3>1. \A S : \A q \in Seq(S) : \A i \in 1..Len(q) : q[i] \in S
      OBVIOUS
    <3> QED
      BY <3>1 DEF Marks
  <2>2. \A i \in 1..n : longer[i] = m[i]
    BY <1>2 DEF Marks
  <2> QED
    BY <2>1, <2>2
<1>5. /\ s.peak \in Nat /\ new.peak \in Nat /\ s.peak <= new.peak /\ value <= new.peak
      /\ s.latched \in BOOLEAN /\ s.stamp \in Nat
  BY <1>1
<1>6. /\ s.latched = m[n].latched /\ s.stamp = m[n].time
      /\ \A i \in 1..n : m[i].equity <= s.peak
  BY DEF Summary
<1>7. PICK top \in 1..n : m[top].equity = s.peak
  BY DEF Summary
<1>8. \A i \in 1..(n + 1) : i \in 1..n \/ i = n + 1
  BY <1>3
<1> HIDE DEF n
<1>9. \E i \in 1..(n + 1) : longer[i].equity = new.peak
  <2>1. CASE value > s.peak
    BY <1>1, <1>2, <1>3, <2>1
  <2>2. CASE ~(value > s.peak)
    BY <1>1, <1>3, <1>4, <1>7, <2>2
  <2> QED
    BY <2>1, <2>2
<1>10. \A i \in 1..(n + 1) : longer[i].equity <= new.peak /\ longer[i].equity \in Nat
  <2> SUFFICES ASSUME NEW i \in 1..(n + 1)
               PROVE  longer[i].equity <= new.peak /\ longer[i].equity \in Nat
    OBVIOUS
  <2>1. CASE i \in 1..n
    <3>1. m[i].equity <= s.peak /\ m[i].equity \in Nat /\ longer[i] = m[i]
      BY <1>4, <1>6, <2>1
    <3>2. \A a, b, c \in Nat : a <= b /\ b <= c => a <= c
      OBVIOUS
    <3>3. m[i].equity <= new.peak
      BY <1>5, <3>1, <3>2
    <3> QED
      BY <3>1, <3>3
  <2>2. CASE i = n + 1
    BY <1>2, <1>3, <1>5, <2>2
  <2> QED
    BY <1>8, <2>1, <2>2
<1>11. Summary(new, longer)
  BY <1>1, <1>2, <1>3, <1>9, <1>10 DEF Summary
<1>12. Ordered(longer)
  <2> SUFFICES ASSUME NEW i \in 1..(n + 1), NEW j \in 1..(n + 1), i <= j
               PROVE  longer[i].time <= longer[j].time
    BY <1>3 DEF Ordered
  <2>1. \A a, b \in 1..n : a <= b => m[a].time <= m[b].time
    BY DEF Ordered, n
  <2>2. ASSUME NEW a \in 1..n
        PROVE  m[a].time <= time
    <3>1. m[a].time <= m[n].time /\ m[n].time = s.stamp /\ m[a].time \in Nat
      BY <1>3, <1>4, <1>6, <2>1
    <3>2. \A x, y, z \in Nat : x <= y /\ y <= z => x <= z
      OBVIOUS
    <3> QED
      BY <1>5, <3>1, <3>2
  <2>3. CASE j \in 1..n
    BY <1>3, <1>4, <2>1, <2>3
  <2>4. CASE j = n + 1 /\ i \in 1..n
    BY <1>2, <1>3, <1>4, <2>2, <2>4
  <2>5. CASE j = n + 1 /\ i = n + 1
    BY <1>2, <1>3, <2>5
  <2> QED
    BY <1>8, <2>3, <2>4, <2>5
<1>13. Exact(longer)
  <2> SUFFICES ASSUME NEW k \in 1..(n + 1)
               PROVE  longer[k].latched <=> \E j \in 1..k : \E i \in 1..j :
                        Breach(longer[i].equity, longer[j].equity)
    BY <1>3 DEF Exact
  <2>1. \A h \in 1..n : m[h].latched <=> \E j \in 1..h : \E i \in 1..j :
          Breach(m[i].equity, m[j].equity)
    BY DEF Exact, n
  <2>2. \A h \in 1..n : \A j \in 1..h : \A i \in 1..j :
          j \in 1..n /\ i \in 1..n /\ longer[i] = m[i] /\ longer[j] = m[j]
    BY <1>3, <1>4
  <2>3. CASE k \in 1..n
    <3>1. longer[k].latched <=> \E j \in 1..k : \E i \in 1..j :
            Breach(m[i].equity, m[j].equity)
      BY <1>4, <2>1, <2>3
    <3>2. \A j \in 1..k : \A i \in 1..j :
            Breach(longer[i].equity, longer[j].equity) <=> Breach(m[i].equity, m[j].equity)
      BY <2>2, <2>3
    <3> QED
      BY <3>1, <3>2
  <2>4. CASE k = n + 1
    <3>1. ASSUME s.latched
          PROVE  \E j \in 1..k : \E i \in 1..j : Breach(longer[i].equity, longer[j].equity)
      <4>1. n \in 1..n /\ m[n].latched
        BY <1>3, <1>6, <3>1
      <4>2. PICK j \in 1..n : \E i \in 1..j : Breach(m[i].equity, m[j].equity)
        BY <2>1, <4>1
      <4>3. PICK i \in 1..j : Breach(m[i].equity, m[j].equity)
        BY <4>2
      <4>4. j \in 1..k /\ longer[i] = m[i] /\ longer[j] = m[j]
        BY <1>3, <2>2, <2>4, <4>1
      <4>5. Breach(longer[i].equity, longer[j].equity)
        BY <4>3, <4>4
      <4> QED
        BY <4>4, <4>5
    <3>2. ASSUME Breach(new.peak, value)
          PROVE  \E j \in 1..k : \E i \in 1..j : Breach(longer[i].equity, longer[j].equity)
      <4>1. PICK i \in 1..(n + 1) : longer[i].equity = new.peak
        BY <1>9
      <4>2. Breach(longer[i].equity, longer[n + 1].equity)
        BY <1>2, <1>3, <3>2, <4>1
      <4>3. n + 1 \in 1..k
        BY <1>3, <2>4
      <4> QED
        BY <4>2, <4>3
    <3>3. ASSUME NEW j \in 1..k, NEW i \in 1..j, Breach(longer[i].equity, longer[j].equity)
          PROVE  s.latched \/ Breach(new.peak, value)
      <4>1. CASE j \in 1..n
        <5>1. n \in 1..n /\ longer[i] = m[i] /\ longer[j] = m[j]
          BY <1>3, <2>2, <4>1
        <5>2. Breach(m[i].equity, m[j].equity)
          BY <3>3, <5>1
        <5>3. m[n].latched
          BY <2>1, <4>1, <5>1, <5>2
        <5> QED
          BY <1>6, <5>3
      <4>2. CASE j = n + 1
        <5>1. i \in 1..(n + 1)
          BY <1>3, <4>2
        <5>2. longer[i].equity <= new.peak /\ longer[i].equity \in Nat
          BY <1>10, <5>1
        <5>3. Breach(longer[i].equity, value)
          BY <1>2, <1>3, <3>3, <4>2
        <5> QED
          BY <1>5, <5>2, <5>3, HigherPeak
      <4> QED
        BY <1>8, <2>4, <4>1, <4>2
    <3>4. longer[k].latched <=> s.latched \/ Breach(new.peak, value)
      BY <1>1, <1>2, <1>3, <2>4
    <3> QED
      BY <3>1, <3>2, <3>3, <3>4
  <2> QED
    BY <1>8, <2>3, <2>4
<1> QED
  BY <1>3, <1>11, <1>12, <1>13

LEMMA StoreStep == ASSUME IInv, NEW p \in Procs, Store(p) PROVE IInv'
<1>1. /\ file' = Updated(proc[p].seen, proc[p].equity, proc[p].time)
      /\ marks' = Append(marks, [equity |-> file'.last, time |-> file'.stamp,
                                 latched |-> file'.latched])
      /\ lock' = None /\ proc' = [proc EXCEPT ![p] = Idle] /\ now' = now
      /\ proc[p].pc = "store"
  BY DEF Store
<1>2. /\ proc \in [Procs -> Processes] /\ proc[p] \in Processes
      /\ proc[p].equity \in Nat /\ proc[p].time \in Nat /\ marks \in Marks
  BY DEF IInv, TypeOK, Processes, Marks
<1>3. /\ proc[p].seen \in State /\ Summary(proc[p].seen, marks)
      /\ proc[p].seen.stamp <= proc[p].time /\ Len(marks) >= 1
  BY <1>1, <1>2 DEF IInv, SummaryInv, Processes
<1>4. Exact(marks) /\ Ordered(marks)
  BY <1>2, History DEF IInv
<1>5. /\ marks' \in Marks /\ Len(marks') >= 1 /\ Summary(file', marks')
      /\ Exact(marks') /\ Ordered(marks')
  BY <1>1, <1>2, <1>3, <1>4, Recorded, ZenonT(30)
<1>6. \A q \in Procs : proc'[q].pc \notin {"load", "store"}
  BY <1>1, <1>2 DEF IInv, TypeOK, Idle
<1>7. TypeOK'
  <2>1. file' \in State
    BY <1>1, <1>2, <1>3, NewState
  <2>2. Idle \in Processes
    BY DEF Idle, Processes
  <2>3. proc' \in [Procs -> Processes]
    BY <1>1, <1>2, <2>2
  <2> QED
    BY <1>1, <1>5, <1>6, <2>1, <2>3 DEF IInv, TypeOK, Marks
<1>8. SummaryInv'
  BY <1>5, <1>6 DEF SummaryInv, Summary
<1>9. DrawdownExact' /\ ObservationsInOrder'
  <2>1. DOMAIN marks' = 1..Len(marks')
    BY <1>5 DEF Marks
  <2> QED
    BY <1>5, <2>1 DEF DrawdownExact, Exact, ObservationsInOrder, Ordered, Breach
<1> QED
  BY <1>7, <1>8, <1>9 DEF IInv

-----------------------------------------------------------------------------
(* The theorems. *)

(* The state, and what is read of it under the lock, summarises the history. *)
THEOREM Inductive == Spec => []IInv
<1>1. IInv /\ [Next]_vars => IInv'
  <2> SUFFICES ASSUME IInv, [Next]_vars PROVE IInv'
    OBVIOUS
  <2>1. CASE Tick \/ LoseFile \/ UNCHANGED vars
    <3>1. TypeOK'
      BY <2>1 DEF IInv, TypeOK, Tick, LoseFile, vars
    <3> QED
      BY <2>1, <3>1, Quiet DEF Tick, LoseFile, vars
  <2>2. ASSUME NEW p \in Procs,
               Observe(p) \/ ReadClock(p) \/ TakeLock(p) \/ Load(p) \/ Store(p) \/ End(p)
        PROVE  IInv'
    BY <2>2, ObserveStep, ReadClockStep, TakeLockStep, LoadStep, StoreStep, EndStep
  <2> QED
    BY <2>1, <2>2 DEF Next
<1> QED
  BY Initially, <1>1, PTL DEF Spec

(* The types, and the lock belongs to the process that works on the file.    *)
THEOREM TypeCorrect == Spec => []TypeOK
<1>1. IInv => TypeOK
  BY DEF IInv
<1> QED
  BY Inductive, <1>1, PTL

(* New entries are paused exactly when a recorded equity fell from an earlier *)
(* one by the allowed drawdown.                                              *)
THEOREM DrawdownHolds == Spec => []DrawdownExact
<1>1. IInv => DrawdownExact
  BY DEF IInv
<1> QED
  BY Inductive, <1>1, PTL

(* The observations are recorded in the order of their clock readings.       *)
THEOREM OrderHolds == Spec => []ObservationsInOrder
<1>1. IInv => ObservationsInOrder
  BY DEF IInv
<1> QED
  BY Inductive, <1>1, PTL
=============================================================================
