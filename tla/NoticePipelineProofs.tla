------------------------ MODULE NoticePipelineProofs ------------------------
(***************************************************************************)
(* For any number of executions, records, failures and crashes: what was   *)
(* committed as published is in the table, a message is repeated only for  *)
(* a failure, the relay's cursor passes no event unsent that was there     *)
(* when the pass asked for events, and the trades table shows the trades   *)
(* of the fills that were read.                                            *)
(***************************************************************************)
EXTENDS NoticePipeline, SequenceTheorems, DataInduction

Sorted(seq) == \A i, j \in 1..Len(seq) : i < j => seq[i].at <= seq[j].at

EventKeys ==
    {<<FillOf[f].order, group>> : f \in Fills, group \in SUBSET Fills}
      \cup {record.key : record \in Records}
Event == [key : EventKeys, at : Nat]
Fetchable == [key : EventKeys \cup {Health}, at : Nat]
Dues == Nat \cup {c + Backoff(n) : c \in Nat, n \in Nat}
Entry == [key : {record.key : record \in Records}, at : Nat,
          status : {"pending", "delivered", "dead"}, attempts : Nat, due : Dues]

(* Types and order of the tables.                                          *)
TablesOK ==
    /\ clock \in Nat /\ faults \in Nat
    /\ health \in Nat \cup {NoError}
    /\ events \in Seq(Event) /\ Sorted(events)
    /\ \A r, s \in Rows : r.key = s.key => r = s
    /\ outbox \in Seq(Entry)

(* The journal: its file, and what the sync at hand is about to publish.   *)
JournalOK ==
    /\ executed \subseteq Fills /\ broken \in Nat
    /\ local.fills \subseteq Fills /\ local.notified = local.fills /\ local.seeded \in BOOLEAN
    /\ sync = [step |-> sync.step, fills |-> sync.fills, rows |-> sync.rows,
               notices |-> sync.notices]
    /\ sync.step \in {"idle", "traded", "noticed"}
    /\ sync.fills \subseteq Fills
    /\ sync.step # "idle" => local.fills \subseteq sync.fills

Pending == sync.fills \ local.notified

NoticesOK ==
    sync.step = "traded" =>
      /\ sync.notices \subseteq Event /\ IsFiniteSet(sync.notices)
      /\ \A notice \in sync.notices : notice.key[2] # {} /\ notice.key[2] \subseteq Pending
      /\ \A m, n \in sync.notices : m.key[2] \cap n.key[2] # {} => m = n
      /\ local.seeded => \A f \in Pending : Owned(f) => \E n \in sync.notices : f \in n.key[2]

(* A sync that was noticed has an event for each fill it will commit.      *)
Noticed ==
    sync.step = "noticed" /\ local.seeded =>
      \A f \in Pending : Owned(f) => \E row \in Rows : f \in row.key[2]

About(f) == {row \in Rows : f \in row.key[2]}
Settling(f) == f \in local.notified \/ (sync.step = "noticed" /\ f \in sync.fills)
NoticesBounded ==
    \A f \in Fills : Cardinality(About(f)) <= broken + (IF Settling(f) THEN 1 ELSE 0)

(* The relay's file and pass.                                              *)
RelayOK ==
    /\ saved.cursor \in Nat \/ saved = Torn
    /\ saved = [cursor |-> saved.cursor, ids |-> saved.ids] /\ saved.cursor \in Int
    /\ pass = [step |-> pass.step, batch |-> pass.batch, done |-> pass.done]
    /\ pass.step \in {"idle", "fetched", "sending", "stopped"}
    /\ pass.batch \in Seq(Fetchable) /\ Sorted(pass.batch)
    /\ pass.done \in 0..Len(pass.batch)
    /\ pass.step = "idle" => pass.batch = <<>>
    /\ pass.step = "fetched" => pass.done = 0
    /\ pass.step # "idle" => saved.cursor \in Nat
    /\ \A i \in 1..Len(pass.batch) :
         /\ pass.batch[i] \in Rows \/ pass.batch[i].key = Health
         /\ pass.batch[i].at >= saved.cursor
    /\ sent = [key \in DOMAIN sent |-> sent[key]] /\ \A key \in DOMAIN sent : sent[key] \in Nat

(* Nothing between the cursor and the latest fetched row is left out but    *)
(* what came since; and nothing at all, if the pass has room for an error.  *)
Taken(row) == row \in ToSet(pass.batch) \/ row.key \in unread

NoGap == \A row \in Rows : row.at >= saved.cursor /\ row.at < Latest => Taken(row)

WholeFetch ==
    pass.step = "fetched" /\ Len(pass.batch) < Limit =>
      \A row \in Rows : row.at >= saved.cursor => Taken(row)

DeliveredWasSent == DeliveredIds \subseteq DOMAIN sent

IdsAtCursor ==
    \A key \in saved.ids \ {Health} : \E row \in Rows : row.key = key /\ row.at <= saved.cursor

Delivered(key) ==
    \/ key \in DeliveredIds
    \/ \E row \in Rows : row.key = key /\ row.at < saved.cursor

SendsBounded ==
    \A key \in DOMAIN sent \ {Health} :
      sent[key] <= faults + (IF Delivered(key) THEN 1 ELSE 0)

NotifiedIsPublished ==
    \A f \in local.notified \ seed : Owned(f) => \E row \in Rows : f \in row.key[2]

DeliveredIsPublished ==
    \A i \in 1..Len(outbox) : outbox[i].status = "delivered" => outbox[i].key \in Keys(Rows)

NoticeInv ==
    /\ TablesOK /\ JournalOK /\ NoticesOK /\ Noticed /\ NoticesBounded
    /\ NotifiedIsPublished /\ DeliveredIsPublished

RelayInv ==
    /\ RelayOK /\ NoGap /\ WholeFetch /\ DeliveredWasSent /\ IdsAtCursor /\ SendsBounded
    /\ PassedWasSent

-----------------------------------------------------------------------------
(* The order of the rows. *)

(* A row inserted at its time keeps the order, and adds no other row.      *)
LEMMA InsertionKeepsOrder ==
  ASSUME NEW R, \A r \in R : r.at \in Int, NEW seq \in Seq(R), Sorted(seq),
         NEW row \in R, NEW q \in Insertions(row, seq)
  PROVE  q \in Seq(R) /\ Sorted(q) /\ ToSet(q) = ToSet(seq) \cup {row}
<1>1. PICK i \in 1..Len(seq) + 1 :
        /\ q = InsertAt(seq, i, row)
        /\ \A j \in 1..(i - 1) : seq[j].at <= row.at
        /\ \A j \in i..Len(seq) : row.at <= seq[j].at
  BY DEF Insertions
<1>2. Len(seq) \in Nat /\ \A j \in 1..Len(seq) : seq[j] \in R
  OBVIOUS
<1> DEFINE a == SubSeq(seq, 1, i - 1)
           b == SubSeq(seq, i, Len(seq))
<1>3. /\ a \in Seq(R) /\ Len(a) = i - 1 /\ \A j \in 1..(i - 1) : a[j] = seq[j]
      /\ b \in Seq(R) /\ Len(b) = Len(seq) - i + 1
      /\ \A j \in 1..(Len(seq) - i + 1) : b[j] = seq[i + j - 1]
  BY <1>2
<1>4. q = a \o <<row>> \o b
  BY <1>1 DEF InsertAt
<1> HIDE DEF a, b
<1>5. /\ q \in Seq(R) /\ Len(q) = Len(seq) + 1
      /\ \A k \in 1..(i - 1) : q[k] = seq[k]
      /\ q[i] = row
      /\ \A k \in (i + 1)..(Len(seq) + 1) : q[k] = seq[k - 1]
  <2> DEFINE n == Len(seq)
             c == a \o <<row>>
  <2>1. n \in Nat /\ i \in 1..n + 1
    BY <1>2
  <2> HIDE DEF n
  <2>2. /\ c \in Seq(R) /\ Len(c) = i
        /\ \A k \in 1..(i - 1) : c[k] = a[k]
        /\ c[i] = row
    BY <1>3, <2>1
  <2> HIDE DEF c
  <2>3. Len(b) = n - i + 1 /\ b \in Seq(R)
    BY <1>3 DEF n
  <2>4. q = c \o b
    BY <1>4 DEF c
  <2>5. q \in Seq(R) /\ Len(q) = n + 1
    BY <2>1, <2>2, <2>3, <2>4
  <2>6. /\ \A k \in 1..i : q[k] = c[k]
        /\ \A k \in (i + 1)..(n + 1) : q[k] = b[k - i]
    BY <2>1, <2>2, <2>3, <2>4
  <2>7. \A k \in 1..(i - 1) : q[k] = seq[k]
    BY <1>3, <2>1, <2>2, <2>6
  <2>8. ASSUME NEW k \in (i + 1)..(n + 1) PROVE q[k] = seq[k - 1]
    <3>1. k - i \in 1..(n - i + 1) /\ i + (k - i) - 1 = k - 1
      BY <2>1
    <3>2. b[k - i] = seq[i + (k - i) - 1]
      BY <1>3, <3>1 DEF n
    <3> QED
      BY <2>6, <3>1, <3>2
  <2>9. q[i] = row
    BY <2>1, <2>2, <2>6
  <2> QED
    BY <2>5, <2>7, <2>8, <2>9 DEF n
<1>6. ToSet(q) = ToSet(seq) \cup {row}
  <2>1. \A k \in 1..Len(q) : q[k] \in ToSet(seq) \cup {row}
    BY <1>2, <1>5 DEF ToSet
  <2>2. \A j \in 1..Len(seq) : \E k \in 1..Len(q) : q[k] = seq[j]
    <3>1. ASSUME NEW j \in 1..Len(seq) PROVE \E k \in 1..Len(q) : q[k] = seq[j]
      <4>1. CASE j < i
        BY <1>2, <1>5, <4>1
      <4>2. CASE j >= i
        <5>1. j + 1 \in (i + 1)..(Len(seq) + 1) /\ (j + 1) - 1 = j
          BY <1>2, <4>2
        <5>2. q[j + 1] = seq[(j + 1) - 1]
          BY <1>5, <5>1
        <5>3. j + 1 \in 1..Len(q)
          BY <1>2, <1>5
        <5> QED
          BY <5>1, <5>2, <5>3
      <4> QED
        BY <1>2, <4>1, <4>2
    <3> QED
      BY <3>1
  <2>3. i \in 1..Len(q) /\ q[i] = row
    BY <1>2, <1>5
  <2>4. DOMAIN q = 1..Len(q) /\ DOMAIN seq = 1..Len(seq)
    BY <1>5
  <2>5. \A r \in ToSet(q) : r \in ToSet(seq) \cup {row}
    BY <2>1, <2>4 DEF ToSet
  <2>6. \A r \in ToSet(seq) : r \in ToSet(q)
    BY <2>2, <2>4 DEF ToSet
  <2>7. row \in ToSet(q)
    BY <2>3, <2>4 DEF ToSet
  <2> QED
    BY <2>5, <2>6, <2>7
<1>7. Sorted(q)
  <2>1. ASSUME NEW k \in 1..Len(q), NEW l \in 1..Len(q), k < l PROVE q[k].at <= q[l].at
    <3>1. CASE l < i
      BY <1>2, <1>5, <2>1, <3>1 DEF Sorted
    <3>2. CASE l = i
      BY <1>1, <1>2, <1>5, <2>1, <3>2
    <3>3. CASE k < i /\ i < l
      <4>1. k \in 1..(i - 1) /\ l \in (i + 1)..(Len(seq) + 1) /\ l - 1 \in i..Len(seq)
        BY <1>2, <1>5, <2>1, <3>3
      <4>2. q[k] = seq[k] /\ q[l] = seq[l - 1] /\ seq[k].at <= row.at /\ row.at <= seq[l - 1].at
        BY <1>1, <1>5, <4>1
      <4>3. q[k] \in R /\ q[l] \in R
        BY <1>5
      <4> QED
        BY <4>2, <4>3
    <3>4. CASE k = i
      <4>1. l \in (i + 1)..(Len(seq) + 1) /\ l - 1 \in i..Len(seq)
        BY <1>2, <1>5, <2>1, <3>4
      <4> QED
        BY <1>1, <1>5, <3>4, <4>1
    <3>5. CASE i < k
      <4>1. /\ k \in (i + 1)..(Len(seq) + 1) /\ l \in (i + 1)..(Len(seq) + 1)
            /\ k - 1 \in 1..Len(seq) /\ l - 1 \in 1..Len(seq) /\ k - 1 < l - 1
        BY <1>2, <1>5, <2>1, <3>5
      <4>2. q[k] = seq[k - 1] /\ q[l] = seq[l - 1]
        BY <1>5, <4>1
      <4> QED
        BY <4>1, <4>2 DEF Sorted
    <3> QED
      BY <1>2, <2>1, <3>1, <3>2, <3>3, <3>4, <3>5
  <2> QED
    BY <2>1 DEF Sorted
<1> QED
  BY <1>5, <1>6, <1>7

\* The recursion that Merged stands for, and the elements it picks.
Pick(new) == [s \in SUBSET new |-> CHOOSE row \in s : TRUE]
MergeOf(g, seq, new) ==
    [s \in SUBSET new |->
       IF s = {} THEN {seq}
       ELSE UNION {Insertions(CHOOSE row \in s : TRUE, q) :
                     q \in g[s \ {CHOOSE row \in s : TRUE}]}]

LEMMA MergedIsFold ==
  ASSUME NEW R, \A r \in R : r.at \in Int, NEW seq \in Seq(R),
         NEW new \in SUBSET R, IsFiniteSet(new)
  PROVE  \E h : h = MergeOf(h, seq, new) /\ Merged(seq, new) = h[new]
<1> DEFINE V == SUBSET Seq(R)
           Inserted(row, Q) == UNION {Insertions(row, q) : q \in Q}
           step == [p \in new \X V |-> Inserted(p[1], p[2])]
           pick == Pick(new)
<1>1. Picks(pick, new)
  BY DEF Picks, Pick
<1>2. step \in [new \X V -> V]
  <2>1. ASSUME NEW row \in new, NEW Q \in V
        PROVE  Inserted(row, Q) \in V
    <3>1. ASSUME NEW q \in Q, NEW p \in Insertions(row, q) PROVE p \in Seq(R)
      <4>1. PICK i \in 1..Len(q) + 1 : p = InsertAt(q, i, row)
        BY DEF Insertions
      <4>2. q \in Seq(R) /\ row \in R /\ Len(q) \in Nat
        OBVIOUS
      <4>3. SubSeq(q, 1, i - 1) \in Seq(R) /\ SubSeq(q, i, Len(q)) \in Seq(R)
        BY <4>2
      <4>4. SubSeq(q, 1, i - 1) \o <<row>> \in Seq(R)
        BY <4>2, <4>3
      <4> QED
        BY <4>1, <4>3, <4>4 DEF InsertAt
    <3> QED
      BY <3>1
  <2> QED
    BY <2>1
<1>3. {seq} \in V
  OBVIOUS
<1>4. PICK g \in [SUBSET new -> V] : IsFold(g, new, {seq}, step, pick)
  <2> HIDE DEF V, step, pick
  <2> QED
    BY <1>1, <1>2, <1>3, FoldExists
<1>5. g = MergeOf(g, seq, new)
  <2>1. ASSUME NEW s \in SUBSET new, s # {}
        PROVE  g[s] = UNION {Insertions(CHOOSE row \in s : TRUE, q) :
                              q \in g[s \ {CHOOSE row \in s : TRUE}]}
    <3> DEFINE x == CHOOSE row \in s : TRUE
    <3>1. x \in new /\ s \ {x} \in SUBSET new /\ pick[s] = x
      BY <2>1 DEF Pick
    <3>2. g[s] = step[<<x, g[s \ {x}]>>]
      BY <2>1, <1>4, <3>1 DEF IsFold
    <3>3. g[s \ {x}] \in V
      <4> HIDE DEF V, x
      <4> QED
        BY <3>1
    <3>4. step[<<x, g[s \ {x}]>>] = UNION {Insertions(x, q) : q \in g[s \ {x}]}
      <4> DEFINE p == <<x, g[s \ {x}]>>
      <4>1. p \in new \X V /\ p[1] = x /\ p[2] = g[s \ {x}]
        <5> HIDE DEF V, x
        <5> QED
          BY <3>1, <3>3
      <4>2. step[p] = Inserted(p[1], p[2])
        <5> HIDE DEF p, V, Inserted
        <5> QED
          BY <4>1
      <4>3. step[p] = Inserted(x, g[s \ {x}])
        <5> HIDE DEF p, V, x, step, Inserted
        <5> QED
          BY <4>1, <4>2
      <4> QED
        BY <4>3
    <3> QED
      BY <3>2, <3>4
  <2>2. g[{}] = {seq}
    BY <1>4 DEF IsFold
  <2> QED
    BY <2>1, <2>2 DEF MergeOf
<1> DEFINE h == CHOOSE f : f = MergeOf(f, seq, new)
<1>6. h = MergeOf(h, seq, new)
  BY <1>5
<1>7. Merged(seq, new) = h[new]
  BY DEF Merged, FoldSet, MapThenFoldSet, MergeOf
<1> QED
  BY <1>6, <1>7

(* Merging rows into ordered ones gives ordered ones, with just those rows. *)
LEMMA MergedKeepsOrder ==
  ASSUME NEW R, \A r \in R : r.at \in Int, NEW seq \in Seq(R), Sorted(seq),
         NEW new \in SUBSET R, IsFiniteSet(new), NEW q \in Merged(seq, new)
  PROVE  q \in Seq(R) /\ Sorted(q) /\ ToSet(q) = ToSet(seq) \cup new
<1> DEFINE Good(s, p) == p \in Seq(R) /\ Sorted(p) /\ ToSet(p) = ToSet(seq) \cup s
           pick == Pick(new)
<1>1. PICK h : h = MergeOf(h, seq, new) /\ Merged(seq, new) = h[new]
  BY MergedIsFold
<1>2. h[{}] = {seq}
  BY <1>1 DEF MergeOf
<1>3. ASSUME NEW s \in SUBSET new, s # {}
      PROVE  /\ pick[s] \in s
             /\ h[s] = UNION {Insertions(pick[s], p) : p \in h[s \ {pick[s]}]}
  <2>1. pick[s] = CHOOSE row \in s : TRUE
    BY DEF Pick
  <2>2. pick[s] \in s
    BY <1>3, <2>1
  <2>3. h[s] = MergeOf(h, seq, new)[s]
    BY <1>1
  <2> QED
    BY <1>3, <2>1, <2>2, <2>3 DEF MergeOf
<1> DEFINE T == {s \in SUBSET new : \A p \in h[s] : Good(s, p)}
<1>4. {} \in T
  BY <1>2
<1>5. ASSUME NEW s \in SUBSET new, s # {}, s \ {pick[s]} \in T PROVE s \in T
  <2>1. ASSUME NEW p \in h[s] PROVE Good(s, p)
    <3>1. PICK t \in h[s \ {pick[s]}] : p \in Insertions(pick[s], t)
      <4>1. h[s] = UNION {Insertions(pick[s], u) : u \in h[s \ {pick[s]}]}
        BY <1>3, <1>5
      <4> HIDE DEF pick
      <4> QED
        BY <4>1
    <3>2. Good(s \ {pick[s]}, t)
      BY <1>5
    <3>3. pick[s] \in R
      BY <1>3, <1>5
    <3>4. p \in Seq(R) /\ Sorted(p) /\ ToSet(p) = ToSet(t) \cup {pick[s]}
      <4> HIDE DEF pick
      <4> QED
        BY <3>1, <3>2, <3>3, InsertionKeepsOrder
    <3> QED
      BY <1>3, <1>5, <3>2, <3>4
  <2> QED
    BY <2>1
<1>6. Picks(pick, new)
  BY <1>3 DEF Picks
<1>7. new \in T
  <2> HIDE DEF T, pick
  <2> QED
    BY <1>4, <1>5, <1>6, EveryPicked
<1> QED
  BY <1>1, <1>7

-----------------------------------------------------------------------------
(* The cursor. *)

(* The maximum of a number and finitely many others.                       *)
LEMMA MaxWith ==
  ASSUME NEW c \in Int, NEW S \in SUBSET Int, IsFiniteSet(S)
  PROVE  /\ Max({c} \cup S) \in {c} \cup S
         /\ Max({c} \cup S) >= c /\ \A x \in S : x <= Max({c} \cup S)
<1> DEFINE T == {c} \cup S
<1>1. T \in SUBSET Int /\ T # {}
  OBVIOUS
<1>2. IsFiniteSet(T)
  BY FS_Singleton, FS_Union
<1> HIDE DEF T
<1>3. Max(T) \in T /\ \A x \in T : x <= Max(T)
  BY <1>1, <1>2, FiniteMax
<1> QED
  BY <1>1, <1>3 DEF T

Ats(rows) == {row.at : row \in rows}

(* The latest of a cursor and the rows of a sequence.                      *)
LEMMA LatestOf ==
  ASSUME NEW R, \A r \in R : r.at \in Int, NEW batch \in Seq(R), NEW c \in Int,
         NEW latest, latest = Max({c} \cup Ats(ToSet(batch)))
  PROVE  /\ latest \in Int /\ latest >= c
         /\ \A i \in 1..Len(batch) : batch[i].at <= latest
         /\ latest # c => \E i \in 1..Len(batch) : latest = batch[i].at
         /\ Ats(ToSet(batch)) = {batch[i].at : i \in 1..Len(batch)}
<1> DEFINE f == [i \in 1..Len(batch) |-> batch[i].at]
           S == {f[i] : i \in 1..Len(batch)}
<1>1. /\ Len(batch) \in Nat /\ DOMAIN batch = 1..Len(batch)
      /\ \A i \in 1..Len(batch) : batch[i].at \in Int /\ f[i] = batch[i].at
  OBVIOUS
<1>2. S \in SUBSET Int /\ IsFiniteSet(S)
  <2>1. IsFiniteSet(1..Len(batch))
    BY <1>1, FS_Interval
  <2>2. S \in SUBSET Int
    BY <1>1
  <2> HIDE DEF f
  <2> QED
    BY <2>1, <2>2, FiniteImage
<1>3. Ats(ToSet(batch)) = S
  BY <1>1 DEF Ats, ToSet
<1> HIDE DEF S
<1>4. /\ latest \in {c} \cup S /\ latest >= c /\ \A x \in S : x <= latest
  BY <1>2, <1>3, MaxWith
<1> QED
  BY <1>1, <1>2, <1>3, <1>4 DEF S

LEMMA RowsTyped ==
  ASSUME events \in Seq(Event)
  PROVE  /\ Rows \subseteq Event /\ Rows = {events[i] : i \in 1..Len(events)}
         /\ \A row \in Rows : row.at \in Nat /\ row.at \in Int
<1>1. DOMAIN events = 1..Len(events) /\ \A i \in 1..Len(events) : events[i] \in Event
  OBVIOUS
<1>2. \A e \in Event : e.at \in Nat /\ e.at \in Int
  BY DEF Event
<1> QED
  BY <1>1, <1>2 DEF Rows, ToSet

LEMMA AtsNatural == events \in Seq(Event) => \A row \in Rows : row.at \in Nat
  BY RowsTyped

LEMMA AtsNaturalLater == events' \in Seq(Event) => \A row \in Rows' : row.at \in Nat
<1>1. (events \in Seq(Event) => \A row \in Rows : row.at \in Nat)'
  BY AtsNatural, PTL
<1> QED
  BY <1>1

LEMMA MinOfTwo ==
  ASSUME NEW a \in Int, NEW b \in Int
  PROVE  Min({a, b}) = IF a <= b THEN a ELSE b
<1> DEFINE T == {a, b}
<1>1. IsFiniteSet(T)
  <2>1. T = {a} \cup {b}
    OBVIOUS
  <2>2. IsFiniteSet({a}) /\ IsFiniteSet({b})
    BY FS_Singleton
  <2>3. IsFiniteSet({a} \cup {b})
    BY ONLY <2>2, FS_Union
  <2> QED
    BY <2>1, <2>3
<1>2. T \in SUBSET Int /\ T # {}
  OBVIOUS
<1>3. Min(T) \in T /\ \A x \in T : Min(T) <= x
  <2> HIDE DEF T
  <2> QED
    BY <1>1, <1>2, FiniteMin
<1> QED
  BY <1>3

(* What a pass fetches: rows from the cursor on, and none of those it does  *)
(* not fetch comes before one that it does.                                *)
LEMMA FetchedIsNext ==
  ASSUME TablesOK, saved.cursor \in Nat
  PROVE  /\ Fetched \in Seq(Event) /\ Sorted(Fetched) /\ Len(Fetched) \in 0..Limit
         /\ \A k \in 1..Len(Fetched) : Fetched[k] \in Rows /\ Fetched[k].at >= saved.cursor
         /\ \A row \in Rows : row.at >= saved.cursor =>
              \/ row \in ToSet(Fetched)
              \/ Len(Fetched) = Limit /\ \A k \in 1..Len(Fetched) : Fetched[k].at <= row.at
<1> DEFINE n == Len(events)
           From == {i \in 1..n : SinceCursor(events[i])}
           last == Min({First + Limit - 1, n})
<1>1. /\ n \in Nat /\ DOMAIN events = 1..n /\ Limit \in Nat /\ Limit >= 1
      /\ \A i \in 1..n : events[i] \in Event /\ events[i].at \in Nat
      /\ \A i, j \in 1..n : i < j => events[i].at <= events[j].at
  <2>1. events \in Seq(Event) /\ Sorted(events)
    BY DEF TablesOK
  <2>2. n \in Nat /\ DOMAIN events = 1..n
    BY <2>1
  <2>3. \A i \in 1..n : events[i] \in Event /\ events[i].at \in Nat
    <3>1. \A e \in Event : e.at \in Nat
      BY DEF Event
    <3> QED
      BY <2>1, <3>1
  <2>4. Limit \in Nat /\ Limit >= 1
    BY RelayAssumption
  <2> QED
    BY <2>1, <2>2, <2>3, <2>4 DEF Sorted
<1>2. /\ First \in From \cup {n + 1} /\ First \in 1..(n + 1)
      /\ \A i \in From : First <= i
  <2> DEFINE T == From \cup {n + 1}
  <2>1. T \in SUBSET Int /\ T # {} /\ T \subseteq 1..(n + 1)
    BY <1>1
  <2>2. IsFiniteSet(T)
    <3>1. IsFiniteSet(1..(n + 1))
      BY <1>1, FS_Interval
    <3> HIDE DEF T
    <3> QED
      BY <2>1, <3>1, FS_Subset
  <2>3. First = Min(T)
    BY DEF First
  <2>4. Min(T) \in T /\ \A x \in T : Min(T) <= x
    <3> HIDE DEF T
    <3> QED
      BY <2>1, <2>2, FiniteMin
  <2> QED
    BY <2>1, <2>3, <2>4
<1>3. last = (IF First + Limit - 1 <= n THEN First + Limit - 1 ELSE n) /\ last \in Int
  <2>1. First + Limit - 1 \in Int /\ n \in Int
    BY <1>1, <1>2
  <2> HIDE DEF n
  <2> QED
    BY <2>1, MinOfTwo
<1>4. Fetched = SubSeq(events, First, last)
  BY DEF Fetched
<1> HIDE DEF last, n
<1>5. /\ Fetched \in Seq(Event) /\ Len(Fetched) = last - First + 1
      /\ \A k \in 1..(last - First + 1) : Fetched[k] = events[First + k - 1]
  <2>1. events \in Seq(Event) /\ First \in 1..(n + 1) /\ last \in (First - 1)..n
    BY <1>1, <1>2, <1>3 DEF TablesOK
  <2>2. \A i \in First..last : events[i] \in Event
    BY <1>1, <2>1
  <2> QED
    BY <1>1, <1>4, <2>1, <2>2, SubSeqProperties
<1>6. \A i \in 1..n : events[i].at >= saved.cursor <=> i >= First
  <2>1. ASSUME NEW i \in 1..n, i >= First PROVE events[i].at >= saved.cursor
    <3>1. First \in From
      BY <1>1, <1>2, <2>1
    <3>2. events[First].at >= saved.cursor /\ First \in 1..n
      BY <3>1 DEF SinceCursor
    <3> QED
      BY <1>1, <2>1, <3>2
  <2>2. ASSUME NEW i \in 1..n, events[i].at >= saved.cursor PROVE i >= First
    BY <1>1, <1>2, <2>2 DEF SinceCursor
  <2> QED
    BY <2>1, <2>2
<1>7. \A k \in 1..Len(Fetched) : First + k - 1 \in First..last /\ First + k - 1 \in 1..n
  <2>1. First \in Nat /\ First >= 1 /\ last \in Int /\ last <= n
    BY <1>1, <1>2, <1>3
  <2>2. Len(Fetched) = last - First + 1
    BY <1>5
  <2> QED
    BY <1>1, <2>1, <2>2
<1>8. Sorted(Fetched)
  BY <1>1, <1>2, <1>5, <1>7 DEF Sorted
<1>9. Len(Fetched) \in 0..Limit
  BY <1>1, <1>2, <1>3, <1>5
<1>10. \A k \in 1..Len(Fetched) : Fetched[k] \in Rows /\ Fetched[k].at >= saved.cursor
  <2>1. ASSUME NEW k \in 1..Len(Fetched)
        PROVE  Fetched[k] \in Rows /\ Fetched[k].at >= saved.cursor
    <3> DEFINE i == First + k - 1
    <3>1. i \in 1..n /\ i >= First
      BY <1>2, <1>7
    <3>2. Fetched[k] = events[i]
      BY <1>5
    <3> HIDE DEF i
    <3> QED
      BY <1>1, <1>6, <3>1, <3>2 DEF Rows, ToSet
  <2> QED
    BY <2>1
<1>11. ASSUME NEW row \in Rows, row.at >= saved.cursor
       PROVE  \/ row \in ToSet(Fetched)
              \/ Len(Fetched) = Limit /\ \A k \in 1..Len(Fetched) : Fetched[k].at <= row.at
  <2>1. PICK i \in 1..n : row = events[i]
    BY <1>1 DEF Rows, ToSet
  <2>2. i >= First
    BY <1>6, <1>11, <2>1
  <2>3. CASE i <= last
    <3>1. i - First + 1 \in 1..Len(Fetched) /\ First + (i - First + 1) - 1 = i
      BY <1>1, <1>2, <1>3, <1>5, <2>2, <2>3
    <3>2. Fetched[i - First + 1] = events[i]
      BY <1>5, <3>1
    <3>3. DOMAIN Fetched = 1..Len(Fetched)
      BY <1>5
    <3> QED
      BY <2>1, <3>1, <3>2, <3>3 DEF ToSet
  <2>4. CASE i > last
    <3>1. last = First + Limit - 1 /\ Len(Fetched) = Limit
      BY <1>1, <1>2, <1>3, <1>5, <2>1, <2>4
    <3>2. ASSUME NEW k \in 1..Len(Fetched) PROVE Fetched[k].at <= row.at
      <4>1. First + k - 1 \in 1..n /\ First + k - 1 < i
        BY <1>1, <1>2, <1>3, <1>7, <2>4
      <4> QED
        BY <1>1, <1>5, <2>1, <4>1
    <3> QED
      BY <3>1, <3>2
  <2> QED
    BY <1>1, <1>3, <2>3, <2>4
<1> QED
  BY <1>5, <1>8, <1>9, <1>10, <1>11

-----------------------------------------------------------------------------
(* The steps of the relay. *)

LEMMA KeysOfFirst ==
  ASSUME NEW R, NEW b \in Seq(R), NEW d \in 0..Len(b)
  PROVE  /\ Keys(ToSet(SubSeq(b, 1, d))) = {b[i].key : i \in 1..d}
         /\ SubSeq(b, 1, d) \in Seq(R) /\ Len(SubSeq(b, 1, d)) = d
         /\ \A i \in 1..d : SubSeq(b, 1, d)[i] = b[i]
<1>1. d \in Nat /\ \A i \in 1..d : b[i] \in R
  OBVIOUS
<1>2. /\ SubSeq(b, 1, d) \in Seq(R) /\ Len(SubSeq(b, 1, d)) = d
      /\ \A i \in 1..d : SubSeq(b, 1, d)[i] = b[i]
  BY <1>1
<1>3. DOMAIN SubSeq(b, 1, d) = 1..d
  BY <1>1, <1>2
<1>4. Keys(ToSet(SubSeq(b, 1, d))) = {b[i].key : i \in 1..d}
  BY <1>2, <1>3 DEF Keys, ToSet
<1> QED
  BY <1>2, <1>4

RelayMeans ==
    /\ Len(pass.batch) \in Nat /\ pass.done \in Nat /\ saved.cursor \in Int
    /\ \A i \in 1..Len(pass.batch) : pass.batch[i] \in Fetchable /\ pass.batch[i].at \in Nat
    /\ DeliveredIds = saved.ids \cup {pass.batch[i].key : i \in 1..pass.done}
    /\ ToSet(pass.batch) = {pass.batch[i] : i \in 1..Len(pass.batch)}
    /\ Latest \in Int /\ Latest >= saved.cursor
    /\ \A i \in 1..Len(pass.batch) : pass.batch[i].at <= Latest
    /\ Latest # saved.cursor => \E i \in 1..Len(pass.batch) : Latest = pass.batch[i].at

(* What the relay's state means for its operators.                         *)
LEMMA RelayFacts == RelayOK => RelayMeans
<1> SUFFICES ASSUME RelayOK PROVE RelayMeans
  OBVIOUS
<1>1. /\ pass.batch \in Seq(Fetchable) /\ pass.done \in 0..Len(pass.batch)
      /\ saved.cursor \in Int
  BY DEF RelayOK
<1>2. \A e \in Fetchable : e.at \in Nat /\ e.at \in Int
  BY DEF Fetchable
<1>3. Latest = Max({saved.cursor} \cup Ats(ToSet(pass.batch)))
  BY DEF Latest, Ats
<1>4. DeliveredIds = saved.ids \cup {pass.batch[i].key : i \in 1..pass.done}
  BY <1>1, KeysOfFirst DEF DeliveredIds, Handled
<1>5. /\ Latest \in Int /\ Latest >= saved.cursor
      /\ \A i \in 1..Len(pass.batch) : pass.batch[i].at <= Latest
      /\ Latest # saved.cursor => \E i \in 1..Len(pass.batch) : Latest = pass.batch[i].at
  <2> DEFINE batch == pass.batch
             c == saved.cursor
             latest == Latest
  <2>1. \A r \in Fetchable : r.at \in Int
    BY <1>2
  <2>2. batch \in Seq(Fetchable) /\ c \in Int /\ latest = Max({c} \cup Ats(ToSet(batch)))
    BY <1>1, <1>3
  <2> HIDE DEF batch, c, latest
  <2>3. /\ latest \in Int /\ latest >= c
        /\ \A i \in 1..Len(batch) : batch[i].at <= latest
        /\ latest # c => \E i \in 1..Len(batch) : latest = batch[i].at
    BY <2>1, <2>2, LatestOf
  <2> QED
    BY <2>3 DEF batch, c, latest
<1>6. ToSet(pass.batch) = {pass.batch[i] : i \in 1..Len(pass.batch)}
  BY <1>1 DEF ToSet
<1> QED
  BY <1>1, <1>2, <1>4, <1>5, <1>6 DEF RelayMeans

LEMMA RelayFactsLater == RelayOK' => RelayMeans'
  BY RelayFacts, PTL

(* The next event to send.                                                 *)
LEMMA NextUnsent ==
  ASSUME RelayOK, Sending
  PROVE  /\ Min(Unsent) \in (pass.done + 1)..Len(pass.batch)
         /\ NextKey \notin DeliveredIds
         /\ \A i \in 1..(Min(Unsent) - 1) : pass.batch[i].key \in DeliveredIds
<1>1. /\ Len(pass.batch) \in Nat /\ pass.done \in Nat
      /\ DeliveredIds = saved.ids \cup {pass.batch[i].key : i \in 1..pass.done}
  BY RelayFacts DEF RelayMeans
<1>2. Unsent \in SUBSET Int /\ Unsent # {} /\ Unsent \subseteq (pass.done + 1)..Len(pass.batch)
  BY <1>1 DEF Sending, Unsent
<1>3. IsFiniteSet(Unsent)
  <2>1. IsFiniteSet((pass.done + 1)..Len(pass.batch))
    BY <1>1, FS_Interval
  <2> QED
    BY <1>2, <2>1, FS_Subset
<1>4. Min(Unsent) \in Unsent /\ \A i \in Unsent : Min(Unsent) <= i
  BY <1>2, <1>3, FiniteMin
<1> DEFINE m == Min(Unsent)
<1>5. m \in (pass.done + 1)..Len(pass.batch) /\ pass.batch[m].key \notin DeliveredIds
  BY <1>4 DEF Unsent
<1>6. ASSUME NEW i \in 1..(m - 1) PROVE pass.batch[i].key \in DeliveredIds
  <2>1. CASE i <= pass.done
    BY <1>1, <2>1
  <2>2. CASE i > pass.done
    <3>1. i \notin Unsent /\ i \in (pass.done + 1)..Len(pass.batch)
      BY <1>1, <1>2, <1>4, <1>5, <2>2
    <3> QED
      BY <3>1 DEF Unsent
  <2> QED
    BY <1>1, <2>1, <2>2
<1> QED
  BY <1>5, <1>6 DEF NextKey

(* A relay that has sent a key, or has it in its file, counts it.          *)
LEMMA Counted ==
  ASSUME NEW s, NEW t, NEW key, \A k \in DOMAIN s : s[k] \in Nat,
         t = [k \in DOMAIN s \cup {key} |->
                (IF k \in DOMAIN s THEN s[k] ELSE 0) + (IF k = key THEN 1 ELSE 0)]
  PROVE  /\ DOMAIN t = DOMAIN s \cup {key} /\ t = [k \in DOMAIN t |-> t[k]]
         /\ \A k \in DOMAIN t : t[k] \in Nat
         /\ \A k \in DOMAIN s \ {key} : t[k] = s[k]
         /\ t[key] = (IF key \in DOMAIN s THEN s[key] ELSE 0) + 1
  OBVIOUS

(* Between passes nothing is handled and nothing was seen but the cursor.   *)
LEMMA NoPassMeans ==
  ASSUME saved.cursor \in Nat \/ saved = Torn,
         saved = [cursor |-> saved.cursor, ids |-> saved.ids] /\ saved.cursor \in Int,
         pass = NoPass,
         sent = [key \in DOMAIN sent |-> sent[key]] /\ \A key \in DOMAIN sent : sent[key] \in Nat
  PROVE  RelayOK /\ Latest = saved.cursor /\ DeliveredIds = saved.ids
<1>1. /\ pass.step = "idle" /\ pass.batch = <<>> /\ pass.done = 0 /\ Len(pass.batch) = 0
      /\ pass = [step |-> pass.step, batch |-> pass.batch, done |-> pass.done]
  BY DEF NoPass
<1>2. <<>> \in Seq(Fetchable) /\ Sorted(<<>>)
  BY DEF Sorted
<1>3. RelayOK
  BY <1>1, <1>2 DEF RelayOK
<1>4. RelayMeans
  BY <1>3, RelayFacts
<1> QED
  BY <1>1, <1>3, <1>4 DEF RelayMeans

LEMMA NoPassLater ==
    ( /\ saved.cursor \in Nat \/ saved = Torn
      /\ saved = [cursor |-> saved.cursor, ids |-> saved.ids] /\ saved.cursor \in Int
      /\ pass = NoPass
      /\ sent = [key \in DOMAIN sent |-> sent[key]] /\ \A key \in DOMAIN sent : sent[key] \in Nat )'
    => (RelayOK /\ Latest = saved.cursor /\ DeliveredIds = saved.ids)'
  BY NoPassMeans, PTL

TablesSame == UNCHANGED <<events, late>>

(* The rows that a pass begins with, and the ids it knows.                 *)
LEMMA PassBegins ==
  ASSUME RelayInv, RelayOK', saved' = saved, sent' = sent, TablesSame, faults' = faults,
         pass.done = 0, pass'.done = 0, NoGap', WholeFetch'
  PROVE  RelayInv'
<1>1. DeliveredIds' = saved.ids /\ DeliveredIds = saved.ids
  <2>1. DeliveredIds' = saved'.ids \cup {pass'.batch[i].key : i \in 1..pass'.done}
    BY RelayFactsLater DEF RelayMeans
  <2>2. DeliveredIds = saved.ids \cup {pass.batch[i].key : i \in 1..pass.done}
    BY RelayFacts DEF RelayMeans, RelayInv
  <2> QED
    BY <2>1, <2>2
<1>2. DeliveredWasSent' /\ IdsAtCursor' /\ PassedWasSent'
  BY <1>1 DEF RelayInv, DeliveredWasSent, IdsAtCursor, PassedWasSent, WasSent, Rows, TablesSame
<1>3. SendsBounded'
  <2>1. \A key : Delivered(key)' <=> Delivered(key)
    BY <1>1 DEF Delivered, Rows, TablesSame
  <2> QED
    BY <2>1 DEF RelayInv, SendsBounded
<1> QED
  BY <1>2, <1>3 DEF RelayInv

LEMMA FetchStep ==
  ASSUME TablesOK, RelayInv, RelayFetches, TablesSame, unread' = unread, faults' = faults
  PROVE  RelayInv'
<1>1. /\ pass.step = "idle" /\ saved' = saved /\ sent' = sent /\ Rows' = Rows
      /\ pass' = [step |-> "fetched", batch |-> Fetched, done |-> 0]
      /\ saved.cursor \in Nat /\ RelayOK
  BY DEF RelayFetches, TablesSame, RelayInv, RelayOK, Torn, Rows
<1>2. pass.done = 0
  <2>1. pass.batch = <<>> /\ pass.done \in 0..Len(pass.batch)
    BY <1>1 DEF RelayOK
  <2> QED
    BY <2>1
<1>3. /\ Fetched \in Seq(Event) /\ Sorted(Fetched) /\ Len(Fetched) \in 0..Limit
      /\ \A k \in 1..Len(Fetched) : Fetched[k] \in Rows /\ Fetched[k].at >= saved.cursor
      /\ \A row \in Rows : row.at >= saved.cursor =>
           \/ row \in ToSet(Fetched)
           \/ Len(Fetched) = Limit /\ \A k \in 1..Len(Fetched) : Fetched[k].at <= row.at
  BY <1>1, FetchedIsNext
<1>4. Fetched \in Seq(Fetchable)
  <2>1. Event \subseteq Fetchable
    BY DEF Event, Fetchable
  <2> QED
    BY <1>3, <2>1, SeqMonotonic
<1>5. RelayOK'
  <2>1. Len(Fetched) \in Nat
    BY <1>3
  <2> QED
    BY <1>1, <1>3, <1>4, <2>1 DEF RelayOK
<1>6. NoGap'
  <2>1. /\ Latest' \in Int /\ Latest' >= saved.cursor
        /\ Latest' # saved.cursor => \E k \in 1..Len(Fetched) : Latest' = Fetched[k].at
    BY <1>1, <1>5, RelayFactsLater DEF RelayMeans
  <2>2. ASSUME NEW row \in Rows, row.at >= saved.cursor, row.at < Latest'
        PROVE  row \in ToSet(Fetched)
    <3>1. row.at \in Nat
      BY <2>2, RowsTyped DEF TablesOK
    <3>2. PICK k \in 1..Len(Fetched) : Latest' = Fetched[k].at
      BY <1>1, <2>1, <2>2, <3>1
    <3>3. Fetched[k].at \in Nat
      BY <1>3, RowsTyped DEF TablesOK
    <3> QED
      BY <1>3, <2>2, <3>1, <3>2, <3>3
  <2> QED
    BY <1>1, <2>2 DEF NoGap, Taken
<1>7. WholeFetch'
  <2>1. Limit \in Nat /\ (Len(Fetched) < Limit => Len(Fetched) # Limit)
    BY <1>3, RelayAssumption
  <2> QED
    BY <1>1, <1>3, <2>1 DEF WholeFetch, Taken
<1> QED
  BY <1>1, <1>2, <1>5, <1>6, <1>7, PassBegins

(* An error comes after every event the pass could have had, or the pass is *)
(* full; what came since it asked for events is passed by the error alone.  *)
LEMMA ErrorsStep ==
  ASSUME TablesOK, RelayInv, RelayFetchesErrors, ObserveErrors, UNCHANGED events, faults' = faults
  PROVE  RelayInv'
<1>1. PICK batch \in Merged(pass.batch, Errors) :
        pass' = IF batch = <<>> THEN NoPass
                ELSE [step |-> "sending", batch |-> batch, done |-> 0]
  BY DEF RelayFetchesErrors
<1>2. /\ pass.step = "fetched" /\ saved' = saved /\ sent' = sent /\ Rows' = Rows
      /\ RelayOK /\ RelayMeans /\ saved.cursor \in Nat /\ pass.done = 0 /\ TablesSame
  BY RelayFacts DEF RelayFetchesErrors, ObserveErrors, TablesSame, RelayInv, RelayOK, Rows
<1>3. /\ Errors \in SUBSET Fetchable /\ IsFiniteSet(Errors)
      /\ \A row \in Errors : row.key = Health /\ row.at >= saved.cursor
      /\ Errors # {} => Len(pass.batch) < Limit
  <2> DEFINE row == [key |-> Health, at |-> health]
  <2>1. Errors = {row} \/ Errors = {}
    BY DEF Errors
  <2>2. Errors # {} => health # NoError /\ SinceCursor(row) /\ Len(pass.batch) < Limit
    BY DEF Errors
  <2>3. IsFiniteSet({row}) /\ IsFiniteSet({})
    BY FS_Singleton, FS_EmptySet
  <2>4. Errors # {} => row \in Fetchable /\ row.at >= saved.cursor
    BY <2>2 DEF TablesOK, Fetchable, SinceCursor
  <2>5. row.key = Health
    OBVIOUS
  <2> HIDE DEF row
  <2>6. IsFiniteSet(Errors)
    BY <2>1, <2>3
  <2>7. Errors \in SUBSET Fetchable
    BY <2>1, <2>4
  <2>8. \A r \in Errors : r.key = Health /\ r.at >= saved.cursor
    BY <2>1, <2>4, <2>5
  <2> QED
    BY <2>2, <2>6, <2>7, <2>8
<1>4. batch \in Seq(Fetchable) /\ Sorted(batch) /\ ToSet(batch) = ToSet(pass.batch) \cup Errors
  <2>1. \A r \in Fetchable : r.at \in Int
    BY DEF Fetchable
  <2>2. pass.batch \in Seq(Fetchable) /\ Sorted(pass.batch)
    BY <1>2 DEF RelayOK
  <2> QED
    BY <1>1, <1>3, <2>1, <2>2, MergedKeepsOrder
<1>5. \A i \in 1..Len(batch) : batch[i] \in ToSet(batch)
  BY <1>4 DEF ToSet
<1>6. ASSUME NEW row \in ToSet(batch)
      PROVE  (row \in Rows \/ row.key = Health) /\ row.at >= saved.cursor
  <2>1. CASE row \in ToSet(pass.batch)
    BY <1>2, <2>1 DEF RelayOK, RelayMeans
  <2>2. CASE row \in Errors
    BY <1>3, <2>2
  <2> QED
    BY <1>4, <1>6, <2>1, <2>2
<1>7. CASE batch = <<>>
  <2>1. pass' = NoPass
    BY <1>1, <1>7
  <2>2. RelayOK' /\ Latest' = saved.cursor /\ pass'.done = 0 /\ pass'.step = "idle"
    BY <1>2, <2>1, NoPassLater DEF RelayOK, NoPass
  <2>3. NoGap' /\ WholeFetch'
    <3>1. \A row \in Rows : ~ (row.at >= saved.cursor /\ row.at < saved.cursor)
      BY <1>2, RowsTyped DEF TablesOK
    <3> QED
      BY <1>2, <2>2, <3>1 DEF NoGap, WholeFetch
  <2> QED
    BY <1>2, <2>2, <2>3, PassBegins
<1>8. CASE batch # <<>>
  <2>1. pass' = [step |-> "sending", batch |-> batch, done |-> 0]
    BY <1>1, <1>8
  <2>2. RelayOK'
    <3>1. Len(batch) \in Nat
      BY <1>4
    <3> QED
      BY <1>2, <1>4, <1>5, <1>6, <2>1, <3>1 DEF RelayOK
  <2>3. ASSUME NEW row \in Rows, row.at >= saved.cursor, row.at < Latest'
        PROVE  Taken(row)'
    <3>1. row.at \in Nat
      BY <2>3, RowsTyped DEF TablesOK
    <3>2. Taken(row)
      <4>1. CASE Errors # {}
        BY <1>2, <1>3, <2>3, <4>1 DEF RelayInv, WholeFetch
      <4>2. CASE Errors = {}
        <5>1. /\ Latest' \in Int
              /\ Latest' # saved.cursor => \E i \in 1..Len(batch) : Latest' = batch[i].at
          BY <1>2, <2>1, <2>2, RelayFactsLater DEF RelayMeans
        <5>2. PICK i \in 1..Len(batch) : Latest' = batch[i].at
          BY <1>2, <2>3, <3>1, <5>1
        <5>3. batch[i] \in ToSet(pass.batch)
          BY <1>4, <1>5, <4>2
        <5>4. batch[i].at <= Latest /\ Latest \in Int
          BY <1>2, <5>3 DEF RelayMeans
        <5>5. row.at < Latest
          BY <2>3, <3>1, <5>1, <5>2, <5>4
        <5> QED
          BY <2>3, <5>5 DEF RelayInv, NoGap
      <4> QED
        BY <4>1, <4>2
    <3>3. row.key \in unread => row.key \in unread'
      BY <2>1, <2>3 DEF ObserveErrors, Passable, Keys
    <3> QED
      BY <1>4, <2>1, <3>2, <3>3 DEF Taken
  <2>4. NoGap' /\ WholeFetch'
    BY <1>2, <2>1, <2>3 DEF NoGap, WholeFetch
  <2> QED
    BY <1>2, <2>1, <2>2, <2>4, PassBegins
<1> QED
  BY <1>7, <1>8

(* A message goes out, and perhaps its answer is lost: the pass is at d.    *)
LEMMA PassMoves ==
  ASSUME RelayInv, TablesOK, pass.step = "sending", TablesSame, unread' = unread,
         saved' = saved,
         NEW d \in pass.done..Len(pass.batch), NEW step \in {"sending", "stopped"},
         pass' = [step |-> step, batch |-> pass.batch, done |-> d],
         DOMAIN sent \subseteq DOMAIN sent',
         sent' = [k \in DOMAIN sent' |-> sent'[k]], \A k \in DOMAIN sent' : sent'[k] \in Nat,
         \A i \in 1..d : pass.batch[i].key \in DOMAIN sent'
  PROVE  /\ RelayOK' /\ NoGap' /\ WholeFetch'
         /\ DeliveredWasSent' /\ IdsAtCursor' /\ PassedWasSent'
         /\ DeliveredIds' = saved.ids \cup {pass.batch[i].key : i \in 1..d}
         /\ \A key : Delivered(key) => Delivered(key)'
<1>1. /\ RelayMeans /\ RelayOK
      /\ Rows' = Rows /\ late' = late /\ Latest' = Latest /\ pass'.batch = pass.batch
      /\ pass'.done = d /\ pass'.step = step
  BY RelayFacts DEF RelayInv, TablesSame, Rows, Latest
<1>2. RelayOK'
  BY <1>1 DEF RelayOK, RelayMeans
<1>3. DeliveredIds' = saved.ids \cup {pass.batch[i].key : i \in 1..d}
  BY <1>1, <1>2, RelayFactsLater DEF RelayMeans
<1>4. NoGap' /\ WholeFetch' /\ IdsAtCursor' /\ PassedWasSent'
  BY <1>1 DEF RelayInv, NoGap, WholeFetch, Taken, IdsAtCursor, PassedWasSent, WasSent
<1>5. DeliveredWasSent'
  <2>1. saved.ids \subseteq DOMAIN sent
    BY DEF RelayInv, DeliveredWasSent, DeliveredIds
  <2> QED
    BY <1>3, <2>1 DEF DeliveredWasSent
<1>6. DeliveredIds \subseteq DeliveredIds'
  <2>1. 1..pass.done \subseteq 1..d
    BY <1>1 DEF RelayMeans
  <2> QED
    BY <1>1, <1>3, <2>1 DEF RelayMeans
<1>7. \A key : Delivered(key) => Delivered(key)'
  BY <1>1, <1>6 DEF Delivered
<1> QED
  BY <1>2, <1>3, <1>4, <1>5, <1>7

(* An event that is sent was not known as sent, unless it is the health row. *)
LEMMA NextIsNew ==
  ASSUME RelayInv, TablesOK, Sending, NextKey # Health
  PROVE  ~Delivered(NextKey)
<1> DEFINE m == Min(Unsent)
<1>1. RelayMeans /\ RelayOK
  BY RelayFacts DEF RelayInv
<1>2. m \in (pass.done + 1)..Len(pass.batch) /\ NextKey \notin DeliveredIds
  BY <1>1, NextUnsent
<1>3. m \in 1..Len(pass.batch) /\ NextKey = pass.batch[m].key
  BY <1>1, <1>2 DEF RelayMeans, NextKey
<1>4. pass.batch[m] \in Rows /\ pass.batch[m].at >= saved.cursor
  BY <1>1, <1>3 DEF RelayOK
<1>5. ASSUME NEW row \in Rows, row.key = NextKey PROVE ~ (row.at < saved.cursor)
  <2>1. row = pass.batch[m]
    BY <1>3, <1>4, <1>5 DEF TablesOK
  <2>2. row.at \in Nat /\ saved.cursor \in Int
    BY <1>1, RowsTyped DEF TablesOK, RelayMeans
  <2> QED
    BY <1>4, <2>1, <2>2
<1> QED
  BY <1>2, <1>5 DEF Delivered

(* One more send stays within the bound if it was the first, or failed.    *)
LEMMA OneMoreSend ==
  ASSUME RelayInv, TablesOK, Sending, NEW key, key = NextKey, Count(NextKey),
         \/ faults' = faults /\ Delivered(key)'
         \/ faults' = faults + 1,
         \A k : Delivered(k) => Delivered(k)'
  PROVE  SendsBounded'
<1>1. /\ faults \in Nat /\ \A k \in DOMAIN sent : sent[k] \in Nat
      /\ \A k \in DOMAIN sent \ {Health} : sent[k] <= faults + (IF Delivered(k) THEN 1 ELSE 0)
  BY DEF RelayInv, RelayOK, SendsBounded, TablesOK
<1>2. /\ DOMAIN sent' = DOMAIN sent \cup {key}
      /\ \A k \in DOMAIN sent \ {key} : sent'[k] = sent[k]
      /\ sent'[key] = (IF key \in DOMAIN sent THEN sent[key] ELSE 0) + 1
  BY <1>1, Counted DEF Count
<1>3. key # Health => ~Delivered(key)
  BY NextIsNew
<1>4. ASSUME NEW k \in DOMAIN sent' \ {Health}
      PROVE  sent'[k] <= faults' + (IF Delivered(k)' THEN 1 ELSE 0)
  <2>1. CASE k = key
    <3>1. sent'[k] <= faults + 1
      BY <1>1, <1>2, <1>3, <1>4, <2>1
    <3>2. (faults' = faults /\ Delivered(k)') \/ faults' = faults + 1
      BY <2>1
    <3>3. sent'[k] \in Nat
      BY <1>1, <1>2, <2>1
    <3> QED
      BY <1>1, <3>1, <3>2, <3>3
  <2>2. CASE k # key
    <3>1. k \in DOMAIN sent \ {Health} /\ sent'[k] = sent[k] /\ sent[k] \in Nat
      BY <1>1, <1>2, <1>4, <2>2
    <3>2. sent[k] <= faults + (IF Delivered(k) THEN 1 ELSE 0)
      BY <1>1, <3>1
    <3>3. faults' \in Nat /\ faults <= faults'
      BY <1>1
    <3> QED
      BY <1>1, <3>1, <3>2, <3>3
  <2> QED
    BY <2>1, <2>2
<1> QED
  BY <1>4 DEF SendsBounded

LEMMA SendStep ==
  ASSUME TablesOK, RelayInv, Send, TablesSame, unread' = unread, faults' = faults
  PROVE  RelayInv'
<1> DEFINE m == Min(Unsent)
<1>1. /\ Sending /\ pass.step = "sending" /\ Count(NextKey) /\ saved' = saved
      /\ pass' = [pass EXCEPT !.done = m]
  BY DEF Send, Sending
<1>2. RelayMeans /\ RelayOK /\ DeliveredWasSent
  BY RelayFacts DEF RelayInv
<1>3. /\ m \in (pass.done + 1)..Len(pass.batch) /\ NextKey = pass.batch[m].key
      /\ \A i \in 1..(m - 1) : pass.batch[i].key \in DeliveredIds
  BY <1>1, <1>2, NextUnsent DEF NextKey
<1> HIDE DEF m
<1>4. m \in pass.done..Len(pass.batch) /\ m \in 1..m /\ m \in Nat
  BY <1>2, <1>3 DEF RelayMeans
<1>5. pass' = [step |-> "sending", batch |-> pass.batch, done |-> m]
  BY <1>1, <1>2 DEF RelayOK
<1>6. /\ DOMAIN sent' = DOMAIN sent \cup {NextKey} /\ sent' = [k \in DOMAIN sent' |-> sent'[k]]
      /\ \A k \in DOMAIN sent' : sent'[k] \in Nat
  <2>1. \A k \in DOMAIN sent : sent[k] \in Nat
    BY <1>2 DEF RelayOK
  <2> QED
    BY <1>1, <2>1, Counted DEF Count
<1>7. \A i \in 1..m : pass.batch[i].key \in DOMAIN sent'
  <2>1. \A i \in 1..m : i \in 1..(m - 1) \/ i = m
    BY <1>4
  <2> QED
    BY <1>2, <1>3, <1>6, <2>1 DEF DeliveredWasSent
<1>8. /\ RelayOK' /\ NoGap' /\ WholeFetch' /\ DeliveredWasSent' /\ IdsAtCursor' /\ PassedWasSent'
      /\ DeliveredIds' = saved.ids \cup {pass.batch[i].key : i \in 1..m}
      /\ \A key : Delivered(key) => Delivered(key)'
  BY <1>1, <1>4, <1>5, <1>6, <1>7, PassMoves
<1>9. PICK key : key = NextKey
  OBVIOUS
<1>10. Delivered(key)'
  <2>1. key \in DeliveredIds'
    BY <1>3, <1>4, <1>8, <1>9
  <2> QED
    BY <2>1 DEF Delivered
<1>11. SendsBounded'
  BY <1>1, <1>8, <1>9, <1>10, OneMoreSend
<1> QED
  BY <1>8, <1>11 DEF RelayInv

LEMMA SendFailsStep ==
  ASSUME TablesOK, RelayInv, SendFails, TablesSame, unread' = unread
  PROVE  RelayInv'
<1> DEFINE m == Min(Unsent)
<1>1. /\ Sending /\ pass.step = "sending" /\ saved' = saved
      /\ Count(NextKey) \/ sent' = sent
      /\ pass' = [pass EXCEPT !.step = "stopped", !.done = m - 1]
      /\ faults' = faults + 1 /\ faults \in Nat
  BY DEF SendFails, Sending, Breaks, Fault, TablesOK
<1>2. RelayMeans /\ RelayOK /\ DeliveredWasSent
  BY RelayFacts DEF RelayInv
<1>3. /\ m \in (pass.done + 1)..Len(pass.batch)
      /\ \A i \in 1..(m - 1) : pass.batch[i].key \in DeliveredIds
  BY <1>1, <1>2, NextUnsent
<1> HIDE DEF m
<1> DEFINE d == m - 1
<1>4. d \in pass.done..Len(pass.batch)
  BY <1>2, <1>3 DEF RelayMeans
<1>5. pass' = [step |-> "stopped", batch |-> pass.batch, done |-> d]
  BY <1>1, <1>2 DEF RelayOK
<1>6. /\ DOMAIN sent \subseteq DOMAIN sent' /\ sent' = [k \in DOMAIN sent' |-> sent'[k]]
      /\ \A k \in DOMAIN sent' : sent'[k] \in Nat
  <2>1. \A k \in DOMAIN sent : sent[k] \in Nat
    BY <1>2 DEF RelayOK
  <2>2. CASE Count(NextKey)
    BY <2>1, <2>2, Counted DEF Count
  <2>3. CASE sent' = sent
    BY <1>2, <2>1, <2>3 DEF RelayOK
  <2> QED
    BY <1>1, <2>2, <2>3
<1>7. \A i \in 1..d : pass.batch[i].key \in DOMAIN sent'
  BY <1>2, <1>3, <1>6 DEF DeliveredWasSent
<1> HIDE DEF d
<1>8. /\ RelayOK' /\ NoGap' /\ WholeFetch' /\ DeliveredWasSent' /\ IdsAtCursor' /\ PassedWasSent'
      /\ \A key : Delivered(key) => Delivered(key)'
  BY <1>1, <1>4, <1>5, <1>6, <1>7, PassMoves
<1>9. SendsBounded'
  <2>1. CASE Count(NextKey)
    BY <1>1, <1>8, <2>1, OneMoreSend
  <2>2. CASE sent' = sent
    <3>1. ASSUME NEW k \in DOMAIN sent \ {Health}
          PROVE  sent[k] <= faults' + (IF Delivered(k)' THEN 1 ELSE 0)
      <4>1. sent[k] \in Nat /\ sent[k] <= faults + (IF Delivered(k) THEN 1 ELSE 0)
        BY <1>2 DEF RelayInv, SendsBounded, RelayOK
      <4> QED
        BY <1>1, <1>8, <4>1
    <3> QED
      BY <2>2, <3>1 DEF SendsBounded
  <2> QED
    BY <1>1, <2>1, <2>2
<1> QED
  BY <1>8, <1>9 DEF RelayInv

(* What a pass leaves behind: everything up to the new cursor was handled.  *)
LEMMA PassOver ==
  ASSUME RelayOK, Over
  PROVE  \E e \in 0..Len(pass.batch) :
           /\ Cursor \in Nat /\ Cursor >= saved.cursor /\ Cursor <= Latest
           /\ \A i \in 1..e : pass.batch[i].key \in DeliveredIds /\ pass.batch[i].at <= Cursor
           /\ Cursor # saved.cursor => \E i \in 1..e : Cursor = pass.batch[i].at
           /\ pass.step = "stopped" => e = pass.done
           /\ pass.step # "stopped" => e = Len(pass.batch)
<1>1. RelayMeans /\ saved.cursor \in Nat
  BY RelayFacts DEF RelayOK, Over
<1>2. /\ pass.batch \in Seq(Fetchable) /\ pass.done \in 0..Len(pass.batch)
      /\ \A r \in Fetchable : r.at \in Int
  BY DEF RelayOK, Fetchable
<1> DEFINE e == IF pass.step = "stopped" THEN pass.done ELSE Len(pass.batch)
           passed == Passed
           c == saved.cursor
           cursor == Cursor
<1>3. e \in 0..Len(pass.batch)
  BY <1>1, <1>2 DEF RelayMeans
<1>4. /\ passed \in Seq(Fetchable) /\ Len(passed) = e
      /\ \A i \in 1..e : passed[i] = pass.batch[i]
  <2>1. CASE pass.step = "stopped"
    BY <1>2, <2>1, KeysOfFirst DEF Passed, Handled
  <2>2. CASE pass.step # "stopped"
    BY <1>2, <2>2 DEF Passed
  <2> QED
    BY <2>1, <2>2
<1>5. \A i \in 1..e : pass.batch[i].key \in DeliveredIds
  <2>1. CASE pass.step = "stopped"
    BY <1>1, <2>1 DEF RelayMeans
  <2>2. CASE pass.step # "stopped"
    <3>1. Unsent = {} /\ e = Len(pass.batch)
      BY <2>2 DEF Over
    <3>2. ASSUME NEW i \in 1..e PROVE pass.batch[i].key \in DeliveredIds
      <4>1. CASE i <= pass.done
        BY <1>1, <4>1 DEF RelayMeans
      <4>2. CASE i > pass.done
        <5>1. i \in (pass.done + 1)..Len(pass.batch)
          BY <1>1, <3>1, <4>2 DEF RelayMeans
        <5> QED
          BY <3>1, <5>1 DEF Unsent
      <4> QED
        BY <1>1, <4>1, <4>2 DEF RelayMeans
    <3> QED
      BY <3>2
  <2> QED
    BY <2>1, <2>2
<1>6. c \in Int
  BY <1>1
<1>7. cursor = Max({c} \cup {passed[i].at : i \in 1..Len(passed)})
  BY DEF Cursor
<1> HIDE DEF passed, c, cursor, e
<1>8. /\ cursor \in Int /\ cursor >= c
      /\ \A i \in 1..Len(passed) : passed[i].at <= cursor
      /\ cursor # c => \E i \in 1..Len(passed) : cursor = passed[i].at
  <2> DEFINE latest == Max({c} \cup Ats(ToSet(passed)))
  <2>1. /\ latest = Max({c} \cup Ats(ToSet(passed))) /\ c \in Int /\ passed \in Seq(Fetchable)
        /\ \A r \in Fetchable : r.at \in Int
    BY <1>2, <1>4, <1>6
  <2> HIDE DEF latest
  <2>2. /\ latest \in Int /\ latest >= c
        /\ \A i \in 1..Len(passed) : passed[i].at <= latest
        /\ latest # c => \E i \in 1..Len(passed) : latest = passed[i].at
        /\ Ats(ToSet(passed)) = {passed[i].at : i \in 1..Len(passed)}
    BY ONLY <2>1, LatestOf
  <2>3. latest = cursor
    BY <1>7, <2>1, <2>2
  <2> QED
    BY <2>2, <2>3
<1>9. cursor <= Latest
  <2>1. Latest \in Int /\ Latest >= c /\ \A i \in 1..e : pass.batch[i].at <= Latest
    BY <1>1, <1>3 DEF RelayMeans, c
  <2> QED
    BY <1>4, <1>6, <1>8, <2>1
<1>10. cursor \in Nat
  BY <1>1, <1>8 DEF c
<1>11. /\ \A i \in 1..e : pass.batch[i].at <= cursor
       /\ cursor # c => \E i \in 1..e : cursor = pass.batch[i].at
  BY <1>4, <1>8
<1>12. e \in 0..Len(pass.batch) /\ (pass.step = "stopped" => e = pass.done)
       /\ (pass.step # "stopped" => e = Len(pass.batch))
  BY <1>3 DEF e
<1>13. cursor = Cursor /\ c = saved.cursor
  BY DEF cursor, c
<1> QED
  BY <1>5, <1>8, <1>9, <1>10, <1>11, <1>12, <1>13

LEMMA SaveStep ==
  ASSUME TablesOK, RelayInv, SaveState, ObservePassed, UNCHANGED events, faults' = faults
  PROVE  RelayInv'
<1>1. /\ RelayMeans /\ RelayOK /\ saved.cursor \in Nat /\ Over
      /\ saved' = [cursor |-> Cursor, ids |-> CursorIds] /\ pass' = NoPass /\ sent' = sent
      /\ Rows' = Rows /\ late \subseteq late'
      /\ \A row \in Rows : row.key \in unread /\ row.at < Cursor => row.key \in late'
  BY RelayFacts DEF RelayInv, RelayOK, SaveState, Over, ObservePassed, Rows, Keys
<1>2. PICK e \in 0..Len(pass.batch) :
        /\ Cursor \in Nat /\ Cursor >= saved.cursor /\ Cursor <= Latest
        /\ \A i \in 1..e : pass.batch[i].key \in DeliveredIds /\ pass.batch[i].at <= Cursor
        /\ Cursor # saved.cursor => \E i \in 1..e : Cursor = pass.batch[i].at
        /\ pass.step = "stopped" => e = pass.done
        /\ pass.step # "stopped" => e = Len(pass.batch)
  BY <1>1, PassOver
<1>3. /\ saved'.cursor = Cursor /\ saved'.ids = CursorIds
      /\ RelayOK' /\ Latest' = Cursor /\ DeliveredIds' = CursorIds
  <2>1. saved'.cursor = Cursor /\ saved'.ids = CursorIds /\ Cursor \in Int
    BY <1>1, <1>2
  <2> QED
    BY <1>1, <1>2, <2>1, NoPassLater DEF RelayOK
<1>4. \A row \in Rows : row.at \in Nat
  BY RowsTyped DEF TablesOK
<1>5. ASSUME NEW row \in Rows, row.at < Cursor PROVE row.key \in DOMAIN sent \/ row.key \in late'
  <2>1. CASE row.at < saved.cursor \/ row.key \in unread
    BY <1>1, <1>5, <2>1 DEF RelayInv, PassedWasSent, WasSent
  <2>2. CASE row.at >= saved.cursor /\ row.key \notin unread
    <3>1. row.at < Latest /\ Cursor # saved.cursor
      BY <1>1, <1>2, <1>4, <1>5, <2>2 DEF RelayMeans
    <3>2. PICK j \in 1..Len(pass.batch) : row = pass.batch[j]
      BY <1>1, <2>2, <3>1 DEF RelayInv, NoGap, Taken, RelayMeans
    <3>3. PICK i \in 1..e : Cursor = pass.batch[i].at
      BY <1>2, <3>1
    <3>4. j < i
      <4>1. i \in 1..Len(pass.batch) /\ pass.batch[i].at \in Nat /\ pass.batch[j].at \in Nat
        BY <1>1, <1>2 DEF RelayMeans
      <4>2. j > i => pass.batch[i].at <= pass.batch[j].at
        BY <1>1, <4>1 DEF RelayOK, Sorted
      <4> QED
        BY <1>1, <1>2, <1>5, <3>2, <3>3, <4>1, <4>2
    <3>5. row.key \in DeliveredIds
      BY <1>1, <1>2, <3>2, <3>3, <3>4 DEF RelayMeans
    <3> QED
      BY <3>5 DEF RelayInv, DeliveredWasSent
  <2> QED
    BY <1>1, <1>4, <2>1, <2>2 DEF RelayMeans
<1>6. PassedWasSent'
  BY <1>1, <1>3, <1>5 DEF PassedWasSent, WasSent
<1>7. NoGap' /\ WholeFetch'
  <2>1. \A row \in Rows : ~ (row.at >= Cursor /\ row.at < Cursor)
    BY <1>2, <1>4
  <2>2. pass'.step = "idle"
    BY <1>1 DEF NoPass
  <2> QED
    BY <1>1, <1>3, <2>1, <2>2 DEF NoGap, WholeFetch
<1>8. CursorIds \subseteq DeliveredIds
  BY <1>1 DEF CursorIds, RelayMeans
<1>9. DeliveredWasSent'
  BY <1>1, <1>3, <1>8 DEF RelayInv, DeliveredWasSent
<1>10. IdsAtCursor'
  <2>1. ASSUME NEW key \in CursorIds, key # Health
        PROVE  \E row \in Rows : row.key = key /\ row.at <= Cursor
    <3>1. CASE key \in saved.ids /\ Cursor = saved.cursor
      BY <2>1, <3>1 DEF RelayInv, IdsAtCursor
    <3>2. CASE \E row \in ToSet(pass.batch) : row.key = key /\ row.at = Cursor
      <4>1. PICK i \in 1..Len(pass.batch) : pass.batch[i].key = key /\ pass.batch[i].at = Cursor
        BY <1>1, <3>2 DEF RelayMeans
      <4>2. pass.batch[i] \in Rows
        BY <1>1, <2>1, <4>1 DEF RelayOK
      <4> QED
        BY <1>2, <4>1, <4>2
    <3> QED
      BY <2>1, <3>1, <3>2 DEF CursorIds
  <2> QED
    BY <1>1, <1>3, <2>1 DEF IdsAtCursor
<1>11. ASSUME NEW key, key # Health, Delivered(key)
       PROVE  Delivered(key)'
  <2>1. CASE \E row \in Rows : row.key = key /\ row.at < Cursor
    BY <1>1, <1>3, <2>1 DEF Delivered
  <2>2. CASE key \in CursorIds
    BY <1>3, <2>2 DEF Delivered
  <2>3. CASE \E row \in Rows : row.key = key /\ row.at < saved.cursor
    BY <1>1, <1>2, <1>4, <2>1, <2>3
  <2>4. CASE key \in saved.ids
    <3>1. CASE Cursor = saved.cursor
      BY <2>2, <2>4, <3>1 DEF CursorIds
    <3>2. CASE Cursor # saved.cursor
      <4>1. PICK row \in Rows : row.key = key /\ row.at <= saved.cursor
        BY <1>11, <2>4 DEF RelayInv, IdsAtCursor
      <4> QED
        BY <1>1, <1>2, <1>4, <2>1, <3>2, <4>1
    <3> QED
      BY <3>1, <3>2
  <2>5. ASSUME NEW i \in 1..pass.done, key = pass.batch[i].key
        PROVE  Delivered(key)'
    <3>1. /\ i \in 1..e /\ i \in 1..Len(pass.batch) /\ pass.batch[i].at <= Cursor
          /\ key \in DeliveredIds /\ pass.batch[i].at \in Nat
      <4>1. pass.done <= e /\ e \in Nat /\ pass.done \in Nat
        BY <1>1, <1>2 DEF RelayOK, RelayMeans
      <4>2. i \in 1..e /\ i \in 1..Len(pass.batch)
        BY <1>1, <1>2, <4>1 DEF RelayMeans
      <4> QED
        BY <1>1, <1>2, <2>5, <4>2 DEF RelayMeans
    <3>2. CASE pass.batch[i].at = Cursor
      <4>1. pass.batch[i] \in ToSet(pass.batch)
        BY <1>1, <3>1 DEF RelayMeans
      <4>2. key \in CursorIds
        BY <2>5, <3>1, <3>2, <4>1 DEF CursorIds
      <4> QED
        BY <2>2, <4>2
    <3>3. CASE pass.batch[i].at < Cursor
      <4>1. pass.batch[i] \in Rows
        BY <1>1, <1>11, <2>5, <3>1 DEF RelayOK
      <4> QED
        BY <2>1, <2>5, <3>3, <4>1
    <3> QED
      BY <1>2, <3>1, <3>2, <3>3
  <2> QED
    BY <1>1, <1>11, <2>3, <2>4, <2>5 DEF Delivered, RelayMeans
<1>12. SendsBounded'
  <2>1. ASSUME NEW k \in DOMAIN sent \ {Health}
        PROVE  sent[k] <= faults + (IF Delivered(k)' THEN 1 ELSE 0)
    <3>1. sent[k] \in Nat /\ sent[k] <= faults + (IF Delivered(k) THEN 1 ELSE 0) /\ faults \in Nat
      BY <1>1 DEF RelayInv, SendsBounded, RelayOK, TablesOK
    <3>2. Delivered(k) => Delivered(k)'
      BY <1>11
    <3> QED
      BY <3>1, <3>2
  <2> QED
    BY <1>1, <2>1 DEF SendsBounded
<1> QED
  BY <1>3, <1>6, <1>7, <1>9, <1>10, <1>12 DEF RelayInv

LEMMA DieStep ==
  ASSUME TablesOK, RelayInv, RelayDies, TablesSame
  PROVE  RelayInv'
<1>1. /\ RelayOK /\ saved' \in {saved, Torn} /\ pass' = NoPass /\ sent' = sent
      /\ Rows' = Rows /\ late' = late /\ faults' = faults + 1 /\ faults \in Nat
  BY DEF RelayInv, RelayDies, Fault, TablesSame, Rows, TablesOK
<1>2. /\ saved'.cursor \in Nat \/ saved' = Torn
      /\ saved' = [cursor |-> saved'.cursor, ids |-> saved'.ids] /\ saved'.cursor \in Int
      /\ saved'.ids \subseteq saved.ids
      /\ saved'.cursor = saved.cursor \/ (saved'.ids = {} /\ saved'.cursor = -1)
  <2>1. CASE saved' = saved
    BY <1>1, <2>1 DEF RelayOK
  <2>2. CASE saved' = Torn
    <3>1. Torn = [cursor |-> Torn.cursor, ids |-> Torn.ids] /\ Torn.cursor = -1 /\ Torn.ids = {}
      BY DEF Torn
    <3> QED
      BY <2>2, <3>1
  <2> QED
    BY <1>1, <2>1, <2>2
<1>3. RelayOK' /\ Latest' = saved'.cursor /\ DeliveredIds' = saved'.ids
  BY <1>1, <1>2, NoPassLater DEF RelayOK
<1>4. \A row \in Rows : row.at \in Nat
  BY RowsTyped DEF TablesOK
<1>5. NoGap' /\ WholeFetch'
  <2>1. \A row \in Rows : ~ (row.at >= saved'.cursor /\ row.at < saved'.cursor)
    BY <1>2, <1>4
  <2>2. pass'.step = "idle"
    BY <1>1 DEF NoPass
  <2> QED
    BY <1>1, <1>3, <2>1, <2>2 DEF NoGap, WholeFetch
<1>6. PassedWasSent'
  BY <1>1, <1>2, <1>4 DEF RelayInv, PassedWasSent, WasSent
<1>7. DeliveredWasSent'
  BY <1>1, <1>2, <1>3 DEF RelayInv, DeliveredWasSent, DeliveredIds
<1>8. IdsAtCursor'
  BY <1>1, <1>2 DEF RelayInv, IdsAtCursor
<1>9. SendsBounded'
  <2>1. ASSUME NEW k \in DOMAIN sent \ {Health}
        PROVE  sent[k] <= faults' + (IF Delivered(k)' THEN 1 ELSE 0)
    <3>1. sent[k] \in Nat /\ sent[k] <= faults + (IF Delivered(k) THEN 1 ELSE 0)
      BY <1>1 DEF RelayInv, SendsBounded, RelayOK
    <3> QED
      BY <1>1, <3>1
  <2> QED
    BY <1>1, <2>1 DEF SendsBounded
<1> QED
  BY <1>3, <1>5, <1>6, <1>7, <1>8, <1>9 DEF RelayInv

(* The others insert rows, behind the cursor or behind what was fetched.    *)
RowsObserved ==
    /\ unread' = unread \cup Keys({row \in Rows' \ Rows : Passable(row)})
    /\ late' = late \cup Keys({row \in Rows' \ Rows : row.at < saved.cursor})

LEMMA RelayUndisturbed ==
  ASSUME TablesOK, RelayInv, UNCHANGED relayVars, Rows \subseteq Rows',
         events' \in Seq(Event), RowsObserved, faults' = faults \/ faults' = faults + 1
  PROVE  RelayInv'
<1>1. /\ RelayMeans /\ RelayOK /\ saved' = saved /\ pass' = pass /\ sent' = sent
      /\ DeliveredIds' = DeliveredIds /\ Latest' = Latest
  BY RelayFacts DEF RelayInv, relayVars, DeliveredIds, Handled, Latest
<1>2. RelayOK'
  BY <1>1 DEF RelayOK
<1>3. /\ unread \subseteq unread' /\ \A row \in Rows' \ Rows : Passable(row) => row.key \in unread'
      /\ late \subseteq late'
      /\ \A row \in Rows' \ Rows : row.at < saved.cursor => row.key \in late'
  BY DEF RowsObserved, Keys
<1>4. pass.step = "idle" => Latest = saved.cursor
  BY <1>1 DEF RelayOK, RelayMeans
<1>5. NoGap' /\ WholeFetch'
  <2>1. ASSUME NEW row \in Rows', row.at >= saved.cursor, row.at < Latest PROVE Taken(row)'
    <3>1. CASE row \in Rows
      BY <1>1, <1>3, <2>1, <3>1 DEF RelayInv, NoGap, Taken
    <3>2. CASE row \notin Rows
      <4>1. pass.step # "idle"
        <5>1. row.at \in Nat /\ saved.cursor \in Int
          BY <1>1, <2>1, AtsNaturalLater DEF RelayMeans
        <5> QED
          BY <1>4, <2>1, <5>1
      <4> QED
        BY <1>3, <2>1, <3>2, <4>1 DEF Passable, Taken
    <3> QED
      BY <3>1, <3>2
  <2>2. ASSUME pass.step = "fetched", Len(pass.batch) < Limit,
               NEW row \in Rows', row.at >= saved.cursor
        PROVE  Taken(row)'
    <3>1. CASE row \in Rows
      BY <1>1, <1>3, <2>2, <3>1 DEF RelayInv, WholeFetch, Taken
    <3>2. CASE row \notin Rows
      BY <1>3, <2>2, <3>2 DEF Passable, Taken
    <3> QED
      BY <3>1, <3>2
  <2> QED
    BY <1>1, <2>1, <2>2 DEF NoGap, WholeFetch
<1>6. PassedWasSent'
  BY <1>1, <1>3 DEF RelayInv, PassedWasSent, WasSent
<1>7. DeliveredWasSent' /\ IdsAtCursor'
  BY <1>1 DEF RelayInv, DeliveredWasSent, IdsAtCursor
<1>8. SendsBounded'
  <2>1. \A key : Delivered(key) => Delivered(key)'
    BY <1>1 DEF Delivered
  <2>2. ASSUME NEW k \in DOMAIN sent \ {Health}
        PROVE  sent[k] <= faults' + (IF Delivered(k)' THEN 1 ELSE 0)
    <3>1. /\ sent[k] \in Nat /\ sent[k] <= faults + (IF Delivered(k) THEN 1 ELSE 0)
          /\ faults \in Nat
      BY <1>1 DEF RelayInv, SendsBounded, RelayOK, TablesOK
    <3> QED
      BY <2>1, <3>1
  <2> QED
    BY <1>1, <2>2 DEF SendsBounded
<1> QED
  BY <1>2, <1>5, <1>6, <1>7, <1>8 DEF RelayInv

-----------------------------------------------------------------------------
(* The steps of the journal. *)

RowsGrow == Rows \subseteq Rows' /\ events' \in Seq(Event) /\ Sorted(events')
UniqueKeys(rows) == \A r, s \in rows : r.key = s.key => r = s

LEMMA UpsertGrows ==
  ASSUME TablesOK, NEW rows \in SUBSET Event, IsFiniteSet(rows), UniqueKeys(rows),
         UpsertEvents(rows)
  PROVE  /\ RowsGrow /\ UniqueKeys(Rows')
         /\ Rows' = Rows \cup {row \in rows : row.key \notin Keys(Rows)}
         /\ Keys(rows) \subseteq Keys(Rows')
<1> DEFINE new == {row \in rows : row.key \notin Keys(Rows)}
<1>1. new \in SUBSET Event /\ new \in SUBSET rows
  OBVIOUS
<1>2. IsFiniteSet(new)
  <2> HIDE DEF new
  <2> QED
    BY <1>1, FS_Subset
<1>3. \A r \in Event : r.at \in Int
  BY DEF Event
<1>4. events' \in Merged(events, new) /\ events \in Seq(Event) /\ Sorted(events)
  BY DEF UpsertEvents, TablesOK
<1> HIDE DEF new
<1>5. events' \in Seq(Event) /\ Sorted(events') /\ ToSet(events') = ToSet(events) \cup new
  BY ONLY <1>1, <1>2, <1>3, <1>4, MergedKeepsOrder
<1>6. Rows' = Rows \cup new /\ RowsGrow
  BY <1>5 DEF Rows, RowsGrow
<1>7. \A r, s \in Rows : r.key = s.key => r = s
  BY DEF TablesOK
<1>8. UniqueKeys(Rows')
  BY <1>6, <1>7 DEF UniqueKeys, new, Keys
<1>9. Keys(rows) \subseteq Keys(Rows')
  BY <1>6 DEF new, Keys
<1> QED
  BY <1>6, <1>8, <1>9 DEF new

LEMMA FiniteRows ==
  ASSUME events \in Seq(Event)
  PROVE  IsFiniteSet(Rows) /\ \A f : IsFiniteSet(About(f)) /\ Cardinality(About(f)) \in Nat
<1>1. Rows = {events[i] : i \in 1..Len(events)} /\ Len(events) \in Nat
  BY RowsTyped
<1>2. IsFiniteSet(Rows)
  <2>1. IsFiniteSet(1..Len(events))
    BY <1>1, FS_Interval
  <2> QED
    BY <1>1, <2>1, FiniteImage
<1>3. ASSUME NEW f PROVE IsFiniteSet(About(f)) /\ Cardinality(About(f)) \in Nat
  <2>1. About(f) \in SUBSET Rows
    BY DEF About
  <2> QED
    BY <1>2, <2>1, FS_Subset, FS_CardinalityType
<1> QED
  BY <1>2, <1>3

(* Rows that speak of no fill change nothing for the journal.              *)
LEMMA JournalUndisturbed ==
  ASSUME NoticeInv, UNCHANGED journalVars, Rows \subseteq Rows',
         \A row \in Rows' \ Rows : row.key[2] = {}
  PROVE  JournalOK' /\ NoticesOK' /\ Noticed' /\ NoticesBounded' /\ NotifiedIsPublished'
<1>1. JournalOK' /\ NoticesOK'
  BY DEF NoticeInv, JournalOK, NoticesOK, journalVars, Pending
<1>2. Noticed' /\ NotifiedIsPublished'
  BY DEF NoticeInv, Noticed, NotifiedIsPublished, journalVars, Pending
<1>3. ASSUME NEW f PROVE About(f)' = About(f)
  BY DEF About
<1>4. NoticesBounded'
  BY <1>3 DEF NoticeInv, NoticesBounded, Settling, journalVars
<1> QED
  BY <1>1, <1>2, <1>4

LEMMA ClockWait ==
  ASSUME clock \in Nat
  PROVE  Max({0, clock - LockWait})..clock \subseteq Nat
<1> DEFINE x == clock - LockWait
           T == {0, x}
<1>1. x \in Int
  BY JournalAssumption
<1> HIDE DEF x
<1>2. T \in SUBSET Int /\ T # {} /\ IsFiniteSet(T) /\ 0 \in T
  <2>1. IsFiniteSet({0} \cup {x})
    <3>1. IsFiniteSet({0}) /\ IsFiniteSet({x})
      BY FS_Singleton
    <3> QED
      BY ONLY <3>1, FS_Union
  <2>2. T = {0} \cup {x}
    OBVIOUS
  <2> QED
    BY <1>1, <2>1, <2>2
<1>3. Max(T) \in T /\ \A y \in T : y <= Max(T)
  <2> HIDE DEF T
  <2> QED
    BY <1>2, FiniteMax
<1>4. Max(T) \in Int /\ Max(T) >= 0
  <2> HIDE DEF T
  <2> QED
    BY <1>2, <1>3
<1>5. Max({0, clock - LockWait}) = Max(T)
  BY DEF x
<1> HIDE DEF T
<1> QED
  BY <1>4, <1>5

(* The notices of a sync: each fill not told yet is in at most one, and one *)
(* that is CryptoForge's in exactly one.                                   *)
LEMMA NoticesCover ==
  ASSUME NEW rows, NEW at \in Nat, Read \subseteq Fills
  PROVE  LET notices == Notices(rows, at)
             pending == Read \ local.notified
         IN  /\ notices \subseteq Event /\ IsFiniteSet(notices)
             /\ \A n \in notices : n.key[2] # {} /\ n.key[2] \subseteq pending
             /\ \A m, n \in notices : m.key[2] \cap n.key[2] # {} => m = n
             /\ local.seeded => \A f \in pending : Owned(f) => \E n \in notices : f \in n.key[2]
<1> DEFINE pending == IF local.seeded THEN Read \ local.notified ELSE {}
           group(f) == {g \in pending : FillOf[g].order = FillOf[f].order
                                          /\ FillOf[g].side = FillOf[f].side}
           told == {f \in pending : Told(group(f), rows)}
           notice == [f \in Fills |-> [key |-> <<FillOf[f].order, group(f)>>, at |-> at]]
           notices == Notices(rows, at)
<1>1. pending \subseteq Fills /\ pending \subseteq Read \ local.notified /\ told \subseteq pending
  OBVIOUS
<1>2. notices = {notice[f] : f \in told}
  BY <1>1 DEF Notices
<1>3. IsFiniteSet(told)
  <2>1. IsFiniteSet(Fills) /\ told \in SUBSET Fills
    BY <1>1, JournalAssumption
  <2> HIDE DEF told
  <2> QED
    BY <2>1, FS_Subset
<1>4. IsFiniteSet(notices)
  <2> HIDE DEF told, notice, notices
  <2> QED
    BY <1>2, <1>3, FiniteImage
<1>5. \A f \in told : /\ notice[f].key[2] = group(f) /\ f \in group(f) /\ group(f) \subseteq pending
                      /\ notice[f] = [key |-> <<FillOf[f].order, group(f)>>, at |-> at]
                      /\ notice[f] \in Event
  <2>1. ASSUME NEW f \in told
        PROVE  /\ notice[f].key[2] = group(f) /\ f \in group(f) /\ group(f) \subseteq pending
               /\ notice[f] = [key |-> <<FillOf[f].order, group(f)>>, at |-> at]
    BY <1>1
  <2>2. ASSUME NEW f \in told PROVE notice[f] \in Event
    <3>1. f \in Fills /\ group(f) \in SUBSET Fills
      BY <1>1
    <3>2. <<FillOf[f].order, group(f)>> \in EventKeys
      <4> HIDE DEF group, told
      <4> QED
        BY <3>1 DEF EventKeys
    <3> QED
      BY <2>1, <3>2 DEF Event
  <2> QED
    BY <2>1, <2>2
<1>6. ASSUME NEW m \in notices, NEW n \in notices, m.key[2] \cap n.key[2] # {}
      PROVE  m = n
  <2>1. PICK f \in told, g \in told : m = notice[f] /\ n = notice[g]
    BY <1>2
  <2>2. PICK h \in group(f) : h \in group(g)
    BY <1>5, <1>6, <2>1
  <2>3. FillOf[f].order = FillOf[g].order /\ group(f) = group(g)
    BY <2>2
  <2> HIDE DEF group, told, notice
  <2> QED
    BY <1>5, <2>1, <2>3
<1>7. ASSUME local.seeded, NEW f \in Read \ local.notified, Owned(f)
      PROVE  \E n \in notices : f \in n.key[2]
  <2>1. f \in pending /\ f \in group(f)
    BY <1>7
  <2>2. f \in told
    BY <1>7, <2>1 DEF Told
  <2> HIDE DEF group, told, notice, notices
  <2>3. notice[f] \in notices
    BY <1>2, <2>2
  <2>4. f \in notice[f].key[2]
    BY <1>5, <2>2
  <2> QED
    BY <2>3, <2>4
<1>8. notices \subseteq Event /\ \A n \in notices : n.key[2] # {} /\ n.key[2] \subseteq Read \ local.notified
  <2>1. ASSUME NEW n \in notices
        PROVE  n \in Event /\ n.key[2] # {} /\ n.key[2] \subseteq Read \ local.notified
    <3>1. PICK f \in told : n = notice[f]
      BY <1>2
    <3> HIDE DEF group, told, notice, notices, pending
    <3> QED
      BY <1>1, <1>5, <3>1
  <2> QED
    BY <2>1
<1> QED
  BY <1>4, <1>6, <1>7, <1>8

LEMMA PublishTradesStep ==
  ASSUME NoticeInv, PublishTrades, UNCHANGED <<clock, events, health, faults, outbox>>
  PROVE  NoticeInv'
<1> DEFINE rows == Reconstructed[Read]
<1>1. PICK at \in Max({0, clock - LockWait})..clock :
        sync' = [step |-> "traded", fills |-> Read, rows |-> rows, notices |-> Notices(rows, at)]
  BY DEF PublishTrades
<1>2. /\ sync.step = "idle" /\ local' = local /\ executed' = executed /\ seed' = seed
      /\ broken' = broken /\ at \in Nat /\ Rows' = Rows
  BY ClockWait DEF PublishTrades, NoticeInv, TablesOK, Rows
<1>3. Read \subseteq Fills /\ local.fills \subseteq Read /\ local.notified = local.fills
  BY DEF NoticeInv, JournalOK, Read
<1> DEFINE notices == Notices(rows, at)
           pending == Read \ local.notified
<1>4. /\ notices \subseteq Event /\ IsFiniteSet(notices)
      /\ \A n \in notices : n.key[2] # {} /\ n.key[2] \subseteq pending
      /\ \A m, n \in notices : m.key[2] \cap n.key[2] # {} => m = n
      /\ local.seeded => \A f \in pending : Owned(f) => \E n \in notices : f \in n.key[2]
  <2> HIDE DEF rows
  <2> QED
    BY <1>2, <1>3, NoticesCover
<1> HIDE DEF notices, rows
<1>5. sync' = [step |-> "traded", fills |-> Read, rows |-> rows, notices |-> notices]
  BY <1>1 DEF notices
<1>6. TablesOK' /\ DeliveredIsPublished' /\ NotifiedIsPublished'
  BY <1>2 DEF NoticeInv, TablesOK, DeliveredIsPublished, NotifiedIsPublished, Rows
<1>7. JournalOK'
  BY <1>2, <1>3, <1>5 DEF NoticeInv, JournalOK
<1>8. /\ sync'.step = "traded" /\ sync'.fills = Read /\ sync'.notices = notices
      /\ local'.notified = local.notified /\ local'.seeded = local.seeded
  BY <1>2, <1>5
<1>9. NoticesOK' /\ Noticed'
  BY <1>4, <1>8 DEF NoticesOK, Noticed, Pending
<1>10. NoticesBounded'
  <2>1. ASSUME NEW f PROVE About(f)' = About(f) /\ (Settling(f)' <=> Settling(f))
    BY <1>2, <1>8 DEF About, Settling
  <2> QED
    BY <1>2, <2>1 DEF NoticeInv, NoticesBounded
<1> QED
  BY <1>6, <1>7, <1>9, <1>10 DEF NoticeInv

LEMMA PublishEventsStep ==
  ASSUME NoticeInv, PublishEvents, UNCHANGED <<clock, health, faults, outbox>>
  PROVE  NoticeInv' /\ Rows \subseteq Rows' /\ events' \in Seq(Event)
<1> DEFINE notices == sync.notices
<1>1. /\ sync.step = "traded" /\ UpsertEvents(notices) /\ local' = local
      /\ executed' = executed /\ seed' = seed /\ broken' = broken
      /\ sync' = [step |-> "noticed", fills |-> sync.fills, rows |-> sync.rows, notices |-> {}]
  BY DEF PublishEvents, NoticeInv, JournalOK
<1>2. TablesOK /\ JournalOK /\ broken \in Nat
  BY DEF NoticeInv, JournalOK
<1>3. /\ notices \subseteq Event /\ IsFiniteSet(notices)
      /\ \A n \in notices : n.key[2] # {} /\ n.key[2] \subseteq Pending
      /\ \A m, n \in notices : m.key[2] \cap n.key[2] # {} => m = n
      /\ local.seeded => \A f \in Pending : Owned(f) => \E n \in notices : f \in n.key[2]
  BY <1>1 DEF NoticeInv, NoticesOK
<1>4. UniqueKeys(notices)
  <2>1. ASSUME NEW m \in notices, NEW n \in notices, m.key = n.key PROVE m = n
    <3>1. m.key[2] \cap n.key[2] # {}
      BY <1>3, <2>1
    <3> QED
      BY <1>3, <3>1
  <2> QED
    BY <2>1 DEF UniqueKeys
<1> HIDE DEF notices
<1>5. /\ RowsGrow /\ UniqueKeys(Rows')
      /\ Rows' = Rows \cup {row \in notices : row.key \notin Keys(Rows)}
      /\ Keys(notices) \subseteq Keys(Rows')
  BY <1>1, <1>2, <1>3, <1>4, UpsertGrows
<1>6. TablesOK'
  BY <1>2, <1>5 DEF TablesOK, RowsGrow, UniqueKeys
<1>7. /\ sync'.step = "noticed" /\ sync'.fills = sync.fills
      /\ sync' = [step |-> sync'.step, fills |-> sync'.fills, rows |-> sync'.rows,
                  notices |-> sync'.notices]
      /\ Pending' = Pending
  BY <1>1 DEF Pending
<1>8. JournalOK' /\ NoticesOK'
  BY <1>1, <1>2, <1>7 DEF JournalOK, NoticesOK
<1>9. Noticed'
  <2>1. ASSUME local.seeded, NEW f \in Pending, Owned(f)
        PROVE  \E row \in Rows' : f \in row.key[2]
    <3>1. PICK n \in notices : f \in n.key[2]
      BY <1>3, <2>1
    <3>2. PICK row \in Rows' : row.key = n.key
      BY <1>5, <3>1 DEF Keys
    <3> QED
      BY <3>1, <3>2
  <2> QED
    BY <1>1, <1>7, <2>1 DEF Noticed
<1>10. NotifiedIsPublished' /\ DeliveredIsPublished'
  BY <1>1, <1>5 DEF NoticeInv, NotifiedIsPublished, DeliveredIsPublished, RowsGrow, Keys
<1>11. NoticesBounded'
  <2>1. ASSUME NEW f \in Fills
        PROVE  Cardinality(About(f)') <= broken + (IF Settling(f)' THEN 1 ELSE 0)
    <3> DEFINE new == {row \in notices : row.key \notin Keys(Rows) /\ f \in row.key[2]}
    <3>1. About(f)' = About(f) \cup new
      BY <1>5 DEF About
    <3>2. IsFiniteSet(About(f)) /\ Cardinality(About(f)) \in Nat
      BY <1>2, FiniteRows DEF TablesOK
    <3>3. Cardinality(About(f)) <= broken + (IF Settling(f) THEN 1 ELSE 0)
      BY DEF NoticeInv, NoticesBounded
    <3>4. Settling(f)' <=> f \in local.notified \/ f \in sync.fills
      BY <1>1, <1>7 DEF Settling
    <3>5. CASE new = {}
      <4>1. Settling(f) => Settling(f)'
        BY <3>4 DEF Settling
      <4> QED
        BY <1>2, <3>1, <3>2, <3>3, <3>5, <4>1
    <3>6. CASE new # {}
      <4>1. PICK n \in new : TRUE
        BY <3>6
      <4>2. new = {n}
        BY <1>3, <4>1
      <4>3. f \in sync.fills /\ f \notin local.notified
        BY <1>3, <4>1 DEF Pending
      <4>4. Cardinality(About(f) \cup {n}) <= Cardinality(About(f)) + 1
        <5>1. Cardinality(About(f) \cup {n}) =
                IF n \in About(f) THEN Cardinality(About(f)) ELSE Cardinality(About(f)) + 1
          BY ONLY <3>2, FS_AddElement
        <5> QED
          BY <3>2, <5>1
      <4>5. ~Settling(f) /\ Settling(f)'
        BY <1>1, <3>4, <4>3 DEF Settling
      <4>6. About(f)' = About(f) \cup {n} /\ Cardinality(About(f) \cup {n}) \in Nat
        <5>1. IsFiniteSet(About(f) \cup {n})
          BY <3>2, FS_AddElement
        <5> QED
          BY <3>1, <4>2, <5>1, FS_CardinalityType
      <4> QED
        BY <1>2, <3>2, <3>3, <4>4, <4>5, <4>6
    <3> QED
      BY <3>5, <3>6
  <2> QED
    BY <1>1, <2>1 DEF NoticesBounded
<1> QED
  BY <1>5, <1>6, <1>8, <1>9, <1>10, <1>11 DEF NoticeInv, RowsGrow

LEMMA CommitStep ==
  ASSUME NoticeInv, Commit, UNCHANGED <<clock, events, faults, outbox>>
  PROVE  NoticeInv'
<1>1. /\ sync.step = "noticed" /\ health' = NoError /\ local' = Settled /\ sync' = NoSync
      /\ seed' = (IF local.seeded THEN seed ELSE sync.fills)
      /\ executed' = executed /\ broken' = broken /\ Rows' = Rows
  BY DEF Commit, Rows
<1>2. /\ local'.fills = sync.fills /\ local'.notified = sync.fills /\ local'.seeded = TRUE
      /\ sync'.step = "idle" /\ sync'.fills = {}
      /\ sync' = [step |-> sync'.step, fills |-> sync'.fills, rows |-> sync'.rows,
                  notices |-> sync'.notices]
      /\ local.fills \subseteq sync.fills /\ sync.fills \subseteq Fills
      /\ local.notified = local.fills
  BY <1>1 DEF Settled, NoSync, NoticeInv, JournalOK
<1>3. TablesOK' /\ DeliveredIsPublished'
  BY <1>1 DEF NoticeInv, TablesOK, DeliveredIsPublished, Rows
<1>4. JournalOK'
  BY <1>1, <1>2 DEF NoticeInv, JournalOK
<1>5. NoticesOK' /\ Noticed'
  BY <1>2 DEF NoticesOK, Noticed
<1>6. NotifiedIsPublished'
  BY <1>1, <1>2 DEF NoticeInv, Noticed, NotifiedIsPublished, Pending
<1>7. NoticesBounded'
  <2>1. ASSUME NEW f PROVE About(f)' = About(f) /\ (Settling(f)' <=> Settling(f))
    BY <1>1, <1>2 DEF About, Settling
  <2> QED
    BY <1>1, <2>1 DEF NoticeInv, NoticesBounded
<1> QED
  BY <1>3, <1>4, <1>5, <1>6, <1>7 DEF NoticeInv

LEMMA SyncFailsStep ==
  ASSUME NoticeInv, SyncFails, UNCHANGED <<clock, events, outbox>>
  PROVE  NoticeInv'
<1>1. /\ sync.step # "idle" /\ local' = local /\ sync' = NoSync /\ faults' = faults + 1
      /\ broken' = (IF sync.step = "noticed" THEN broken + 1 ELSE broken)
      /\ health' \in {health, clock, NoError}
      /\ executed' = executed /\ seed' = seed /\ Rows' = Rows
  BY DEF SyncFails, RolledBack, Fault, Rows
<1>2. /\ sync'.step = "idle" /\ sync'.fills = {}
      /\ sync' = [step |-> sync'.step, fills |-> sync'.fills, rows |-> sync'.rows,
                  notices |-> sync'.notices]
      /\ broken \in Nat /\ faults \in Nat
  BY <1>1 DEF NoSync, NoticeInv, JournalOK, TablesOK
<1>3. TablesOK' /\ DeliveredIsPublished' /\ NotifiedIsPublished'
  BY <1>1, <1>2 DEF NoticeInv, TablesOK, DeliveredIsPublished, NotifiedIsPublished, Rows
<1>4. JournalOK' /\ NoticesOK' /\ Noticed'
  BY <1>1, <1>2 DEF NoticeInv, JournalOK, NoticesOK, Noticed
<1>5. NoticesBounded'
  <2>1. ASSUME NEW f \in Fills
        PROVE  Cardinality(About(f)) <= broken' + (IF f \in local.notified THEN 1 ELSE 0)
    <3>1. Cardinality(About(f)) <= broken + (IF Settling(f) THEN 1 ELSE 0)
      BY DEF NoticeInv, NoticesBounded
    <3>2. Cardinality(About(f)) \in Nat
      BY FiniteRows DEF NoticeInv, TablesOK
    <3>3. Settling(f) => f \in local.notified \/ sync.step = "noticed"
      BY DEF Settling
    <3> QED
      BY <1>1, <1>2, <3>1, <3>2, <3>3
  <2>2. ASSUME NEW f PROVE About(f)' = About(f) /\ (Settling(f)' <=> f \in local.notified)
    BY <1>1, <1>2 DEF About, Settling
  <2> QED
    BY <2>1, <2>2 DEF NoticesBounded
<1> QED
  BY <1>3, <1>4, <1>5 DEF NoticeInv

LEMMA FillStepKeeps ==
  ASSUME NoticeInv, FillExecuted, UNCHANGED <<clock, events, health, faults, outbox>>
  PROVE  NoticeInv'
<1>1. /\ Rows' = Rows /\ local' = local /\ sync' = sync /\ seed' = seed /\ broken' = broken
  BY DEF FillExecuted, Rows
<1>2. executed' \subseteq Fills
  <2> DEFINE rest == Fills \ executed
  <2>1. rest \in SUBSET Int /\ rest # {} /\ IsFiniteSet(rest)
    <3>1. IsFiniteSet(Fills) /\ Fills \subseteq Nat \ {0} /\ rest \in SUBSET Fills
      BY JournalAssumption
    <3>2. rest # {}
      BY DEF FillExecuted, NoticeInv, JournalOK
    <3> HIDE DEF rest
    <3>3. IsFiniteSet(rest)
      BY ONLY <3>1, FS_Subset
    <3>4. rest \subseteq Int
      BY ONLY <3>1
    <3> QED
      BY ONLY <3>2, <3>3, <3>4
  <2>2. Min(rest) \in rest
    <3> HIDE DEF rest
    <3> QED
      BY <2>1, FiniteMin
  <2> QED
    BY <2>2 DEF FillExecuted, NoticeInv, JournalOK
<1>3. /\ TablesOK' /\ JournalOK' /\ NoticesOK' /\ Noticed'
      /\ NotifiedIsPublished' /\ DeliveredIsPublished'
  BY <1>1, <1>2 DEF NoticeInv, TablesOK, JournalOK, NoticesOK, Noticed, NotifiedIsPublished,
                    DeliveredIsPublished, Pending, Rows
<1>4. NoticesBounded'
  <2>1. ASSUME NEW f PROVE About(f)' = About(f) /\ (Settling(f)' <=> Settling(f))
    BY <1>1 DEF About, Settling
  <2> QED
    BY <1>1, <2>1 DEF NoticeInv, NoticesBounded
<1> QED
  BY <1>3, <1>4 DEF NoticeInv

(* The clock, the failed reads of the journal and the relay.               *)
LEMMA TablesUndisturbed ==
  ASSUME NoticeInv, UNCHANGED <<events, journalVars, outbox>>,
         clock' \in Nat, faults' \in Nat, health' \in Nat \cup {NoError}
  PROVE  NoticeInv'
<1>1. Rows' = Rows
  BY DEF Rows
<1>2. TablesOK' /\ DeliveredIsPublished'
  BY <1>1 DEF NoticeInv, TablesOK, DeliveredIsPublished
<1>3. JournalOK' /\ NoticesOK' /\ Noticed' /\ NoticesBounded' /\ NotifiedIsPublished'
  BY <1>1, JournalUndisturbed
<1> QED
  BY <1>2, <1>3 DEF NoticeInv

-----------------------------------------------------------------------------
(* The steps of the outbox. *)

LEMMA DueRow ==
  ASSUME TablesOK, Due # {}
  PROVE  Min(Due) \in 1..Len(outbox) /\ Row = outbox[Min(Due)] /\ Row \in Entry
<1>1. Due \in SUBSET Int /\ Due \subseteq 1..Len(outbox) /\ Len(outbox) \in Nat
  BY DEF Due, TablesOK
<1>2. IsFiniteSet(Due)
  <2>1. IsFiniteSet(1..Len(outbox))
    BY <1>1, FS_Interval
  <2> QED
    BY <1>1, <2>1, FS_Subset
<1>3. Min(Due) \in Due
  BY <1>1, <1>2, FiniteMin
<1>4. Min(Due) \in 1..Len(outbox) /\ Row = outbox[Min(Due)]
  BY <1>1, <1>3 DEF Row
<1>5. outbox \in Seq(Entry)
  BY DEF TablesOK
<1>6. \A i \in 1..Len(outbox) : outbox[i] \in Entry
  BY ONLY <1>5
<1> QED
  BY ONLY <1>4, <1>6

(* What the outbox writes is an event, and speaks of no fill.              *)
LEMMA OutboxUpsert ==
  ASSUME NoticeInv, Due # {}, Upsert \/ events' = events
  PROVE  /\ RowsGrow /\ UniqueKeys(Rows') /\ \A row \in Rows' \ Rows : row.key[2] = {}
         /\ Keys(Rows) \subseteq Keys(Rows')
         /\ Upsert => Row.key \in Keys(Rows')
<1> DEFINE row == [key |-> Row.key, at |-> Row.at]
           rows == {row}
<1>1. Row \in Entry /\ TablesOK
  BY DueRow DEF NoticeInv
<1>2. PICK record \in Records : Row.key = record.key
  BY <1>1 DEF Entry
<1>3. Row.key \in EventKeys /\ Row.key[2] = {} /\ Row.at \in Nat
  BY <1>1, <1>2, PipelineAssumption DEF EventKeys, Entry
<1>4. rows \in SUBSET Event /\ IsFiniteSet(rows) /\ UniqueKeys(rows)
  <2>1. row \in Event
    BY <1>3 DEF Event
  <2>2. IsFiniteSet(rows)
    BY ONLY FS_Singleton
  <2>3. UniqueKeys(rows)
    BY DEF UniqueKeys
  <2> QED
    BY <2>1, <2>2, <2>3
<1>5. row.key = Row.key /\ row \in rows
  OBVIOUS
<1>6. ASSUME Upsert
      PROVE  /\ RowsGrow /\ UniqueKeys(Rows') /\ Keys(rows) \subseteq Keys(Rows')
             /\ Rows' = Rows \cup {r \in rows : r.key \notin Keys(Rows)}
  <2>1. UpsertEvents(rows)
    BY <1>6 DEF Upsert
  <2> HIDE DEF rows
  <2> QED
    BY <1>1, <1>4, <2>1, UpsertGrows
<1>7. CASE Upsert
  <2>1. \A r \in Rows' \ Rows : r.key[2] = {}
    BY <1>3, <1>6, <1>7
  <2>2. Keys(Rows) \subseteq Keys(Rows')
    BY <1>6, <1>7 DEF Keys
  <2>3. Row.key \in Keys(rows)
    BY <1>5 DEF Keys
  <2> HIDE DEF rows
  <2> QED
    BY <1>6, <1>7, <2>1, <2>2, <2>3
<1>8. CASE ~Upsert
  <2>1. events' = events /\ Rows' = Rows
    BY <1>8 DEF Rows
  <2> QED
    BY <1>1, <1>8, <2>1 DEF RowsGrow, UniqueKeys, TablesOK, Keys
<1> QED
  BY <1>7, <1>8

Failed(row, status, attempts, due) ==
  [row EXCEPT !.status = status, !.attempts = attempts, !.due = due]

LEMMA FailedIsEntry ==
  ASSUME NEW row \in Entry, NEW status \in {"dead", "pending"}, NEW n \in Nat, NEW due \in Dues
  PROVE  /\ Failed(row, status, n, due) \in Entry
         /\ Failed(row, status, n, due).key = row.key
         /\ Failed(row, status, n, due).status # "delivered"
  BY DEF Entry, Failed

LEMMA OutboxStepKeeps ==
  ASSUME NoticeInv, UNCHANGED <<clock, health, journalVars>>,
         \/ Enqueue /\ UNCHANGED <<events, faults>>
         \/ FlushDelivers /\ UNCHANGED faults
         \/ FlushFails
  PROVE  NoticeInv' /\ Rows \subseteq Rows' /\ events' \in Seq(Event)
<1>1. /\ TablesOK /\ outbox \in Seq(Entry) /\ faults \in Nat /\ clock \in Nat
      /\ DeliveredIsPublished /\ Len(outbox) \in Nat
      /\ \A i \in 1..Len(outbox) : outbox[i] \in Entry
  BY DEF NoticeInv, TablesOK
<1>2. CASE Enqueue /\ UNCHANGED <<events, faults>>
  <2>1. PICK record \in Records :
          outbox' = Append(outbox, [key |-> record.key, at |-> record.at, status |-> "pending",
                                    attempts |-> 0, due |-> 0])
    BY <1>2 DEF Enqueue
  <2> DEFINE entry == [key |-> record.key, at |-> record.at, status |-> "pending",
                       attempts |-> 0, due |-> 0]
  <2>2. entry \in Entry /\ entry.status = "pending"
    BY <1>1, OutboxAssumption DEF Entry, Dues
  <2> HIDE DEF entry
  <2>3. outbox' = Append(outbox, entry)
    BY <2>1 DEF entry
  <2>4. /\ outbox' \in Seq(Entry) /\ Len(outbox') = Len(outbox) + 1
        /\ \A i \in 1..Len(outbox) : outbox'[i] = outbox[i]
        /\ outbox'[Len(outbox) + 1] = entry
    BY <1>1, <2>2, <2>3
  <2>5. Rows' = Rows /\ events' = events /\ faults' = faults
    BY <1>2 DEF Rows
  <2>6. TablesOK'
    BY <1>1, <2>4, <2>5 DEF TablesOK
  <2>7. DeliveredIsPublished'
    <3>1. ASSUME NEW i \in 1..Len(outbox'), outbox'[i].status = "delivered"
          PROVE  outbox'[i].key \in Keys(Rows)
      <4>1. i \in 1..Len(outbox)
        BY <1>1, <2>2, <2>4, <3>1
      <4> QED
        BY <1>1, <2>4, <3>1, <4>1 DEF DeliveredIsPublished
    <3> QED
      BY <2>5, <3>1 DEF DeliveredIsPublished
  <2>8. JournalOK' /\ NoticesOK' /\ Noticed' /\ NoticesBounded' /\ NotifiedIsPublished'
    BY <2>5, JournalUndisturbed
  <2> QED
    BY <1>1, <2>5, <2>6, <2>7, <2>8 DEF NoticeInv, TablesOK
<1>3. CASE (FlushDelivers /\ UNCHANGED faults) \/ FlushFails
  <2>1. /\ Due # {} /\ (Upsert \/ events' = events)
        /\ faults' = faults \/ faults' = faults + 1
        /\ \/ Upsert /\ MarkDelivered
           \/ MarkFailed
           \/ outbox' = outbox
    BY <1>3 DEF FlushDelivers, FlushFails, Fault
  <2>2. /\ RowsGrow /\ UniqueKeys(Rows') /\ \A row \in Rows' \ Rows : row.key[2] = {}
        /\ Keys(Rows) \subseteq Keys(Rows')
        /\ Upsert => Row.key \in Keys(Rows')
    BY ONLY <2>1, NoticeInv, OutboxUpsert
  <2> DEFINE m == Min(Due)
             Marked(row) ==
               /\ outbox' = [outbox EXCEPT ![m] = row] /\ row.key = Row.key
               /\ (row.status = "delivered" => Row.key \in Keys(Rows'))
  <2>3. m \in 1..Len(outbox) /\ Row = outbox[m] /\ Row \in Entry
    BY ONLY <1>1, <2>1, DueRow
  <2>4. outbox' = outbox \/ \E row \in Entry : Marked(row)
    <3>1. ASSUME MarkDelivered, Upsert PROVE \E row \in Entry : Marked(row)
      <4> DEFINE row == [Row EXCEPT !.status = "delivered"]
      <4>1. row \in Entry /\ row.key = Row.key
        BY <2>3 DEF Entry
      <4>2. outbox' = [outbox EXCEPT ![m] = row]
        BY <3>1 DEF MarkDelivered, Becomes
      <4> HIDE DEF row, m
      <4>3. Marked(row)
        BY <2>2, <3>1, <4>1, <4>2
      <4> HIDE DEF Marked
      <4> QED
        BY <4>1, <4>3
    <3>2. ASSUME MarkFailed PROVE \E row \in Entry : Marked(row)
      <4> DEFINE n == Row.attempts + 1
                 later == clock + Backoff(n)
                 status == IF n >= MaxAttempts THEN "dead" ELSE "pending"
                 row == Failed(Row, status, n, later)
      <4>1. n \in Nat
        BY <2>3 DEF Entry
      <4>2. outbox' = [outbox EXCEPT ![m] = row]
        BY <3>2 DEF MarkFailed, Becomes, Failed
      <4>3. row \in Entry /\ row.key = Row.key /\ row.status # "delivered"
        <5>1. later \in Dues
          BY <1>1, <4>1 DEF Dues
        <5>2. status \in {"dead", "pending"}
          OBVIOUS
        <5>3. Row \in Entry
          BY <2>3
        <5> HIDE DEF n, later, status
        <5> QED
          BY ONLY <4>1, <5>1, <5>2, <5>3, FailedIsEntry
      <4> HIDE DEF row, m, n
      <4>4. Marked(row)
        BY <4>2, <4>3
      <4> HIDE DEF Marked
      <4> QED
        BY <4>3, <4>4
    <3> HIDE DEF Marked
    <3> QED
      BY <2>1, <3>1, <3>2
  <2>5. outbox' \in Seq(Entry) /\ DeliveredIsPublished'
    <3>1. CASE outbox' = outbox
      BY <1>1, <2>2, <3>1 DEF DeliveredIsPublished
    <3>2. ASSUME NEW row \in Entry, Marked(row)
          PROVE  outbox' \in Seq(Entry) /\ DeliveredIsPublished'
      <4>1. /\ outbox' \in Seq(Entry) /\ Len(outbox') = Len(outbox)
            /\ \A i \in 1..Len(outbox) : outbox'[i] = IF i = m THEN row ELSE outbox[i]
        BY <1>1, <2>3, <3>2
      <4>2. ASSUME NEW i \in 1..Len(outbox), outbox'[i].status = "delivered"
            PROVE  outbox'[i].key \in Keys(Rows')
        <5>1. CASE i = m
          BY <3>2, <4>1, <4>2, <5>1
        <5>2. CASE i # m
          BY <1>1, <2>2, <4>1, <4>2, <5>2 DEF DeliveredIsPublished
        <5> QED
          BY <5>1, <5>2
      <4> QED
        BY <4>1, <4>2 DEF DeliveredIsPublished
    <3> QED
      BY <2>4, <3>1, <3>2
  <2>6. TablesOK'
    BY <1>1, <2>1, <2>2, <2>5 DEF TablesOK, RowsGrow, UniqueKeys
  <2>7. JournalOK' /\ NoticesOK' /\ Noticed' /\ NoticesBounded' /\ NotifiedIsPublished'
    BY <2>2, JournalUndisturbed DEF RowsGrow
  <2> QED
    BY <2>2, <2>5, <2>6, <2>7 DEF NoticeInv, RowsGrow
<1> QED
  BY <1>2, <1>3

-----------------------------------------------------------------------------
(* All steps. *)

LEMMA NoticeStep ==
  ASSUME NoticeInv, Next
  PROVE  NoticeInv' /\ Rows \subseteq Rows' /\ events' \in Seq(Event)
<1>1. /\ clock \in Nat /\ faults \in Nat /\ health \in Nat \cup {NoError}
      /\ events \in Seq(Event)
  BY DEF NoticeInv, TablesOK
<1>2. events' = events => Rows \subseteq Rows' /\ events' \in Seq(Event)
  BY <1>1 DEF Rows
<1>3. CASE ClockStep
  BY <1>1, <1>2, <1>3, TablesUndisturbed DEF ClockStep, ClockTicks
<1>4. CASE FillStep
  <2>1. FillExecuted /\ UNCHANGED <<clock, events, health, faults, outbox>>
    BY <1>4 DEF FillStep
  <2> QED
    BY ONLY NoticeInv, <1>2, <2>1, FillStepKeeps
<1>5. CASE SyncStep
  <2>1. CASE PublishTrades /\ UNCHANGED <<events, health>>
    <3>1. UNCHANGED <<clock, events, health, faults, outbox>>
      BY <1>5, <2>1 DEF SyncStep
    <3> QED
      BY ONLY NoticeInv, <1>2, <2>1, <3>1, PublishTradesStep
  <2>2. CASE PublishEvents /\ UNCHANGED health
    <3>1. UNCHANGED <<clock, health, faults, outbox>>
      BY <1>5, <2>2 DEF SyncStep
    <3> QED
      BY ONLY NoticeInv, <2>2, <3>1, PublishEventsStep
  <2>3. CASE Commit /\ UNCHANGED events
    <3>1. UNCHANGED <<clock, events, faults, outbox>>
      BY <1>5, <2>3 DEF SyncStep
    <3> QED
      BY ONLY NoticeInv, <1>2, <2>3, <3>1, CommitStep
  <2> QED
    BY ONLY <1>5, <2>1, <2>2, <2>3 DEF SyncStep
<1>6. CASE SyncFailure
  <2>1. UNCHANGED <<clock, events, outbox>>
    BY <1>6 DEF SyncFailure
  <2>2. CASE SyncRefused
    <3>1. clock' \in Nat /\ faults' \in Nat /\ health' \in Nat \cup {NoError}
          /\ UNCHANGED <<events, journalVars, outbox>>
      BY <1>1, <2>1, <2>2 DEF SyncRefused, Fault
    <3> QED
      BY ONLY NoticeInv, <1>2, <3>1, TablesUndisturbed
  <2>3. CASE SyncFails
    BY ONLY NoticeInv, <1>2, <2>1, <2>3, SyncFailsStep
  <2> QED
    BY ONLY <1>6, <2>2, <2>3 DEF SyncFailure
<1>7. CASE OutboxStep
  <2>1. /\ UNCHANGED <<clock, health, journalVars>>
        /\ \/ Enqueue /\ UNCHANGED <<events, faults>>
           \/ FlushDelivers /\ UNCHANGED faults
           \/ FlushFails
    BY ONLY <1>7 DEF OutboxStep
  <2> QED
    BY ONLY NoticeInv, <2>1, OutboxStepKeeps
<1>8. CASE RelayStep
  <2>1. UNCHANGED <<clock, events, health, faults, journalVars, outbox>>
    BY ONLY <1>8 DEF RelayStep
  <2>2. clock' \in Nat /\ faults' \in Nat /\ health' \in Nat \cup {NoError}
    BY <1>1, <2>1
  <2> QED
    BY ONLY NoticeInv, <1>2, <2>1, <2>2, TablesUndisturbed
<1>9. CASE RelayFailure
  <2>1. UNCHANGED <<clock, events, health, journalVars, outbox>> /\ faults' = faults + 1
    BY ONLY <1>9 DEF RelayFailure, SendFails, RelayDies, Fault
  <2>2. clock' \in Nat /\ faults' \in Nat /\ health' \in Nat \cup {NoError}
    BY <1>1, <2>1
  <2> QED
    BY ONLY NoticeInv, <1>2, <2>1, <2>2, TablesUndisturbed
<1> QED
  BY ONLY Next, <1>3, <1>4, <1>5, <1>6, <1>7, <1>8, <1>9 DEF Next

LEMMA RelayKeeps ==
  ASSUME NoticeInv, RelayInv, Next
  PROVE  RelayInv'
<1>1. TablesOK /\ faults \in Nat
  BY DEF NoticeInv, TablesOK
<1>2. Rows \subseteq Rows' /\ events' \in Seq(Event)
  BY NoticeStep
<1>3. CASE RelayStep
  <2>1. UNCHANGED events /\ faults' = faults
    BY ONLY <1>3 DEF RelayStep
  <2>2. \/ (RelayFetches \/ Send) /\ UNCHANGED observed
        \/ RelayFetchesErrors /\ ObserveErrors
        \/ SaveState /\ ObservePassed
    BY ONLY <1>3 DEF RelayStep
  <2>3. CASE (RelayFetches \/ Send) /\ UNCHANGED observed
    <3>1. TablesSame /\ unread' = unread
      BY ONLY <2>1, <2>3 DEF TablesSame, observed
    <3> QED
      BY ONLY RelayInv, <1>1, <2>1, <2>3, <3>1, FetchStep, SendStep
  <2>4. CASE RelayFetchesErrors /\ ObserveErrors
    BY ONLY RelayInv, <1>1, <2>1, <2>4, ErrorsStep
  <2>5. CASE SaveState /\ ObservePassed
    BY ONLY RelayInv, <1>1, <2>1, <2>5, SaveStep
  <2> QED
    BY ONLY <2>2, <2>3, <2>4, <2>5
<1>4. CASE RelayFailure
  <2>1. TablesSame /\ ((SendFails /\ unread' = unread) \/ RelayDies)
    BY ONLY <1>4 DEF RelayFailure, TablesSame
  <2> QED
    BY ONLY RelayInv, <1>1, <2>1, SendFailsStep, DieStep
<1>5. CASE ClockStep \/ FillStep \/ SyncStep \/ SyncFailure \/ OutboxStep
  <2>1. UNCHANGED relayVars /\ (faults' = faults \/ faults' = faults + 1)
    BY ONLY <1>5 DEF ClockStep, FillStep, SyncStep, SyncFailure, OutboxStep, FlushFails,
                     SyncRefused, SyncFails, Fault
  <2>2. ObserveInserted \/ UNCHANGED <<events, observed>>
    BY ONLY <1>5 DEF ClockStep, FillStep, SyncStep, SyncFailure, OutboxStep
  <2>3. RowsObserved
    BY ONLY <2>2 DEF ObserveInserted, Arrived, RowsObserved, Rows, Keys, observed
  <2> QED
    BY ONLY RelayInv, <1>1, <1>2, <2>1, <2>3, RelayUndisturbed
<1> QED
  BY ONLY Next, <1>3, <1>4, <1>5 DEF Next

LEMMA NoStep ==
  ASSUME UNCHANGED vars, NoticeInv, RelayInv
  PROVE  NoticeInv' /\ RelayInv'
<1>1. /\ TablesOK /\ clock' \in Nat /\ faults' \in Nat /\ health' \in Nat \cup {NoError}
      /\ UNCHANGED <<events, journalVars, outbox>>
  BY DEF NoticeInv, TablesOK, vars
<1>2. /\ UNCHANGED relayVars /\ Rows' = Rows /\ events' \in Seq(Event) /\ faults' = faults
      /\ UNCHANGED observed
  BY ONLY UNCHANGED vars, <1>1 DEF vars, Rows, TablesOK
<1>3. RowsObserved
  BY ONLY <1>2 DEF RowsObserved, Keys, observed
<1>4. NoticeInv'
  BY ONLY NoticeInv, <1>1, TablesUndisturbed
<1> QED
  BY ONLY RelayInv, <1>1, <1>2, <1>3, <1>4, RelayUndisturbed

LEMMA Initially ==
  ASSUME Init
  PROVE  NoticeInv /\ RelayInv
<1>1. /\ clock = 0 /\ faults = 0 /\ health = NoError /\ events = <<>> /\ outbox = <<>>
      /\ Rows = {} /\ sync = NoSync /\ broken = 0 /\ executed = Before
      /\ saved = [cursor |-> 0, ids |-> {}] /\ pass = NoPass /\ sent = [key \in {} |-> 0]
  BY DEF Init, EventsInit, JournalInit, OutboxInit, RelayInit, Rows, ToSet
<1>2. TablesOK /\ DeliveredIsPublished
  BY <1>1 DEF TablesOK, Sorted, DeliveredIsPublished
<1>3. /\ local.fills \subseteq Fills /\ local.notified = local.fills /\ local.seeded \in BOOLEAN
      /\ local.notified \ seed = {}
  <2>1. Before \subseteq Fills
    BY JournalAssumption
  <2>2. CASE local = [fills |-> {}, notified |-> {}, seeded |-> FALSE, published |-> {}]
    BY <2>2
  <2>3. ASSUME NEW S \in {{f \in Before : f <= n} : n \in Before},
               local = [fills |-> S \ Conversions(S), notified |-> S \ Conversions(S),
                        seeded |-> TRUE, published |-> {}],
               seed = S \ Conversions(S)
        PROVE  /\ local.fills \subseteq Fills /\ local.notified = local.fills
               /\ local.seeded \in BOOLEAN /\ local.notified \ seed = {}
    <3>1. S \subseteq Fills
      BY <2>1
    <3> QED
      BY <2>3, <3>1
  <2> QED
    BY <2>2, <2>3 DEF Init, JournalInit
<1>4. JournalOK /\ NoticesOK /\ Noticed /\ NotifiedIsPublished
  BY <1>1, <1>3, JournalAssumption DEF JournalOK, NoticesOK, Noticed, NotifiedIsPublished, NoSync
<1>5. NoticesBounded
  <2>1. \A f : About(f) = {}
    BY <1>1 DEF About
  <2>2. Cardinality({}) = 0
    BY FS_EmptySet
  <2> QED
    BY <1>1, <2>1, <2>2 DEF NoticesBounded
<1>6. RelayOK /\ Latest = saved.cursor /\ DeliveredIds = saved.ids
  BY <1>1, NoPassMeans
<1>7. NoGap /\ WholeFetch /\ DeliveredWasSent /\ IdsAtCursor /\ SendsBounded /\ PassedWasSent
  BY <1>1, <1>6 DEF NoGap, WholeFetch, DeliveredWasSent, IdsAtCursor, SendsBounded, PassedWasSent
<1> QED
  BY <1>2, <1>4, <1>5, <1>6, <1>7 DEF NoticeInv, RelayInv

(* Both invariants hold in every state, from the step lemmas above.        *)
LEMMA NoticesAlways == Spec => [](NoticeInv /\ RelayInv)
<1>1. Init => NoticeInv /\ RelayInv
  BY Initially
<1>2. NoticeInv /\ RelayInv /\ [Next]_vars => (NoticeInv /\ RelayInv)'
  BY NoticeStep, RelayKeeps, NoStep
<1> QED
  BY <1>1, <1>2, PTL DEF Spec

(* Whatever a database has recorded as published is in system_events, at   *)
(* every step of every failure: a fill that is CryptoForge's once its sync *)
(* has committed, an outbox event once it is marked delivered              *)
(* (live_trade_journal.py:333-335, outbox.py:207-215).                     *)
THEOREM PublishedHolds == Spec => []CommittedIsPublished
<1>1. NoticeInv => CommittedIsPublished
  BY DEF NoticeInv, NotifiedIsPublished, DeliveredIsPublished, CommittedIsPublished
<1> QED
  BY <1>1, NoticesAlways, PTL

(* However many fills, records, failures and crashes there are, an event   *)
(* is sent once and once more for each of them at most, and a fill is told *)
(* in one event and one more for each sync that failed after it published  *)
(* (telegram_relay.py:329-349, live_trade_journal.py:191-192).             *)
THEOREM RepeatsHold == Spec => []RepeatsNeedFault
<1>1. ASSUME NoticeInv, RelayInv PROVE RepeatsNeedFault
  <2>1. faults \in Nat /\ broken \in Nat /\ events \in Seq(Event)
    BY <1>1 DEF NoticeInv, TablesOK, JournalOK
  <2>2. ASSUME NEW key \in DOMAIN sent \ {Health} PROVE sent[key] <= 1 + faults
    <3>1. sent[key] \in Nat
      BY <1>1, <2>2 DEF RelayInv, RelayOK
    <3>2. sent[key] <= faults + (IF Delivered(key) THEN 1 ELSE 0)
      BY <1>1, <2>2 DEF RelayInv, SendsBounded
    <3> QED
      BY <2>1, <3>1, <3>2
  <2>3. ASSUME NEW f \in Fills PROVE Cardinality({row \in Rows : f \in row.key[2]}) <= 1 + broken
    <3>1. Cardinality(About(f)) \in Nat
      BY <2>1, FiniteRows
    <3>2. Cardinality(About(f)) <= broken + (IF Settling(f) THEN 1 ELSE 0)
      BY <1>1, <2>3 DEF NoticeInv, NoticesBounded
    <3>3. Cardinality(About(f)) <= 1 + broken
      BY <2>1, <3>1, <3>2
    <3> QED
      BY <3>3 DEF About
  <2> QED
    BY <2>2, <2>3 DEF RepeatsNeedFault
<1> QED
  BY <1>1, NoticesAlways, PTL

(* The cursor never passes an event that was in the table when the pass    *)
(* asked for events, unless it was sent: whatever the size of a pass, the  *)
(* times of its errors, and whenever the relay dies.  What was inserted    *)
(* after that first request may be passed (telegram_relay.py:78-84,        *)
(* 326-353).                                                               *)
THEOREM PassedHolds == Spec => []PassedWasSent
<1>1. RelayInv => PassedWasSent
  BY DEF RelayInv
<1> QED
  BY <1>1, NoticesAlways, PTL

-----------------------------------------------------------------------------
(* Which rows the fills of a set make: induction on the set.               *)

(* The recursion of Consumed.                                              *)
Consuming(g) ==
    [S \in SUBSET Fills |->
       IF S = {} THEN NothingConsumed ELSE Consume(g[S \ {Max(S)}], Max(S))]

(* The last fill of a set is one of its fills.                             *)
LEMMA LatestFill ==
  ASSUME NEW S \in SUBSET Fills, S # {}
  PROVE  Max(S) \in S /\ \A f \in S : f <= Max(S)
<1>1. Fills \subseteq Int /\ IsFiniteSet(Fills)
  BY JournalAssumption
<1>2. S \in SUBSET Int /\ IsFiniteSet(S)
  BY ONLY S \in SUBSET Fills, <1>1, FS_Subset
<1> QED
  BY <1>2, FiniteMax

(* The recursion has a solution: sets of more and more fills.              *)
LEMMA ConsumingExists == \E g : g = Consuming(g)
<1> DEFINE Small(n) == {s \in SUBSET Fills : Cardinality(s) <= n}
           Value(g, s) == IF s = {} THEN NothingConsumed ELSE Consume(g[s \ {Max(s)}], Max(s))
           Solves(g, n) == g = [s \in Small(n) |-> Value(g, s)]
           Solved(n) == \E g : Solves(g, n)
           good == {n \in Nat : Solved(n)}
<1>1. \A s \in SUBSET Fills : IsFiniteSet(s) /\ Cardinality(s) \in Nat
  BY JournalAssumption, FS_Subset, FS_CardinalityType
<1>2. 0 \in good
  <2> DEFINE h == [s \in Small(0) |-> NothingConsumed]
  <2>1. \A s \in Small(0) : s = {}
    BY <1>1, FS_EmptySet
  <2>2. Solves(h, 0)
    BY <2>1
  <2>3. Solved(0)
    <3> HIDE DEF h, Solves
    <3> QED
      BY <2>2
  <2> QED
    BY <2>3
<1>3. ASSUME NEW n \in Nat, n \in good PROVE n + 1 \in good
  <2>1. PICK g : Solves(g, n)
    BY <1>3
  <2> DEFINE h == [s \in Small(n + 1) |-> Value(g, s)]
  <2>2. ASSUME NEW s \in Small(n + 1), s # {} PROVE s \ {Max(s)} \in Small(n)
    <3>1. Max(s) \in s
      BY <2>2, LatestFill
    <3>2. Cardinality(s \ {Max(s)}) = Cardinality(s) - 1
      BY <1>1, <3>1, FS_RemoveElement
    <3> QED
      BY <1>1, <3>1, <3>2
  <2>3. \A s \in Small(n) : s \in Small(n + 1) /\ g[s] = Value(g, s)
    <3> HIDE DEF Value
    <3> QED
      BY <1>1, <2>1
  <2>4. \A s \in Small(n) : h[s] = g[s]
    <3> HIDE DEF Value
    <3> QED
      BY <2>3
  <2>5. \A s \in Small(n + 1) : Value(h, s) = Value(g, s)
    <3> HIDE DEF h
    <3> QED
      BY <2>2, <2>4
  <2>6. Solves(h, n + 1)
    <3> HIDE DEF Value, Small
    <3> QED
      BY <2>5
  <2>7. Solved(n + 1)
    <3> HIDE DEF h, Solves
    <3> QED
      BY <2>6
  <2> HIDE DEF Solved
  <2> QED
    BY <2>7
<1>4. \A n \in Nat : n \in good
  <2> HIDE DEF good
  <2> QED
    BY <1>2, <1>3, EveryNat
<1>5. Cardinality(Fills) \in Nat /\ Small(Cardinality(Fills)) = SUBSET Fills
  BY <1>1, JournalAssumption, FS_Subset, FS_CardinalityType
<1>6. PICK g : Solves(g, Cardinality(Fills))
  BY <1>4, <1>5
<1>7. g = Consuming(g)
  BY <1>5, <1>6 DEF Consuming
<1> QED
  BY <1>7

(* Consumed is that solution.                                              *)
LEMMA ConsumedUnfolds ==
  ASSUME NEW S \in SUBSET Fills
  PROVE  Consumed[S] = IF S = {} THEN NothingConsumed
                       ELSE Consume(Consumed[S \ {Max(S)}], Max(S))
<1>1. Consumed = CHOOSE g : g = Consuming(g)
  BY DEF Consumed, Consuming
<1>2. Consumed = Consuming(Consumed)
  BY <1>1, ConsumingExists
<1> QED
  BY <1>2 DEF Consuming

(* A table written over another.                                           *)
LEMMA OverlaidDomain ==
  ASSUME NEW f, NEW g
  PROVE  DOMAIN Overlaid(f, g) = DOMAIN f \cup DOMAIN g
BY DEF Overlaid

LEMMA OverlaidValue ==
  ASSUME NEW f, NEW g, NEW key \in DOMAIN f \cup DOMAIN g
  PROVE  Overlaid(f, g)[key] = IF key \in DOMAIN f THEN f[key] ELSE g[key]
BY DEF Overlaid

(* What a fill adds: the lots and the rows before it stay.                 *)
LEMMA ConsumeAdds ==
  ASSUME NEW acc, NEW f
  PROVE  LET next == Consume(acc, f)
         IN  /\ DOMAIN next.left = DOMAIN acc.left \cup (IF Bought(f) THEN {f} ELSE {})
             /\ DOMAIN acc.rows \subseteq DOMAIN next.rows
             /\ \A key \in DOMAIN next.rows \ DOMAIN acc.rows : key[1] \in DOMAIN acc.left
<1>1. CASE Bought(f)
  <2> DEFINE bought == [lot \in {f} |-> FillOf[lot].amount]
  <2>1. Consume(acc, f) = [left |-> Overlaid(bought, acc.left), rows |-> acc.rows]
    BY <1>1 DEF Consume
  <2>2. DOMAIN Overlaid(bought, acc.left) = {f} \cup DOMAIN acc.left
    <3>1. DOMAIN bought = {f}
      OBVIOUS
    <3> HIDE DEF bought
    <3> QED
      BY <3>1, OverlaidDomain
  <2> HIDE DEF bought
  <2> QED
    BY <1>1, <2>1, <2>2
<1>2. CASE ~Bought(f)
  <2> DEFINE taken == [lot \in DOMAIN acc.left |-> Take(acc.left, FillOf[f].amount, lot)]
             sold == {lot \in DOMAIN taken : taken[lot] > 0 /\ (Owned(lot) \/ Owned(f))}
             left == [lot \in DOMAIN taken |-> acc.left[lot] - taken[lot]]
             segments == [key \in sold \X {f} |-> taken[key[1]]]
  <2>1. Consume(acc, f) = [left |-> left, rows |-> Overlaid(segments, acc.rows)]
    BY <1>2 DEF Consume
  <2>2. /\ DOMAIN left = DOMAIN acc.left /\ DOMAIN segments = sold \X {f}
        /\ sold \subseteq DOMAIN acc.left
    OBVIOUS
  <2> HIDE DEF sold, left, segments
  <2>3. DOMAIN Overlaid(segments, acc.rows) = sold \X {f} \cup DOMAIN acc.rows
    BY <2>2, OverlaidDomain
  <2>4. \A key \in sold \X {f} : key[1] \in DOMAIN acc.left
    BY <2>2
  <2> QED
    BY <1>2, <2>1, <2>2, <2>3, <2>4
<1> QED
  BY <1>1, <1>2

(* A fill after all those of a set.                                        *)
LEMMA LatestOfMore ==
  ASSUME NEW S \in SUBSET Fills, NEW f \in Fills, \A g \in S : g < f
  PROVE  Max(S \cup {f}) = f /\ (S \cup {f}) \ {f} = S
<1> DEFINE T == S \cup {f}
<1>1. T \in SUBSET Fills /\ T # {} /\ f \in T
  OBVIOUS
<1>2. Max(T) \in T /\ f <= Max(T)
  <2> HIDE DEF T
  <2> QED
    BY <1>1, LatestFill
<1>3. f \in Nat /\ \A g \in S : g \in Nat
  BY JournalAssumption
<1>4. Max(T) = f
  <2>1. PICK m : m = Max(T)
    OBVIOUS
  <2>2. m \in S \cup {f} /\ f <= m
    BY <1>2, <2>1
  <2>3. ~(m \in S)
    BY ONLY <1>3, <2>2, \A g \in S : g < f
  <2> QED
    BY <2>1, <2>2, <2>3
<1>5. f \notin S
  BY <1>3
<1> QED
  BY <1>4, <1>5

(* The lots and the rows are of fills of the set.                          *)
LEMMA ConsumedOf ==
  ASSUME NEW S \in SUBSET Fills
  PROVE  DOMAIN Consumed[S].left \subseteq S
         /\ \A key \in DOMAIN Consumed[S].rows : key[1] \in S
<1> DEFINE pick == [s \in SUBSET S |-> Max(s)]
           T == {s \in SUBSET S : /\ DOMAIN Consumed[s].left \subseteq s
                                  /\ \A key \in DOMAIN Consumed[s].rows : key[1] \in s}
<1>1. IsFiniteSet(S) /\ Picks(pick, S)
  <2>1. IsFiniteSet(Fills)
    BY JournalAssumption
  <2>2. IsFiniteSet(S)
    BY ONLY <2>1, S \in SUBSET Fills, FS_Subset
  <2> QED
    BY <2>2, LatestFill DEF Picks
<1>2. {} \in T
  <2>1. Consumed[{}] = NothingConsumed
    BY ConsumedUnfolds
  <2> QED
    BY <2>1 DEF NothingConsumed
<1>3. ASSUME NEW s \in SUBSET S, s # {}, s \ {pick[s]} \in T PROVE s \in T
  <2> DEFINE rest == s \ {Max(s)}
             acc == Consumed[rest]
  <2>1. Max(s) \in s /\ rest \in T /\ s \in SUBSET Fills
    BY <1>3, LatestFill
  <2>2. Consumed[s] = Consume(acc, Max(s))
    BY <1>3, <2>1, ConsumedUnfolds
  <2>3. /\ DOMAIN acc.left \subseteq rest /\ rest \subseteq s
        /\ \A key \in DOMAIN acc.rows : key[1] \in rest
    BY <2>1
  <2> HIDE DEF acc, rest
  <2>4. /\ DOMAIN Consumed[s].left \subseteq DOMAIN acc.left \cup {Max(s)}
        /\ \A key \in DOMAIN Consumed[s].rows \ DOMAIN acc.rows : key[1] \in DOMAIN acc.left
    BY <2>2, ConsumeAdds
  <2> QED
    BY <2>1, <2>3, <2>4
<1>4. S \in T
  <2> HIDE DEF T, pick
  <2> QED
    BY <1>1, <1>2, <1>3, EveryPicked
<1> QED
  BY <1>4

(* The rest of each owned lot, and the segments.                           *)
LEMMA ReconstructedIs ==
  ASSUME NEW S \in SUBSET Fills
  PROVE  /\ Reconstructed[S] = RowsOf(S)
         /\ DOMAIN RowsOf(S) = ({lot \in DOMAIN Consumed[S].left : Owned(lot)} \X {Remaining})
                                  \cup DOMAIN Consumed[S].rows
<1>1. Reconstructed[S] = RowsOf(S)
  <2> DEFINE table == [s \in SUBSET Fills |-> RowsOf(s)]
  <2>1. Reconstructed = CHOOSE t \in {table} : t = t
    BY DEF Reconstructed
  <2>2. Reconstructed = table
    <3> HIDE DEF table
    <3> QED
      BY <2>1
  <2> QED
    BY <2>2
<1> DEFINE lots == {lot \in DOMAIN Consumed[S].left : Owned(lot)}
           rest == [key \in lots \X {Remaining} |-> Consumed[S].left[key[1]]]
<1>2. RowsOf(S) = Overlaid(rest, Consumed[S].rows) /\ DOMAIN rest = lots \X {Remaining}
  BY DEF RowsOf
<1> HIDE DEF rest, lots
<1>3. DOMAIN Overlaid(rest, Consumed[S].rows) = (lots \X {Remaining}) \cup DOMAIN Consumed[S].rows
  BY <1>2, OverlaidDomain
<1> QED
  BY <1>1, <1>2, <1>3 DEF lots

(* Every row is of a lot of the set, and none is given up for a later fill. *)
LEMMA ReconstructedOf ==
  ASSUME NEW S \in SUBSET Fills
  PROVE  \A key \in DOMAIN Reconstructed[S] : key[1] \in S
<1> DEFINE lots == {lot \in DOMAIN Consumed[S].left : Owned(lot)}
<1>1. DOMAIN Reconstructed[S] = (lots \X {Remaining}) \cup DOMAIN Consumed[S].rows
  BY ReconstructedIs
<1>2. lots \subseteq S /\ \A key \in DOMAIN Consumed[S].rows : key[1] \in S
  BY ConsumedOf
<1>3. \A key \in lots \X {Remaining} : key[1] \in lots
  OBVIOUS
<1> HIDE DEF lots
<1> QED
  BY <1>1, <1>2, <1>3

LEMMA ReconstructedGrows ==
  ASSUME NEW S \in SUBSET Fills, NEW f \in Fills, \A g \in S : g < f
  PROVE  DOMAIN Reconstructed[S] \subseteq DOMAIN Reconstructed[S \cup {f}]
<1> DEFINE T == S \cup {f}
<1>1. T \in SUBSET Fills /\ T # {} /\ Max(T) = f /\ T \ {f} = S
  BY LatestOfMore
<1>2. Consumed[T] = Consume(Consumed[S], f)
  <2> HIDE DEF T
  <2> QED
    BY <1>1, ConsumedUnfolds
<1> HIDE DEF T
<1>3. /\ DOMAIN Consumed[S].left \subseteq DOMAIN Consumed[T].left
      /\ DOMAIN Consumed[S].rows \subseteq DOMAIN Consumed[T].rows
  BY <1>2, ConsumeAdds
<1>4. /\ DOMAIN Reconstructed[S] = ({lot \in DOMAIN Consumed[S].left : Owned(lot)} \X {Remaining})
                                     \cup DOMAIN Consumed[S].rows
      /\ DOMAIN Reconstructed[T] = ({lot \in DOMAIN Consumed[T].left : Owned(lot)} \X {Remaining})
                                     \cup DOMAIN Consumed[T].rows
  BY <1>1, ReconstructedIs
<1>5. DOMAIN Reconstructed[S] \subseteq DOMAIN Reconstructed[T]
  BY <1>3, <1>4
<1> QED
  BY <1>5 DEF T

-----------------------------------------------------------------------------
(* The trades table and what was published before.                         *)

(* A sync reads all that was executed, in the order of execution.          *)
FillsInOrder ==
    /\ executed \subseteq Fills /\ local.fills \subseteq executed /\ sync.fills \subseteq executed
    /\ \A f \in executed, g \in Fills \ executed : f < g

(* A live row of an owned lot is one the next sync writes or finds again:   *)
(* the file says it published it, or no file does and the table is read.   *)
RowsFound ==
    \A key \in OfOwnedLot(Live(trades)) :
      \/ key \in local.published
      \/ key \in DOMAIN Reconstructed[executed]
      \/ local.published = {} /\ Conversions(executed) # {}

(* No row is of a lot that was not executed.                               *)
RowsExecuted ==
    \A key \in DOMAIN trades \cup local.published \cup DOMAIN sync.rows : key[1] \in executed

TradeInv ==
    /\ FillsInOrder
    /\ RowsExecuted
    /\ RowsFound
    /\ TradesExact

(* An empty table, or what the old accounting had written.                 *)
LEMMA TradeInitially ==
  ASSUME Init
  PROVE  TradeInv
<1>1. executed = Before /\ sync = NoSync /\ Before \subseteq Fills
      /\ \A f \in executed, g \in Fills \ executed : f < g
  BY JournalAssumption DEF Init, JournalInit
<1>2. TradesExact
  BY <1>1 DEF TradesExact, NoSync
<1>3. sync.fills \subseteq executed /\ DOMAIN sync.rows = {}
  BY <1>1 DEF NoSync
<1>4. CASE /\ trades = [key \in {} |-> 0]
           /\ local = [fills |-> {}, notified |-> {}, seeded |-> FALSE, published |-> {}]
  BY <1>1, <1>2, <1>3, <1>4 DEF TradeInv, FillsInOrder, RowsFound, RowsExecuted, OfOwnedLot, Live
<1>5. ASSUME NEW S \in {{f \in Before : f <= n} : n \in Before},
             Conversions(S) # {}, trades = LegacyTrades(S),
             local = [fills |-> S \ Conversions(S), notified |-> S \ Conversions(S),
                      seeded |-> TRUE, published |-> {}]
      PROVE  TradeInv
  <2>1. S \subseteq executed /\ S \ Conversions(S) \in SUBSET Fills
    BY <1>1
  <2>2. Conversions(executed) # {} /\ local.published = {} /\ local.fills \subseteq executed
    BY <1>5, <2>1 DEF Conversions
  <2>3. \A key \in DOMAIN trades : key[1] \in S \ Conversions(S)
    BY <1>5, <2>1, ReconstructedOf DEF LegacyTrades
  <2>4. \A key \in DOMAIN trades : key[1] \in executed
    BY <2>1, <2>3
  <2> QED
    BY <1>1, <1>2, <1>3, <2>2, <2>4 DEF TradeInv, FillsInOrder, RowsFound, RowsExecuted
<1> QED
  BY <1>4, <1>5 DEF Init, JournalInit

(* A sync writes all that is reconstructed and gives up the rest.          *)
LEMMA PublishTradesExact ==
  ASSUME TradeInv, PublishTrades
  PROVE  TradeInv'
<1> DEFINE rows == Reconstructed[executed]
           given == [key \in Previous |-> 0]
           rest == Overlaid(given, trades)
<1>1. Read = executed
  BY DEF TradeInv, FillsInOrder, Read
<1>2. /\ trades' = Overlaid(rows, rest) /\ executed' = executed /\ local' = local
      /\ sync'.fills = executed /\ sync'.rows = rows /\ sync'.step = "traded"
  BY <1>1 DEF PublishTrades
<1>3. executed \in SUBSET Fills
  BY DEF TradeInv, FillsInOrder
<1>4. \A key \in DOMAIN rows : key[1] \in executed
  BY <1>3, ReconstructedOf
<1>5. \A key \in Previous : key \in local.published \/ key \in DOMAIN trades
  BY DEF Previous
<1>6. DOMAIN given = Previous /\ \A key \in Previous : given[key] = 0
  OBVIOUS
<1> HIDE DEF rows, given
<1>7. DOMAIN rest = Previous \cup DOMAIN trades
  BY <1>6, OverlaidDomain
<1>8. \A key \in DOMAIN rest : rest[key] = IF key \in Previous THEN 0 ELSE trades[key]
  <2>1. ASSUME NEW key \in DOMAIN given \cup DOMAIN trades
        PROVE  rest[key] = IF key \in DOMAIN given THEN given[key] ELSE trades[key]
    BY OverlaidValue
  <2> QED
    BY <1>6, <1>7, <2>1
<1> HIDE DEF rest
<1>9. DOMAIN trades' = DOMAIN rows \cup DOMAIN rest
  BY <1>2, OverlaidDomain
<1>10. \A key \in DOMAIN trades' :
          trades'[key] = IF key \in DOMAIN rows THEN rows[key] ELSE rest[key]
  BY <1>2, <1>9, OverlaidValue
<1>11. ASSUME NEW key \in DOMAIN trades', key \notin DOMAIN rows, trades'[key] > 0, Owned(key[1])
       PROVE  FALSE
  <2>1. key \in DOMAIN rest /\ rest[key] > 0
    BY <1>9, <1>10, <1>11
  <2>2. key \notin Previous /\ key \in DOMAIN trades /\ trades[key] > 0
    BY <1>7, <1>8, <2>1
  <2>3. key \in OfOwnedLot(Live(trades)) /\ key[1] \in executed
    BY <1>11, <2>2 DEF OfOwnedLot, Live, TradeInv, RowsExecuted
  <2>4. key \in local.published \/ (local.published = {} /\ Conversions(executed) # {})
    BY <1>11, <2>3 DEF TradeInv, RowsFound, rows
  <2> QED
    BY <1>1, <1>11, <2>2, <2>3, <2>4 DEF Previous
<1>12. TradesExact'
  <2>1. \A key \in DOMAIN rows : trades'[key] = rows[key]
    BY <1>9, <1>10
  <2>2. ASSUME NEW key \in OfOwnedLot(Live(trades')) PROVE key \in Live(rows)
    <3>1. key \in DOMAIN trades' /\ trades'[key] > 0 /\ Owned(key[1])
      BY <2>2 DEF OfOwnedLot, Live
    <3>2. key \in DOMAIN rows
      BY <1>11, <3>1
    <3> QED
      BY <2>1, <3>1, <3>2 DEF Live
  <2> QED
    BY <1>2, <2>1, <2>2 DEF TradesExact
<1>13. RowsFound'
  <2>1. \A key \in OfOwnedLot(Live(trades')) : key \in DOMAIN rows
    BY <1>2, <1>12 DEF TradesExact, Live
  <2>2. Reconstructed[executed'] = rows
    BY <1>2 DEF rows
  <2> QED
    BY <2>1, <2>2 DEF RowsFound
<1>14. RowsExecuted'
  BY <1>2, <1>4, <1>5, <1>7, <1>9 DEF TradeInv, RowsExecuted
<1> QED
  BY <1>2, <1>12, <1>13, <1>14 DEF TradeInv, FillsInOrder

(* Everything else leaves the table and the sync alone.                    *)
LEMMA TradesKept ==
  ASSUME TradeInv, UNCHANGED <<executed, trades, local>>,
         UNCHANGED <<sync.step, sync.fills, sync.rows>>
  PROVE  TradeInv'
BY DEF TradeInv, FillsInOrder, RowsExecuted, RowsFound, TradesExact, OfOwnedLot,
                           Live, Conversions

(* The file now says what the sync wrote, and the table shows no more.     *)
LEMMA CommitExact ==
  ASSUME TradeInv, Commit
  PROVE  TradeInv'
<1>1. /\ trades' = trades /\ executed' = executed /\ sync' = NoSync /\ sync.step = "noticed"
      /\ local'.fills = sync.fills /\ local'.published = DOMAIN sync.rows
  BY DEF Commit, Settled
<1>2. sync'.step = "idle" /\ sync'.fills = {} /\ DOMAIN sync'.rows = {}
  BY <1>1 DEF NoSync
<1>3. RowsFound'
  BY <1>1 DEF TradeInv, TradesExact, RowsFound, OfOwnedLot, Live
<1> QED
  BY <1>1, <1>2, <1>3 DEF TradeInv, FillsInOrder, RowsExecuted, TradesExact

(* The file is as it was, and the next sync finds what this one wrote.     *)
LEMMA SyncFailsExact ==
  ASSUME TradeInv, SyncFails
  PROVE  TradeInv'
<1>1. trades' = trades /\ executed' = executed /\ local' = local /\ sync' = NoSync
  BY DEF SyncFails, RolledBack
<1>2. sync'.step = "idle" /\ sync'.fills = {} /\ DOMAIN sync'.rows = {}
  BY <1>1 DEF NoSync
<1> QED
  BY <1>1, <1>2 DEF TradeInv, FillsInOrder, RowsExecuted, TradesExact, RowsFound, OfOwnedLot, Live

(* No row is given up for a later fill.                                    *)
LEMMA FillExact ==
  ASSUME TradeInv, FillExecuted
  PROVE  TradeInv'
<1> DEFINE rest == Fills \ executed
           f == Min(rest)
<1>1. f \in rest /\ \A g \in rest : f <= g
  <2>1. IsFiniteSet(Fills) /\ Fills \subseteq Nat \ {0} /\ rest \in SUBSET Fills
    BY JournalAssumption
  <2>2. rest # {}
    BY DEF FillExecuted, TradeInv, FillsInOrder
  <2> HIDE DEF rest
  <2>3. IsFiniteSet(rest)
    BY ONLY <2>1, FS_Subset
  <2>4. rest \in SUBSET Int
    BY ONLY <2>1
  <2> QED
    BY <2>2, <2>3, <2>4, FiniteMin
<1>2. executed' = executed \cup {f} /\ trades' = trades /\ local' = local /\ sync' = sync
  BY DEF FillExecuted
<1> HIDE DEF f
<1>3. /\ f \in Fills /\ executed \in SUBSET Fills /\ \A g \in executed : g < f
  BY <1>1 DEF TradeInv, FillsInOrder
<1>4. \A g \in executed', h \in Fills \ executed' : g < h
  <2>1. Fills \subseteq Nat
    BY JournalAssumption
  <2>2. ASSUME NEW h \in Fills \ executed' PROVE f < h
    <3>1. f <= h /\ f # h
      BY <1>1, <1>2, <2>2
    <3> QED
      BY <1>3, <2>1, <3>1
  <2> QED
    BY <1>2, <2>2 DEF TradeInv, FillsInOrder
<1>5. FillsInOrder'
  BY <1>2, <1>3, <1>4 DEF TradeInv, FillsInOrder
<1>6. DOMAIN Reconstructed[executed] \subseteq DOMAIN Reconstructed[executed']
  BY <1>2, <1>3, ReconstructedGrows
<1>7. Conversions(executed) \subseteq Conversions(executed')
  BY <1>2 DEF Conversions
<1>8. RowsFound'
  BY <1>2, <1>6, <1>7 DEF TradeInv, RowsFound, OfOwnedLot, Live
<1>9. TradesExact'
  BY <1>2 DEF TradeInv, TradesExact, OfOwnedLot, Live
<1> QED
  BY <1>2, <1>5, <1>8, <1>9 DEF TradeInv, RowsExecuted

(* Every step keeps the invariant.                                         *)
LEMMA TradeStep ==
  ASSUME NoticeInv, TradeInv, [Next]_vars
  PROVE  TradeInv'
<1>1. CASE FillStep
  BY <1>1, FillExact DEF FillStep
<1>2. CASE SyncStep
  <2>1. CASE PublishTrades
    BY <2>1, PublishTradesExact
  <2>2. CASE PublishEvents
    <3>1. /\ UNCHANGED <<executed, trades, local>> /\ sync.step = "traded"
          /\ sync' = [step |-> "noticed", fills |-> sync.fills, rows |-> sync.rows, notices |-> {}]
      BY <2>2 DEF PublishEvents, NoticeInv, JournalOK
    <3>2. sync'.step = "noticed" /\ sync'.fills = sync.fills /\ sync'.rows = sync.rows
      BY <3>1
    <3> QED
      BY <3>1, <3>2 DEF TradeInv, FillsInOrder, RowsExecuted, RowsFound, TradesExact, OfOwnedLot,
                           Live, Conversions
  <2>3. CASE Commit
    BY <2>3, CommitExact
  <2> QED
    BY <1>2, <2>1, <2>2, <2>3 DEF SyncStep
<1>3. CASE SyncFailure
  <2>1. CASE SyncRefused
    BY <2>1, TradesKept DEF SyncRefused, journalVars
  <2>2. CASE SyncFails
    BY <2>2, SyncFailsExact
  <2> QED
    BY <1>3, <2>1, <2>2 DEF SyncFailure
<1>4. CASE ClockStep \/ OutboxStep \/ RelayStep \/ RelayFailure \/ UNCHANGED vars
  <2>1. UNCHANGED journalVars
    BY <1>4 DEF ClockStep, OutboxStep, RelayStep, RelayFailure, vars
  <2> QED
    BY <2>1, TradesKept DEF journalVars
<1> QED
  BY <1>1, <1>2, <1>3, <1>4 DEF Next

(* The trades table shows exactly the FIFO trades of the fills a sync has  *)
(* read, from its upsert to its commit: no row that a failed sync had       *)
(* written or that the accounting without conversions had is left, for any  *)
(* fills, amounts and failures (live_trade_journal.py:306-324).             *)
THEOREM TradesExactHolds == Spec => []TradesExact
<1>1. Init => TradeInv
  BY TradeInitially
<1>2. NoticeInv /\ TradeInv /\ [Next]_vars => TradeInv'
  BY TradeStep
<1>3. TradeInv => TradesExact
  BY DEF TradeInv
<1> QED
  BY <1>1, <1>2, <1>3, NoticesAlways, PTL DEF Spec
=============================================================================
