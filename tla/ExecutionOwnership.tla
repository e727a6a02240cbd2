------------------------- MODULE ExecutionOwnership -------------------------
(* The local leases under which an executor may submit orders               *)
(* (execution_ownership.py, account_ownership.py): one process per API      *)
(* credential, one per verified account UID, each tied to one submission    *)
(* journal by records that are published with os.link and never replaced.   *)
(* One account, one host and one endpoint; the credentials are API keys of  *)
(* that account.  A process may end at every step: a refused check, an      *)
(* exception and a kill all release its file locks and nothing else.        *)
EXTENDS Naturals, FiniteSets

CONSTANTS
    Procs,        \* processes that may start an executor
    Creds,        \* API keys of the account
    Journals,     \* paths of submission journals
    Legacy,       \* [subset of Journals -> Creds]: bound by an earlier release
    MaxRows,      \* bound: rows prepared in one journal
    MaxFaults,    \* bound: files replaced or lost
    None

ASSUME LegacyAssumption ==
    /\ Legacy \in UNION {[S -> Creds] : S \in SUBSET Journals}
    /\ \A i, j \in DOMAIN Legacy : Legacy[i] = Legacy[j] => i = j
ASSUME BoundAssumption == MaxRows \in Nat \ {0} /\ MaxFaults \in Nat
\* An account owner record.
Record == [cred : Creds, journal : Journals, inode : Nat, proof : Nat]

ASSUME NoneAssumption == None \notin Creds \cup Journals \cup Record

VARIABLES
    lockFile,     \* inodes of the lock files: their generation
    journal,      \* per path: the SQLite file, with the tables it has
    credBinding,  \* per path: <journal>.owner.json
    credRegistry, \* per key: the owner record in the lock directory
    acctBinding,  \* per path: <journal>.account-owner.json
    acctRegistry, \* the account's owner record in the lock directory
    inodes,       \* inode numbers given out so far
    proc,         \* per process: where it is and what it holds
    sent,         \* history: orders posted, with the file that has their row
    faults

files == <<lockFile, journal, credBinding, credRegistry, acctBinding, acctRegistry, inodes>>
vars == <<files, proc, sent, faults>>

Modes == {"credential", "account"}
Missing == [inode |-> 0, rows |-> 0, contexts |-> FALSE]
Exists(j) == journal[j].inode # 0
NoSight == [registry |-> None, binding |-> None, cred |-> None]
Idle == [pc |-> "idle", mode |-> None, cred |-> None, journal |-> None, fd |-> 0,
         uid |-> FALSE, key |-> 0, lease |-> None, seen |-> NoSight, row |-> 0]

Init ==
    /\ lockFile = 1
    /\ inodes = 1
    /\ journal = [j \in Journals |-> IF j \in DOMAIN Legacy
                    THEN [inode |-> 1, rows |-> 1, contexts |-> FALSE] ELSE Missing]
    /\ credBinding = [j \in Journals |-> IF j \in DOMAIN Legacy THEN Legacy[j] ELSE None]
    /\ credRegistry = [c \in Creds |-> IF \E j \in DOMAIN Legacy : Legacy[j] = c
                         THEN CHOOSE j \in DOMAIN Legacy : Legacy[j] = c ELSE None]
    /\ acctBinding = [j \in Journals |-> None]
    /\ acctRegistry = None
    /\ proc = [p \in Procs |-> Idle]
    /\ sent = {}
    /\ faults = 0

At(p, step) == proc[p].pc = step
Goto(p, step) == proc' = [proc EXCEPT ![p].pc = step]

-----------------------------------------------------------------------------
(* Taking the lease *)

\* The account lease opens the UID lock file before it locks it.
Start(p, m, c, j) ==
    /\ At(p, "idle")
    /\ proc' = [proc EXCEPT ![p] = [Idle EXCEPT !.mode = m, !.cred = c, !.journal = j,
                  !.fd = IF m = "account" THEN lockFile ELSE 0,
                  !.pc = IF m = "account" THEN "uid" ELSE "key"]]
    /\ UNCHANGED <<files, sent, faults>>

\* flock is held on the inode that was opened, whatever the path names by now.
UidFree(p) == \A q \in Procs : ~(proc[q].uid /\ proc[q].fd = proc[p].fd)

TakeUid(p) ==
    /\ At(p, "uid") /\ UidFree(p)
    /\ proc' = [proc EXCEPT ![p].uid = TRUE, ![p].pc = "inspect"]
    /\ UNCHANGED <<files, sent, faults>>

\* Both records, the journal and this owner agree.
ValidRecord(r, c, j) == r.cred = c /\ r.journal = j /\ r.inode = journal[j].inode

InspectKnown(p) ==
    LET j == proc[p].journal IN
    /\ At(p, "inspect")
    /\ acctRegistry # None /\ acctBinding[j] = acctRegistry /\ Exists(j)
    /\ ValidRecord(acctRegistry, proc[p].cred, j)
    /\ proc' = [proc EXCEPT ![p].lease = acctRegistry, ![p].pc = "key"]
    /\ UNCHANGED <<files, sent, faults>>

\* Nothing of the journal exists and the exchange confirms the key's UID.
InspectFresh(p) ==
    LET j == proc[p].journal IN
    /\ At(p, "inspect")
    /\ acctRegistry = None /\ acctBinding[j] = None
    /\ ~Exists(j) /\ credBinding[j] = None
    /\ Goto(p, "key")
    /\ UNCHANGED <<files, sent, faults>>

KeyFree(p) == \A q \in Procs : ~(proc[q].key = lockFile /\ proc[q].cred = proc[p].cred)

TakeKey(p) ==
    /\ At(p, "key") /\ KeyFree(p)
    /\ proc' = [proc EXCEPT ![p].key = lockFile, ![p].pc = "bind"]
    /\ UNCHANGED <<files, sent, faults>>

\* mutant: a registered key may choose a new journal path
AnyPath(c, j) == TRUE

RegistryAdmits(c, j) == credRegistry[c] \in {None, j}

\* A bound journal must exist; an unbound one must not.
CheckBinding(p) ==
    LET j == proc[p].journal
        c == proc[p].cred
    IN  /\ At(p, "bind") /\ RegistryAdmits(c, j)
        /\ \/ credBinding[j] = c /\ Exists(j) /\ Goto(p, "create")
           \/ credBinding[j] = None /\ ~Exists(j) /\ Goto(p, "link")
        /\ UNCHANGED <<files, sent, faults>>

\* mutant: the record is moved into place over an existing one
ReplaceBinding(p) ==
    LET j == proc[p].journal IN
    /\ At(p, "link")
    /\ credBinding' = [credBinding EXCEPT ![j] = proc[p].cred]
    /\ Goto(p, "create")
    /\ UNCHANGED <<lockFile, journal, credRegistry, acctBinding, acctRegistry, inodes, sent,
                   faults>>

\* os.link fails when another process has published the record meanwhile.
LinkBinding(p) ==
    LET j == proc[p].journal IN
    /\ At(p, "link") /\ credBinding[j] = None
    /\ credBinding' = [credBinding EXCEPT ![j] = proc[p].cred]
    /\ Goto(p, "create")
    /\ UNCHANGED <<lockFile, journal, credRegistry, acctBinding, acctRegistry, inodes, sent,
                   faults>>

NewJournal == [inode |-> inodes + 1, rows |-> 0, contexts |-> TRUE]

\* mutant: every start begins with an empty database
CreatedAnew(j) == NewJournal

\* The constructor makes the missing tables of a new or of an older database.
Created(j) == IF Exists(j) THEN [journal[j] EXCEPT !.contexts = TRUE] ELSE NewJournal

CreateJournal(p) ==
    LET j == proc[p].journal IN
    /\ At(p, "create")
    /\ journal' = [journal EXCEPT ![j] = Created(j)]
    /\ inodes' = IF journal'[j].inode > inodes THEN journal'[j].inode ELSE inodes
    /\ Goto(p, "register")
    /\ UNCHANGED <<lockFile, credBinding, credRegistry, acctBinding, acctRegistry, sent, faults>>

\* The key's registry is written once.
Register(p) ==
    /\ At(p, "register")
    /\ credRegistry' = [credRegistry EXCEPT ![proc[p].cred] =
         IF @ = None THEN proc[p].journal ELSE @]
    /\ \/ proc[p].mode = "credential" /\ Goto(p, "active")
       \/ proc[p].mode = "account" /\ proc[p].lease # None /\ Goto(p, "confirm")
       \/ proc[p].mode = "account" /\ proc[p].lease = None /\ Goto(p, "record")
    /\ UNCHANGED <<lockFile, journal, credBinding, acctBinding, acctRegistry, inodes, sent, faults>>

\* A first account lease notes the inode of the journal it has just created.
NewRecord(p) ==
    LET j == proc[p].journal IN
    /\ At(p, "record") /\ Exists(j)
    /\ proc' = [proc EXCEPT ![p].pc = "publish", ![p].lease =
         [cred |-> proc[p].cred, journal |-> j, inode |-> journal[j].inode, proof |-> 0]]
    /\ UNCHANGED <<files, sent, faults>>

PublishRegistry(p) ==
    /\ At(p, "publish") /\ acctRegistry = None
    /\ acctRegistry' = proc[p].lease
    /\ Goto(p, "sidecar")
    /\ UNCHANGED <<lockFile, journal, credBinding, credRegistry, acctBinding, inodes, sent, faults>>

PublishBinding(p) ==
    LET j == proc[p].journal IN
    /\ At(p, "sidecar") /\ acctBinding[j] = None
    /\ acctBinding' = [acctBinding EXCEPT ![j] = proc[p].lease]
    /\ Goto(p, "confirm")
    /\ UNCHANGED <<lockFile, journal, credBinding, credRegistry, acctRegistry, inodes, sent,
                   faults>>

\* The bytes of the three owner records, as a lease remembers them.
Sight(j) == [registry |-> acctRegistry, binding |-> acctBinding[j], cred |-> credBinding[j]]
Readable(j) == acctRegistry # None /\ acctBinding[j] # None /\ credBinding[j] # None

\* mutants: the lock file, or the journal, is not looked at again
AnyLock(p) == TRUE
AnyJournal(p) == TRUE

SameLock(p) == proc[p].fd = lockFile
SameJournal(p) == proc[p].lease.inode = journal[proc[p].journal].inode

Confirm(p) ==
    LET j == proc[p].journal IN
    /\ At(p, "confirm") /\ Readable(j) /\ SameLock(p) /\ SameJournal(p)
    /\ proc' = [proc EXCEPT ![p].seen = Sight(j), ![p].pc = "active"]
    /\ UNCHANGED <<files, sent, faults>>

-----------------------------------------------------------------------------
(* Submitting under the lease *)

\* assert_held: what every account-mode submission checks again.
Held(p) == SameLock(p) /\ SameJournal(p) /\ proc[p].seen = Sight(proc[p].journal)

\* The journal is opened by its path and the row is committed first ...
Prepare(p) ==
    LET j == proc[p].journal IN
    /\ At(p, "active") /\ Exists(j) /\ journal[j].rows < MaxRows
    /\ journal' = [journal EXCEPT ![j].rows = @ + 1]
    /\ proc' = [proc EXCEPT ![p].row = journal[j].inode, ![p].pc = "prepared"]
    /\ UNCHANGED <<lockFile, credBinding, credRegistry, acctBinding, acctRegistry, inodes,
                   sent, faults>>

\* ... the lease is asserted by the wrapper around the exchange client ...
AssertHeld(p) ==
    /\ At(p, "prepared")
    /\ \/ (proc[p].mode = "account" => Held(p)) /\ Goto(p, "sending")
       \/ proc[p].mode = "account" /\ ~Held(p) /\ Goto(p, "active")
    /\ UNCHANGED <<files, sent, faults>>

\* ... and the order is posted, whatever has changed since.
Send(p) ==
    /\ At(p, "sending")
    /\ sent' = sent \cup {[mode |-> proc[p].mode, cred |-> proc[p].cred,
                           journal |-> proc[p].journal, inode |-> proc[p].row]}
    /\ Goto(p, "active")
    /\ UNCHANGED <<files, faults>>

\* The end of the cycle, a refused check, an exception or a kill.
End(p) ==
    /\ ~At(p, "idle")
    /\ proc' = [proc EXCEPT ![p] = Idle]
    /\ UNCHANGED <<files, sent, faults>>

-----------------------------------------------------------------------------
(* What may happen to the files from outside *)

Fault == faults < MaxFaults /\ faults' = faults + 1 /\ UNCHANGED <<proc, sent>>

\* The *.lock files are cleared away; the next open creates new ones.
ReplaceLocks ==
    /\ Fault
    /\ lockFile' = inodes + 1 /\ inodes' = inodes + 1
    /\ UNCHANGED <<journal, credBinding, credRegistry, acctBinding, acctRegistry>>

\* A copy is moved over the journal, as when a backup is restored.
ReplaceJournal(j) ==
    /\ Fault /\ Exists(j)
    /\ journal' = [journal EXCEPT ![j].inode = inodes + 1] /\ inodes' = inodes + 1
    /\ UNCHANGED <<lockFile, credBinding, credRegistry, acctBinding, acctRegistry>>

\* The journal is removed while no executor is using it.
LoseJournal(j) ==
    /\ Fault /\ Exists(j) /\ \A p \in Procs : proc[p].journal # j
    /\ journal' = [journal EXCEPT ![j] = Missing]
    /\ UNCHANGED <<lockFile, credBinding, credRegistry, acctBinding, acctRegistry, inodes>>

LoseSidecar(j) ==
    /\ Fault
    /\ \/ /\ credBinding[j] # None /\ credBinding' = [credBinding EXCEPT ![j] = None]
          /\ UNCHANGED acctBinding
       \/ /\ acctBinding[j] # None /\ acctBinding' = [acctBinding EXCEPT ![j] = None]
          /\ UNCHANGED credBinding
    /\ UNCHANGED <<lockFile, journal, credRegistry, acctRegistry, inodes>>

Lease(p) ==
    \/ \E m \in Modes, c \in Creds, j \in Journals : Start(p, m, c, j)
    \/ TakeUid(p) \/ InspectKnown(p) \/ InspectFresh(p)
    \/ TakeKey(p) \/ CheckBinding(p) \/ LinkBinding(p) \/ CreateJournal(p)
    \/ Register(p) \/ NewRecord(p) \/ PublishRegistry(p) \/ PublishBinding(p) \/ Confirm(p)
    \/ Prepare(p) \/ AssertHeld(p) \/ Send(p) \/ End(p)

Outside ==
    \/ ReplaceLocks
    \/ \E j \in Journals : ReplaceJournal(j) \/ LoseJournal(j) \/ LoseSidecar(j)

Next == Outside \/ \E p \in Procs : Lease(p)

Spec == Init /\ [][Next]_vars

-----------------------------------------------------------------------------
(* Properties *)

Steps == {"idle", "uid", "inspect", "key", "bind", "link", "create", "register",
          "record", "publish", "sidecar", "confirm", "active", "prepared", "sending"}
\* the steps of the migration tool (AccountMigration)
ToolSteps == {"lock", "lockKey", "scope", "reviewed", "plan", "observed", "copy", "unlink",
              "choose", "intent", "putIntent", "owner", "putOwner", "binding", "putBinding",
              "after", "done"}

Sights == [registry : Record \cup {None}, binding : Record \cup {None}, cred : Creds \cup {None}]
Processes ==
    [pc : Steps \cup ToolSteps, mode : Modes \cup {"migrate", None},
     cred : Creds \cup {None}, journal : Journals \cup {None}, fd : Nat, uid : BOOLEAN,
     key : Nat, lease : Record \cup {None}, seen : Sights, row : Nat]

\* Type correctness of the files, the processes and the history.
TypeOK ==
    /\ lockFile \in Nat /\ inodes \in Nat /\ faults \in 0..MaxFaults
    /\ journal \in [Journals -> [inode : Nat, rows : 0..MaxRows, contexts : BOOLEAN]]
    /\ credBinding \in [Journals -> Creds \cup {None}]
    /\ credRegistry \in [Creds -> Journals \cup {None}]
    /\ acctBinding \in [Journals -> Record \cup {None}]
    /\ acctRegistry \in Record \cup {None}
    /\ proc \in [Procs -> Processes]
    /\ sent \subseteq [mode : Modes, cred : Creds, journal : Journals, inode : Nat]

\* The lock files may be replaced under a running executor, and a second one may
\* then take the new locks: still at most one of them can pass
\* assert_held, so at most one can start another submission.
OneHolder ==
    \A p, q \in Procs :
        /\ proc[p].mode = "account" /\ proc[p].pc \in {"active", "prepared"} /\ Held(p)
        /\ proc[q].mode = "account" /\ proc[q].pc \in {"active", "prepared"} /\ Held(q)
        => p = q

\* Over restarts, crashes and either mode, the orders of one API key are all
\* recorded in the journal of one path: choosing another database never
\* forgets the unresolved orders of the first (credential owner registry).
\* It rests on the key's lock, which nothing checks again once it is taken.
OneJournalPerCredential ==
    lockFile = 1 => \A s, t \in sent : s.cred = t.cred => s.journal = t.journal

\* All orders of the account sent in account mode, by whatever key, have their
\* row in one and the same file, also when a copy was put in its place
\* (account registry and journal inode).
OneLedgerPerAccount ==
    \A s, t \in sent : s.mode = "account" /\ t.mode = "account"
        => s.cred = t.cred /\ s.journal = t.journal /\ s.inode = t.inode

\* Ownership is durable before the first order: unless files are tampered with,
\* the owner of a sent order finds, after a crash at any later step, every
\* record and the file that a restart demands.
CompleteBeforeSend ==
    faults = 0 => \A s \in sent :
        /\ credRegistry[s.cred] = s.journal /\ credBinding[s.journal] = s.cred
        /\ journal[s.journal].inode = s.inode
        /\ s.mode = "account" =>
             /\ acctRegistry # None /\ ValidRecord(acctRegistry, s.cred, s.journal)
             /\ acctBinding[s.journal] = acctRegistry

\* No executor step changes an owner record that exists: two processes that
\* saw the same free path cannot both bind it.
Kept(old, new) == old # None => new = old
OwnersNeverReplaced ==
    [][ faults' = faults =>
          /\ \A j \in Journals : /\ Kept(credBinding[j], credBinding'[j])
                                 /\ Kept(acctBinding[j], acctBinding'[j])
          /\ \A c \in Creds : Kept(credRegistry[c], credRegistry'[c])
          /\ Kept(acctRegistry, acctRegistry') ]_vars
=============================================================================
