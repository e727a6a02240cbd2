-------------------------- MODULE AccountMigration --------------------------
(* The reviewed migration of a credential-bound journal to UID ownership     *)
(* (account_migration.py), beside the executors of ExecutionOwnership.  The  *)
(* tool runs under both locks: prepare records what was reviewed in a plan;  *)
(* apply publishes a backup, an intent and the two account records, never    *)
(* over an existing file, and an interrupted apply is repeated by the        *)
(* operator.                                                                 *)
EXTENDS ExecutionOwnership, Sequences

CONSTANTS
    Proofs,       \* account observations an apply may receive
    MaxPlans      \* bound: plans prepared

ASSUME ProofAssumption == Proofs \subseteq Nat \ {0} /\ MaxPlans \in Nat

\* A copy of the journal, and the intent of a migration.
Backup == [rows : Nat, links : Nat]
Intent == [plan : Nat, record : Record]

ASSUME MissingAssumption == None \notin Backup \cup Intent

VARIABLES
    plans,        \* published plans: key, path and the journal as reviewed
    backup,       \* per plan: the copy and its number of hard links
    intent,       \* per path: <journal>.uid-migration-intent.json
    tool          \* per process: plan applied, journal seen, fresh observation

migration == <<plans, backup, intent, tool>>
allVars == <<vars, migration>>

NoTool == [plan |-> 0, file |-> Missing, fresh |-> 0]

MigrationInit ==
    /\ Init
    /\ plans = <<>>
    /\ backup = [n \in 1..MaxPlans |-> None]
    /\ intent = [j \in Journals |-> None]
    /\ tool = [p \in Procs |-> NoTool]

PlanOf(p) == plans[tool[p].plan]

\* journal_audit: only the original schema, with the submissions table alone.
OriginalSchema(j) == Exists(j) /\ ~journal[j].contexts
Unchanged(p) ==
    LET j == proc[p].journal IN
    /\ OriginalSchema(j) /\ journal[j] = tool[p].file
    /\ credBinding[j] = proc[p].cred /\ credRegistry[proc[p].cred] = j

-----------------------------------------------------------------------------
(* Both operations open the same scope: UID lock, key lock, owner records *)

StartPrepare(p, c, j) ==
    /\ At(p, "idle")
    /\ proc' = [proc EXCEPT ![p] = [Idle EXCEPT !.mode = "migrate", !.cred = c, !.journal = j,
                  !.fd = lockFile, !.pc = "lock"]]
    /\ UNCHANGED <<files, sent, faults, migration>>

StartApply(p, n) ==
    /\ At(p, "idle") /\ n \in DOMAIN plans
    /\ proc' = [proc EXCEPT ![p] = [Idle EXCEPT !.mode = "migrate", !.cred = plans[n].cred,
                  !.journal = plans[n].journal, !.fd = lockFile, !.pc = "lock"]]
    /\ tool' = [tool EXCEPT ![p].plan = n]
    /\ UNCHANGED <<files, sent, faults, plans, backup, intent>>

LockUid(p) ==
    /\ At(p, "lock") /\ UidFree(p)
    /\ proc' = [proc EXCEPT ![p].uid = TRUE, ![p].pc = "lockKey"]
    /\ UNCHANGED <<files, sent, faults, migration>>

LockKey(p) ==
    /\ At(p, "lockKey") /\ KeyFree(p)
    /\ proc' = [proc EXCEPT ![p].key = lockFile, ![p].pc = "scope"]
    /\ UNCHANGED <<files, sent, faults, migration>>

InScope(p) ==
    LET j == proc[p].journal IN
    At(p, "scope") /\ Exists(j) /\ credBinding[j] = proc[p].cred /\ credRegistry[proc[p].cred] = j

\* The journal and the owner inputs are read again before each publication.
Checked == [reviewed |-> "plan", observed |-> "copy", intent |-> "putIntent",
            owner |-> "putOwner", binding |-> "putBinding", after |-> "done"]

Snapshot(p) ==
    /\ proc[p].pc \in DOMAIN Checked /\ Unchanged(p)
    /\ Goto(p, Checked[proc[p].pc])
    /\ UNCHANGED <<files, sent, faults, migration>>

-----------------------------------------------------------------------------
(* prepare *)

Review(p) ==
    LET j == proc[p].journal IN
    /\ InScope(p) /\ tool[p].plan = 0
    /\ acctBinding[j] = None /\ acctRegistry = None /\ intent[j] = None
    /\ OriginalSchema(j)
    /\ tool' = [tool EXCEPT ![p].file = journal[j]]
    /\ Goto(p, "reviewed")
    /\ UNCHANGED <<files, sent, faults, plans, backup, intent>>

PublishPlan(p) ==
    /\ At(p, "plan") /\ Len(plans) < MaxPlans
    /\ plans' = Append(plans, [cred |-> proc[p].cred, journal |-> proc[p].journal,
                               file |-> tool[p].file])
    /\ Goto(p, "done")
    /\ UNCHANGED <<files, sent, faults, backup, intent, tool>>

-----------------------------------------------------------------------------
(* apply *)

\* The inputs are those of the plan, and the exchange confirms the UID again.
Observe(p) ==
    /\ InScope(p) /\ tool[p].plan # 0
    /\ OriginalSchema(proc[p].journal) /\ journal[proc[p].journal] = PlanOf(p).file
    /\ \E f \in Proofs :
         tool' = [tool EXCEPT ![p].file = PlanOf(p).file, ![p].fresh = f]
    /\ Goto(p, "observed")
    /\ UNCHANGED <<files, sent, faults, plans, backup, intent>>

\* mutant: a file with several names passes for a backup
AnyBackup(n) == TRUE

\* A copy of its own: one link, another inode than the journal.
Independent(n) == backup[n] # None /\ backup[n].links = 1

\* publish_new links a temporary file to the new name and then unlinks it.
PublishBackup(p) ==
    LET n == tool[p].plan
        rows == journal[proc[p].journal].rows
    IN  /\ At(p, "copy")
        /\ \/ /\ backup[n] = None
              /\ backup' = [backup EXCEPT ![n] = [rows |-> rows, links |-> 2]]
              /\ Goto(p, "unlink")
           \/ /\ backup[n] # None /\ Independent(n) /\ backup[n].rows = rows
              /\ Goto(p, "choose") /\ UNCHANGED backup
        /\ UNCHANGED <<files, sent, faults, plans, intent, tool>>

UnlinkTemporary(p) ==
    /\ At(p, "unlink")
    /\ backup' = [backup EXCEPT ![tool[p].plan].links = 1]
    /\ Goto(p, "choose")
    /\ UNCHANGED <<files, sent, faults, plans, intent, tool>>

FreshRecord(p) ==
    [cred |-> proc[p].cred, journal |-> proc[p].journal,
     inode |-> journal[proc[p].journal].inode, proof |-> tool[p].fresh]

\* mutant: every apply starts from its own observation
OwnRecord(p) == FreshRecord(p)

\* An interrupted migration goes on with the record of its intent.
ResumedRecord(p) ==
    LET i == intent[proc[p].journal] IN IF i = None THEN FreshRecord(p) ELSE i.record

\* Another plan, or owners that no intent explains, are refused.
Choosable(p) ==
    LET j == proc[p].journal
        n == tool[p].plan
        r == ResumedRecord(p)
    IN  /\ Independent(n) /\ backup[n].rows = PlanOf(p).file.rows
        /\ \/ intent[j] = None /\ acctBinding[j] = None /\ acctRegistry = None
           \/ intent[j] # None /\ intent[j].plan = n
        /\ ValidRecord(r, proc[p].cred, j)
        /\ acctRegistry \in {None, r} /\ acctBinding[j] \in {None, r}

ChooseRecord(p) ==
    /\ At(p, "choose") /\ Choosable(p)
    /\ proc' = [proc EXCEPT ![p].lease = ResumedRecord(p), ![p].pc = "intent"]
    /\ UNCHANGED <<files, sent, faults, migration>>

PublishIntent(p) ==
    LET j == proc[p].journal
        new == [plan |-> tool[p].plan, record |-> proc[p].lease]
    IN  /\ At(p, "putIntent") /\ intent[j] \in {None, new}
        /\ intent' = [intent EXCEPT ![j] = new]
        /\ Goto(p, "owner")
        /\ UNCHANGED <<files, sent, faults, plans, backup, tool>>

PublishOwner(p) ==
    /\ At(p, "putOwner") /\ acctRegistry \in {None, proc[p].lease}
    /\ acctRegistry' = proc[p].lease
    /\ Goto(p, "binding")
    /\ UNCHANGED <<lockFile, journal, credBinding, credRegistry, acctBinding, inodes,
                   sent, faults, migration>>

PublishOwnerBinding(p) ==
    LET j == proc[p].journal IN
    /\ At(p, "putBinding") /\ acctBinding[j] \in {None, proc[p].lease}
    /\ acctBinding' = [acctBinding EXCEPT ![j] = proc[p].lease]
    /\ Goto(p, "after")
    /\ UNCHANGED <<lockFile, journal, credBinding, credRegistry, acctRegistry, inodes,
                   sent, faults, migration>>

\* The tool ends, is refused or is killed; the executors' steps.
EndTool(p) == End(p) /\ tool' = [tool EXCEPT ![p] = NoTool] /\ UNCHANGED <<plans, backup, intent>>
Executor(p) == Lease(p) /\ proc[p].mode # "migrate" /\ UNCHANGED migration

\* A program that takes no lock writes to the journal during the maintenance.
ForeignWrite(j) ==
    /\ Fault /\ Exists(j) /\ journal[j].rows < MaxRows
    /\ journal' = [journal EXCEPT ![j].rows = @ + 1]
    /\ UNCHANGED <<lockFile, credBinding, credRegistry, acctBinding, acctRegistry, inodes,
                   migration>>

Apply(p) ==
    \/ \E n \in 1..MaxPlans : StartApply(p, n)
    \/ LockUid(p) \/ LockKey(p) \/ Observe(p) \/ Snapshot(p)
    \/ PublishBackup(p) \/ UnlinkTemporary(p) \/ ChooseRecord(p)
    \/ PublishIntent(p) \/ PublishOwner(p) \/ PublishOwnerBinding(p)

Tool(p) ==
    \/ \E c \in Creds, j \in Journals : StartPrepare(p, c, j)
    \/ Review(p) \/ PublishPlan(p) \/ Apply(p)
    \/ proc[p].mode = "migrate" /\ EndTool(p)

MigrationNext ==
    \/ Outside /\ UNCHANGED migration
    \/ \E j \in Journals : ForeignWrite(j)
    \/ \E p \in Procs : Executor(p) \/ Tool(p)

MigrationSpec == MigrationInit /\ [][MigrationNext]_allVars

-----------------------------------------------------------------------------
(* Properties *)

\* No owner record or intent exists before a copy of the reviewed journal that
\* no other name can change, also when an earlier apply died while publishing
\* that copy.
BackedUp ==
    \A j \in Journals : intent[j] # None =>
        LET n == intent[j].plan IN
        /\ plans[n].journal = j /\ backup[n] = [rows |-> plans[n].file.rows, links |-> 1]
        /\ intent[j].record.inode = plans[n].file.inode

\* A repetition of an apply that has published its intent, whose inputs are kept:
\* the journal is what was reviewed and nothing was lost or changed by others.
InputsKept(j) == faults = 0 /\ journal[j] = plans[intent[j].plan].file
RepeatedApply(p) ==
    LET i == intent[proc[p].journal]
    IN  tool[p].plan # 0 /\ i # None /\ i.plan = tool[p].plan /\ InputsKept(proc[p].journal)
StepAccepted(p) ==
    LET j == proc[p].journal
        n == tool[p].plan
    IN  /\ At(p, "copy") => Independent(n) /\ backup[n].rows = journal[j].rows
        /\ At(p, "choose") => Choosable(p)
        /\ At(p, "putIntent") => intent[j].record = proc[p].lease
        /\ At(p, "putOwner") => acctRegistry \in {None, proc[p].lease}
        /\ At(p, "putBinding") => acctBinding[j] \in {None, proc[p].lease}

\* A migration that has published its intent is finished by repeating the same
\* apply: no step of a repetition is refused, whatever the interrupted one left
\* behind and whoever ran in between, unless a key of the account that the plan
\* does not name took the account meanwhile (account_migration.py:239-296).
RepetitionAccepted ==
    \A p \in Procs :
        RepeatedApply(p) /\ (acctRegistry = None \/ acctRegistry.journal = proc[p].journal)
          => StepAccepted(p)

\* prepare accepts the journals that the executor keeps under its own leases:
\* it never turns one down for its schema.
ExecutorJournalsMigrate ==
    \A p \in Procs : InScope(p) => OriginalSchema(proc[p].journal)
=============================================================================
