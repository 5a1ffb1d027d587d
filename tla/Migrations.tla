----------------------------- MODULE Migrations -----------------------------
(***************************************************************************)
(* The migration runner.  A run reads the release's migrations, compares   *)
(* the ledger with them and then applies what is pending, each in a        *)
(* transaction of its own with its ledger row; down takes back the newest. *)
(* No lock covers a run: several runners work on one database (an operator *)
(* and a development server that migrates at its start), and each may die  *)
(* at any step.                                                            *)
(***************************************************************************)
EXTENDS Integers, FiniteSets, FiniteSetsExt

CONSTANTS Version,    \* 1..n, in the order of their text
          Runner, MaxRuns

Checksum == {1, 2}    \* a file as it was, and edited since

VARIABLES files,   \* the release's migrations and their checksums, 0: none
          ledger,  \* committed rows of schema_migration, 0: none
          effect,  \* how often a version's statements are in the schema
          run,     \* a runner's run
          runs
vars == <<files, ledger, effect, run, runs>>

Idle == [pc |-> "idle"]
Present(table) == {v \in Version : table[v] # 0}

TypeOK ==
  /\ files \in [Version -> 0..2] /\ ledger \in [Version -> 0..2]
  /\ effect \in [Version -> -1..2] /\ runs \in 0..MaxRuns
  /\ \A r \in Runner : run[r].pc \in {"idle", "next", "open", "inserted", "down", "deleted"}

Init ==
  /\ files \in {f \in [Version -> 0..1] : f[Min(Version)] = 1}
  /\ ledger = [v \in Version |-> 0] /\ effect = [v \in Version |-> 0]
  /\ run = [r \in Runner |-> Idle] /\ runs = 0

(* A file is added to the release, or edited.                               *)
ChangeFile(v) ==
  /\ \A r \in Runner : run[r] = Idle
  /\ files[v] < 2 /\ files' = [files EXCEPT ![v] = @ + 1]
  /\ UNCHANGED <<ledger, effect, run, runs>>

(* verifyAppliedChecksums: every ledger row names a migration of the        *)
(* release, unchanged.                                                      *)
Verified == \A v \in Present(ledger) : files[v] = ledger[v]

(* Mutant: the ledger is compared by version alone.                         *)
BeginUpUnverified(r) ==
  /\ run[r] = Idle /\ runs < MaxRuns
  /\ run' = [run EXCEPT ![r] = [pc |-> "next", pending |-> Present(files) \ Present(ledger), at |-> 0]]
  /\ runs' = runs + 1 /\ UNCHANGED <<files, ledger, effect>>

BeginUp(r) ==
  /\ run[r] = Idle /\ runs < MaxRuns /\ Verified
  /\ run' = [run EXCEPT ![r] = [pc |-> "next", pending |-> Present(files) \ Present(ledger), at |-> 0]]
  /\ runs' = runs + 1 /\ UNCHANGED <<files, ledger, effect>>

BeginDown(r) ==
  /\ run[r] = Idle /\ runs < MaxRuns /\ Verified /\ Present(ledger) # {}
  /\ run' = [run EXCEPT ![r] = [pc |-> "down", pending |-> {}, at |-> Max(Present(ledger))]]
  /\ runs' = runs + 1 /\ UNCHANGED <<files, ledger, effect>>

(* BEGIN, and the lowest pending migration's statements.                    *)
Execute(r) ==
  /\ run[r].pc = "next" /\ run[r].pending # {}
  /\ LET v == Min(run[r].pending) IN
     run' = [run EXCEPT ![r] = [pc |-> "open", pending |-> @.pending \ {v}, at |-> v]]
  /\ UNCHANGED <<files, ledger, effect, runs>>

(* The statements fail, or the connection does: ROLLBACK, and the run ends  *)
(* with an error.                                                           *)
Stop(r) ==
  /\ run[r] # Idle /\ run' = [run EXCEPT ![r] = Idle]
  /\ UNCHANGED <<files, ledger, effect, runs>>

Holds(v) == \E s \in Runner : run[s].pc = "inserted" /\ run[s].at = v

(* Mutant: the statements are committed before the ledger row.              *)
InsertLedgerLater(r) ==
  /\ run[r].pc = "open" /\ effect' = [effect EXCEPT ![run[r].at] = @ + 1]
  /\ run' = [run EXCEPT ![r].pc = "inserted"]
  /\ UNCHANGED <<files, ledger, runs>>

(* The ledger row: its key is taken by one transaction at a time, and a key *)
(* that has been committed meanwhile refuses it (Stop).                     *)
InsertLedger(r) ==
  /\ run[r].pc = "open" /\ ~Holds(run[r].at) /\ ledger[run[r].at] = 0
  /\ run' = [run EXCEPT ![r].pc = "inserted"]
  /\ UNCHANGED <<files, ledger, effect, runs>>

Commit(r) ==
  /\ run[r].pc = "inserted"
  /\ ledger' = [ledger EXCEPT ![run[r].at] = files[run[r].at]]
  /\ effect' = [effect EXCEPT ![run[r].at] = @ + 1]
  /\ run' = [run EXCEPT ![r].pc = "next"]
  /\ UNCHANGED <<files, runs>>

(* The down statements undo what is there; the row that is already gone is  *)
(* no error, but statements that find nothing to undo are (Stop).           *)
ExecuteDown(r) ==
  /\ run[r].pc = "down" /\ effect[run[r].at] = 1
  /\ ~\E s \in Runner : run[s].pc = "deleted" /\ run[s].at = run[r].at
  /\ run' = [run EXCEPT ![r].pc = "deleted"]
  /\ UNCHANGED <<files, ledger, effect, runs>>

CommitDown(r) ==
  /\ run[r].pc = "deleted"
  /\ ledger' = [ledger EXCEPT ![run[r].at] = 0]
  /\ effect' = [effect EXCEPT ![run[r].at] = @ - 1]
  /\ run' = [run EXCEPT ![r] = Idle]
  /\ UNCHANGED <<files, runs>>

Done(r) ==
  /\ run[r].pc = "next" /\ run[r].pending = {}
  /\ run' = [run EXCEPT ![r] = Idle]
  /\ UNCHANGED <<files, ledger, effect, runs>>

Next ==
  \/ \E v \in Version : ChangeFile(v)
  \/ \E r \in Runner : BeginUp(r) \/ BeginDown(r) \/ Execute(r) \/ Stop(r) \/ InsertLedger(r)
                       \/ Commit(r) \/ ExecuteDown(r) \/ CommitDown(r) \/ Done(r)
Spec == Init /\ [][Next]_vars

----------------------------------------------------------------------------
(* The ledger tells the schema: a version's statements are in the schema    *)
(* once if its row is there and not at all otherwise, however many runners  *)
(* work at once and wherever they die.                                      *)
LedgerTellsTheSchema == \A v \in Version : effect[v] = (IF ledger[v] = 0 THEN 0 ELSE 1)

(* Nothing is applied on top of a migration that was edited after it had    *)
(* been applied.                                                            *)
NothingOnEdited ==
  [][ledger' # ledger => \A v \in Present(ledger) : files[v] = ledger[v]]_vars
=============================================================================
