----------------------------- MODULE FileQueue -----------------------------
(***************************************************************************)
(* The durable task queue of src/app/queue.go (type FileQueue): a maildir  *)
(* with one directory per task state and one JSON file per task.  The      *)
(* variables are the directories as another process would list them; the   *)
(* operators are the file-system calls the queue's methods are made of,    *)
(* each of them atomic, and nothing larger is: a method that makes three   *)
(* calls is three steps of whoever runs it (module QueueDaemon).           *)
(*                                                                         *)
(* A file's NAME is its stamp (NextAt, or CreatedAt for a task never       *)
(* retried, in milliseconds) and the task's id; its CONTENT is the task,   *)
(* of which only the number of failed attempts matters here.               *)
(***************************************************************************)
EXTENDS Naturals, FiniteSets

CONSTANTS
    Task,        \* task ids (newRunID: random, never reused)
    Damaged,     \* ids of files whose content is not JSON (left by a power cut or by hand)
    MaxPending   \* FileQueue.maxPending

ASSUME QueueAssumption ==
    /\ Damaged \subseteq Task
    /\ MaxPending \in Nat \ {0}

VARIABLES
    dir,    \* the four directories: a set of files each
    tmp     \* names of the ".tmp" files lying in pending/

queueVars == <<dir, tmp>>

State == {"pending", "running", "done", "failed"}
File  == [id : Task, at : Nat, attempt : Nat]

Name(f)        == [id |-> f.id, at |-> f.at]
SameName(f, g) == f.id = g.id /\ f.at = g.at

\* os.Rename replaces a file of the same name; os.Remove of a missing one is not an error.
Put(files, f)  == {g \in files : ~SameName(f, g)} \cup {f}
Drop(files, f) == {g \in files : ~SameName(f, g)}

\* Files of task t that are still to be run, and files that record its outcome.
LiveCopies(t)    == {f \in dir["pending"] \cup dir["running"] : f.id = t}
OutcomeCopies(t) == {f \in dir["done"] \cup dir["failed"] : f.id = t}

QueueTypeOK ==
    /\ dir \in [State -> SUBSET File]
    /\ tmp \in SUBSET [id : Task, at : Nat]

QueueInit ==
    /\ dir = [s \in State |->
                IF s = "pending" THEN {[id |-> t, at |-> 0, attempt |-> 0] : t \in Damaged}
                                 ELSE {}]
    /\ tmp = {}
-----------------------------------------------------------------------------
\* Enqueue's admission test.  ReadDir counts every entry, the ".tmp" files included.
HasRoom == Cardinality(dir["pending"]) + Cardinality(tmp) < MaxPending

\* writeTo, first call: WriteFile of "<name>.tmp".  Only pending/ is ever counted, so the
\* ".tmp" files of done/ and failed/ change nothing anybody reads.
Stage(s, f) ==
    /\ tmp' = IF s = "pending" THEN tmp \cup {Name(f)} ELSE tmp
    /\ UNCHANGED dir

\* Mutant: a copy instead of the rename, the ".tmp" stays.
MutantLand(s, f) ==
    /\ dir' = [dir EXCEPT ![s] = Put(@, f)]
    /\ UNCHANGED tmp

\* writeTo, second call: Rename of the ".tmp" onto the final name.
Land(s, f) ==
    /\ dir' = [dir EXCEPT ![s] = Put(@, f)]
    /\ tmp' = IF s = "pending" THEN tmp \ {Name(f)} ELSE tmp

\* The Remove that ends Ack, Retry and Fail: the file claimed under the OLD name.
Remove(f) ==
    /\ dir' = [dir EXCEPT !["running"] = Drop(@, f)]
    /\ UNCHANGED tmp

\* The file tryClaim reaches first: names sort by stamp, and ids, being random, order the
\* files of one millisecond arbitrarily.  The scan stops at the first file not yet due.
IsNext(f, now) ==
    /\ f \in dir["pending"]
    /\ f.at <= now
    /\ \A g \in dir["pending"] : f.at <= g.at

NothingDue(now) == \A f \in dir["pending"] : f.at > now

\* Mutant: the claim copies the file instead of renaming it.
MutantTake(f) ==
    /\ dir' = [dir EXCEPT !["running"] = Put(@, f)]
    /\ UNCHANGED tmp

\* tryClaim: the rename that makes the claim.
Take(f) ==
    /\ dir' = [dir EXCEPT !["pending"] = @ \ {f}, !["running"] = Put(@, f)]
    /\ UNCHANGED tmp

\* tryClaim on a file it could not unmarshal: from running/ on to failed/.
Quarantine(f) ==
    /\ dir' = [dir EXCEPT !["running"] = Drop(@, f), !["failed"] = Put(@, f)]
    /\ UNCHANGED tmp

\* Recover: one rename of its loop.
PutBack(f) ==
    /\ dir' = [dir EXCEPT !["running"] = @ \ {f}, !["pending"] = Put(@, f)]
    /\ UNCHANGED tmp
=============================================================================
