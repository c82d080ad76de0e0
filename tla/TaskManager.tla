------------------------------ MODULE TaskManager ------------------------------
(***************************************************************************)
(* core/task and the task_* tools: the task files of one run.  The manager *)
(* awaits nothing, so a call is one step; a write that fails (OSError)     *)
(* ends the call in the middle and leaves the file truncated.  invoke_tool *)
(* repeats a failed call; here it is the next one.                         *)
(***************************************************************************)
EXTENDS Naturals, FiniteSets

CONSTANTS MaxTasks,  (* bound on the ids                                    *)
          Lists      (* what a call may pass for a list of ids              *)

Ids == 1 .. MaxTasks

ASSUME TaskAssumption == MaxTasks \in Nat /\ Lists \subseteq SUBSET Ids

(* pending and in_progress are treated alike.                              *)
Statuses == {"open", "completed"}
Tasks    == [status : Statuses, blocked_by : SUBSET Ids]
(* No file, or one that does not parse.                                    *)
NoFile   == [status |-> "none", blocked_by |-> {}]
Broken   == [status |-> "broken", blocked_by |-> {}]

VARIABLES
    file,    (* task_<id>.json                                              *)
    nextId,  (* TaskManager._next_id                                        *)
    late     (* history: dependencies <<t, d>> given to t when d was        *)
             (* completed, or by the call that completed it, and those of   *)
             (* a task on itself                                            *)

taskVars == <<file, nextId, late>>

Whole(t) == file[t] \in Tasks

TaskInit ==
    /\ file = [t \in Ids |-> NoFile]
    /\ nextId = 1
    /\ late = {}

(* The history with the dependencies D of t; what the files F no longer    *)
(* have is forgotten.                                                      *)
Late(t, D, F) ==
    {p \in late \cup {<<t, d>> : d \in {x \in D : x = t \/ file[x].status = "completed"}} :
        p[2] \in F[p[1]].blocked_by}

(* create: a file, readable or not, must exist for each dependency.        *)
Create(D) ==
    /\ nextId \in Ids
    /\ \A d \in D : file[d] # NoFile
    /\ file' = [file EXCEPT ![nextId] = [status |-> "open", blocked_by |-> D]]
    /\ nextId' = nextId + 1
    /\ late' = Late(nextId, D, file')

CreateFails(D) ==
    /\ nextId \in Ids
    /\ \A d \in D : file[d] # NoFile
    /\ file' = [file EXCEPT ![nextId] = Broken]
    /\ late' = Late(nextId, {}, file')
    /\ UNCHANGED nextId

Dependents(id) == {t \in Ids : Whole(t) /\ id \in file[t].blocked_by}

(* Mutant: a completed task starts the others.                             *)
WithoutAny(rec, id) == [status |-> rec.status, blocked_by |-> {}]

Without(rec, id) == [status |-> rec.status, blocked_by |-> rec.blocked_by \ {id}]

(* The files after _clear_dependency has rewritten those in S.             *)
Cleared(id, S) == [t \in Ids |-> IF t \in S THEN Without(file[t], id) ELSE file[t]]

(* Mutant: the loop stops at the first file that had the dependency.       *)
RewrittenFirst(id) == {t \in Dependents(id) : \A x \in Dependents(id) : t <= x}

Rewritten(id) == Dependents(id)

(* What a call that sets the status rewrites before it saves the task.     *)
Touched(id, status) == IF status = "completed" THEN Rewritten(id) ELSE {}

(* The task as it was loaded, before the other files were rewritten.       *)
Updated(id, status, add, remove) ==
    [status |-> IF status = "same" THEN file[id].status ELSE status,
     blocked_by |-> (file[id].blocked_by \cup add) \ remove]

Update(id, status, add, remove) ==
    /\ Whole(id)
    /\ file' = [Cleared(id, Touched(id, status))
                  EXCEPT ![id] = Updated(id, status, add, remove)]
    /\ late' = Late(id, add, file')
    /\ UNCHANGED nextId

(* One of the writes fails: S are the files rewritten before.              *)
UpdateFails(id, status) ==
    /\ Whole(id)
    /\ \/ \E f \in Touched(id, status) : \E S \in SUBSET (Touched(id, status) \ {f}) :
             file' = [Cleared(id, S) EXCEPT ![f] = Broken]
       \/ file' = [Cleared(id, Touched(id, status)) EXCEPT ![id] = Broken]
    /\ late' = Late(id, {}, file')
    /\ UNCHANGED nextId

TaskNext ==
    \/ \E D \in Lists : Create(D) \/ CreateFails(D)
    \/ \E id \in Ids, status \in Statuses \cup {"same"} :
          \/ \E add, remove \in Lists : Update(id, status, add, remove)
          \/ UpdateFails(id, status)

TaskSpec == TaskInit /\ [][TaskNext]_taskVars
-----------------------------------------------------------------------------
(* Properties.                                                             *)

TaskTypeOK ==
    /\ file \in [Ids -> Tasks \cup {NoFile, Broken}]
    /\ nextId \in 1 .. MaxTasks + 1
    /\ late \subseteq Ids \X Ids

(* A task waits for a completed one only if it was made to after the       *)
(* completion, or waits for itself: whatever calls failed meanwhile, no    *)
(* task that was waiting is forgotten when another is completed.           *)
NobodyForgotten ==
    \A t, d \in Ids :
        /\ Whole(t) /\ d \in file[t].blocked_by
        /\ file[d].status = "completed"
        => <<t, d>> \in late

(* The file of x is the same, but for a dependency on t.                   *)
LosesOnly(x, t) ==
    \/ file'[x] = file[x]
    \/ /\ file'[x].status = file[x].status
       /\ file'[x].blocked_by = file[x].blocked_by \ {t}

(* An id is given out once: no call makes a task in the place of another.  *)
(* A dependency goes by a call for the task itself (which may take the     *)
(* task off the others), when what it waits for is completed, or, before   *)
(* that, when a write fails.                                               *)
NothingLost ==
    [][/\ nextId' # nextId => ~Whole(nextId)
       /\ \A t \in Ids : Whole(t) /\ Whole(t)' =>
             \A d \in file[t].blocked_by \ file'[t].blocked_by :
                \/ file'[d].status = "completed"
                \/ \E x \in Ids : Whole(x) /\ ~Whole(x)'
                \/ \A x \in Ids \ {t} : LosesOnly(x, t)]_taskVars
=============================================================================
