---------------------------- MODULE DatasetLock ----------------------------
(***************************************************************************)
(* DatasetLock of src/callqa/journey/engine.py: the file process.lock that *)
(* keeps a dataset to one `journey` command at a time.  The file holds the *)
(* pid of its owner.  Everything is done with ordinary file operations, so *)
(* each of them is a step and other processes run in between.              *)
(*                                                                         *)
(* A command that is started gets a pid nobody has at that moment, which   *)
(* may be the one a command of before died with; and so does any other     *)
(* program of the machine.  The lock asks of a pid only whether it is      *)
(* alive.                                                                  *)
(*                                                                         *)
(* OnlyFresh and AlwaysRespected are no part of the                        *)
(* specification: each is the definition after it with a fault in it, and  *)
(* the properties are checked to notice the difference.                    *)
(***************************************************************************)
EXTENDS Integers, FiniteSets

CONSTANTS
    Proc,         \* the commands started on one dataset, on one machine
    Pid,          \* the pids of that machine
    NoFile,       \* process.lock does not exist
    NoPid,        \* the file is there and still empty
    MaxCrash      \* how many of them may be killed

ASSUME DatasetLockAssumption ==
    /\ MaxCrash \in Nat
    /\ NoPid \notin Pid
    /\ NoFile \notin [by : Proc, pid : Pid \cup {NoPid}, fresh : BOOLEAN]

VARIABLES
    file,      \* the file: who created it, the pid in it, younger than FRESH_SEC
    pc,        \* where each command is
    pid,       \* the pid it was started with
    others,    \* the pids of other programs
    holder,    \* the pid read by _holder() in this round
    tries,     \* rounds of the loop in __enter__
    crashes,
    links      \* the file system has hard links; never changes

lockVars == <<file, pc, pid, others, holder, tries, crashes, links>>

PC == {"start", "write", "read", "recheck", "unlink", "in",
       "exit", "remove", "done", "refused", "dead"}

File == [by : Proc, pid : Pid \cup {NoPid}, fresh : BOOLEAN]

TypeOK ==
    /\ file \in File \cup {NoFile}
    /\ pc \in [Proc -> PC]
    /\ pid \in [Proc -> Pid]
    /\ others \subseteq Pid
    /\ holder \in [Proc -> Pid \cup {NoPid}]
    /\ tries \in [Proc -> 0..3]
    /\ crashes \in 0..MaxCrash
    /\ links \in BOOLEAN

LockInit ==
    /\ file = NoFile
    /\ pc = [p \in Proc |-> "start"]
    /\ pid \in [Proc -> Pid]
    /\ \A p, q \in Proc : pid[p] = pid[q] => p = q
    /\ others \in SUBSET {n \in Pid : \A p \in Proc : pid[p] # n}
    /\ holder = [p \in Proc |-> NoPid]
    /\ tries = [p \in Proc |-> 0]
    /\ crashes = 0
    /\ links \in BOOLEAN

Running(p) == pc[p] \notin {"done", "refused", "dead"}

(* pid_alive: some process of the machine has this pid, whichever it is.    *)
Alive(n) == n \in others \/ \E p \in Proc : Running(p) /\ pid[p] = n

Goto(p, label) == pc' = [pc EXCEPT ![p] = label]

(* The next round of `for _ in range(3)`, or "could not take the dataset    *)
(* lock".                                                                   *)
Again(p) ==
    /\ tries' = [tries EXCEPT ![p] = @ + 1]
    /\ Goto(p, IF tries[p] + 1 < 3 THEN "start" ELSE "refused")

(* _create: a file already written is linked into place, or, without hard   *)
(* links, an empty one is created, to be written next.  Both fail if there  *)
(* is a file.                                                               *)
Create(p) ==
    /\ pc[p] = "start"
    /\ file = NoFile
    /\ file' = [by |-> p, pid |-> IF links THEN pid[p] ELSE NoPid, fresh |-> TRUE]
    /\ Goto(p, IF links THEN "in" ELSE "write")
    /\ UNCHANGED <<pid, others, holder, tries, crashes, links>>

CreateFails(p) ==
    /\ pc[p] = "start"
    /\ file # NoFile
    /\ Goto(p, "read")
    /\ UNCHANGED <<pid, others, file, holder, tries, crashes, links>>

(* The pid goes into the file this process created, which may have been     *)
(* unlinked by now.                                                         *)
WritePid(p) ==
    /\ pc[p] = "write"
    /\ file' = IF file # NoFile /\ file.by = p THEN [file EXCEPT !.pid = pid[p]] ELSE file
    /\ Goto(p, "in")
    /\ UNCHANGED <<pid, others, holder, tries, crashes, links>>

OnlyFresh == file.pid = NoPid /\ file.fresh
AlwaysRespected == TRUE

(* The file names a pid that is alive, or is empty and too new to judge.    *)
Respected == \/ file.pid # NoPid /\ Alive(file.pid)
             \/ file.pid = NoPid /\ file.fresh

(* _holder: gone meanwhile: try again; held: ProcessLocked; else it was     *)
(* left by a run that died.                                                 *)
ReadHolder(p) ==
    /\ pc[p] = "read"
    /\ IF file = NoFile
         THEN Again(p) /\ UNCHANGED holder
         ELSE IF Respected
           THEN Goto(p, "refused") /\ UNCHANGED <<holder, tries>>
           ELSE /\ Goto(p, "recheck")
                /\ holder' = [holder EXCEPT ![p] = file.pid]
                /\ UNCHANGED tries
    /\ UNCHANGED <<pid, others, file, crashes, links>>

(* "remove it only if it is still that one": the pid is read again.  What   *)
(* was read is not used after this step.                                    *)
Recheck(p) ==
    /\ pc[p] = "recheck"
    /\ IF file # NoFile /\ file.pid = holder[p]
         THEN Goto(p, "unlink") /\ UNCHANGED tries
         ELSE Again(p)
    /\ holder' = [holder EXCEPT ![p] = NoPid]
    /\ UNCHANGED <<pid, others, file, crashes, links>>

(* path.unlink(missing_ok=True): whatever file is there now. *)
Unlink(p) ==
    /\ pc[p] = "unlink"
    /\ file' = NoFile
    /\ Again(p)
    /\ UNCHANGED <<pid, others, holder, crashes, links>>

Leave(p) ==
    /\ pc[p] = "in"
    /\ Goto(p, "exit")
    /\ UNCHANGED <<pid, others, file, holder, tries, crashes, links>>

(* __exit__: our file is removed, in two steps; one that names another      *)
(* process stays.                                                           *)
Ours(p) == file # NoFile /\ file.pid = pid[p]

ExitCheck(p) ==
    /\ pc[p] = "exit"
    /\ Goto(p, IF Ours(p) THEN "remove" ELSE "done")
    /\ UNCHANGED <<pid, others, file, holder, tries, crashes, links>>

ExitRemove(p) ==
    /\ pc[p] = "remove"
    /\ file' = NoFile
    /\ Goto(p, "done")
    /\ UNCHANGED <<pid, others, holder, tries, crashes, links>>

(* A command that ended, was refused or died is started again by the        *)
(* operator, as a new process.                                              *)
Restart(p) ==
    /\ ~Running(p)
    /\ \E n \in Pid : ~Alive(n) /\ pid' = [pid EXCEPT ![p] = n]
    /\ Goto(p, "start")
    /\ tries' = [tries EXCEPT ![p] = 0]
    /\ UNCHANGED <<file, others, holder, crashes, links>>

(* Another program of the machine starts, which does not run out of pids,   *)
(* or ends.                                                                 *)
OtherStarts ==
    /\ \E n, m \in Pid : n # m /\ ~Alive(n) /\ ~Alive(m) /\ others' = others \cup {n}
    /\ UNCHANGED <<file, pc, pid, holder, tries, crashes, links>>

OtherEnds ==
    /\ \E n \in others : others' = others \ {n}
    /\ UNCHANGED <<file, pc, pid, holder, tries, crashes, links>>

Crash(p) ==
    /\ Running(p)
    /\ crashes < MaxCrash
    /\ crashes' = crashes + 1
    /\ Goto(p, "dead")
    /\ UNCHANGED <<pid, others, file, holder, tries, links>>

(* FRESH_SEC pass. *)
Ripen ==
    /\ file # NoFile
    /\ file.fresh
    /\ file' = [file EXCEPT !.fresh = FALSE]
    /\ UNCHANGED <<pc, pid, others, holder, tries, crashes, links>>

Enter(p) == \/ Create(p) \/ CreateFails(p) \/ WritePid(p) \/ ReadHolder(p)
            \/ Recheck(p) \/ Unlink(p)
Exit(p) == Leave(p) \/ ExitCheck(p) \/ ExitRemove(p)

LockNext == \/ \E p \in Proc : Enter(p) \/ Exit(p) \/ Restart(p) \/ Crash(p)
            \/ OtherStarts \/ OtherEnds \/ Ripen

LockSpec == LockInit /\ [][LockNext]_lockVars

(* Every command goes on and ends (a deadline or the end of its work), the  *)
(* operator tries again, and time passes.  Nothing is assumed of the other  *)
(* programs.                                                                *)
FairSpec ==
    /\ LockSpec
    /\ WF_lockVars(Ripen)
    /\ \A p \in Proc : WF_lockVars(Enter(p)) /\ WF_lockVars(Exit(p)) /\ WF_lockVars(Restart(p))

-----------------------------------------------------------------------------
(* Properties. *)

Inside(p) == pc[p] \in {"in", "exit", "remove"}

(* "One writer per dataset" (engine.py:85). *)
OneWriter == \A p, q \in Proc : Inside(p) /\ Inside(q) => p = q

(* That is so, with hard links, until a command dies; and whoever is inside *)
(* is protected by its own file, all the way to the step that removes it:   *)
(* "only the owner removes it" (engine.py:88).                              *)
OneWriterWhileAlive ==
    links /\ crashes = 0
        => OneWriter /\ \A p \in Proc : Inside(p) => Ours(p)

(* A file left behind by a command that died keeps the dataset closed for   *)
(* ever only when its pid has come back: "a file held by a live pid, or one *)
(* too new to judge, is respected" (engine.py:87-88), and any other is      *)
(* removed by the next command.  A pid that is given to another program is  *)
(* respected as if that program were a journey command, for as long as it   *)
(* runs.                                                                    *)
LeftBehind(n) == file # NoFile /\ file.pid = n /\ \A p \in Proc : ~Inside(p)

BlockedByALivePidOnly ==
    \A n \in Pid \cup {NoPid} : <>[]LeftBehind(n) => []<>Alive(n)
=============================================================================
