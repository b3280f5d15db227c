------------------------------- MODULE PMan -------------------------------
(***************************************************************************)
(* The process manager a1/PMan.c: a prompt that starts, lists, signals and *)
(* inspects background processes, keeps their pids in a linked list, and   *)
(* reaps the dead ones after a command.  The kernel's side - processes     *)
(* that die, signals that take effect, pids that are handed out again, to  *)
(* PMan's children and to processes that are none of its business - is     *)
(* modelled from what PMan relies on.                                      *)
(***************************************************************************)
EXTENDS Naturals, Sequences

CONSTANTS Pid,    \* the process ids the kernel hands out
          None    \* no process

ASSUME PManAssumption == None \notin Pid

Sig == {"STOP", "CONT", "TERM"}

VARIABLES
  at,       \* where PMan is: at the prompt, before a system call, or dead
  target,   \* the pid a command names, or the one waitpid returned
  signal,   \* the signal about to be sent
  jobs,     \* the linked list from head, as the sequence of its pids
  proc      \* what each pid is at present

vars == <<at, target, signal, jobs, proc>>

\* A stopped process that has been sent SIGTERM is doomed: it dies only when it
\* is continued.  A running one is dying: it is on its way to be a zombie.
Alive == {"running", "stopped", "doomed", "dying"}

\* The states of PMan's children.
Own == Alive \union {"zombie"}

Init ==
  /\ at = "prompt"
  /\ target = None
  /\ signal = "STOP"
  /\ jobs = <<>>
  /\ proc \in [Pid -> {"free", "foreign"}]

-----------------------------------------------------------------------------
(* Commands.  Each returns to the prompt through check_zombieProcess, but the *)
(* ones refused for their number of arguments, which change nothing.         *)

\* Mutant of Insert: the new node becomes the whole list.
ReplaceHead(p) == jobs' = <<p>>

Insert(p) == jobs' = Append(jobs, p)

\* bg_entry: fork and append a node.  Whatever the child does meanwhile, and if
\* execvp fails it exits at once, nobody waits for it before it is listed.
Bg(p) ==
  /\ at = "prompt"
  /\ proc[p] = "free"
  /\ proc' = [proc EXCEPT ![p] = "running"]
  /\ Insert(p)
  /\ at' = "check"
  /\ UNCHANGED <<target, signal>>

\* fork fails: PMan exits.
ForkFails ==
  /\ at = "prompt"
  /\ at' = "failed"
  /\ UNCHANGED <<target, signal, jobs, proc>>

\* At the end of the input readline returns NULL, and for a line of spaces
\* argv[0] is NULL: strcmp dereferences it.
InputEnds ==
  /\ at = "prompt"
  /\ at' = "crashed"
  /\ UNCHANGED <<target, signal, jobs, proc>>

\* bglist prints the list as it is, before dead processes are removed from it.
Bglist ==
  /\ at = "prompt"
  /\ at' = "check"
  /\ UNCHANGED <<target, signal, jobs, proc>>

\* Mutant of check_pid: any pid will do.
AnyPid(p) == TRUE

\* The pid is in the list.
check_pid(p) == \E i \in 1 .. Len(jobs) : jobs[i] = p

\* bgstop, bgstart and bgkill: a pid that is not in the list is refused.
Bgsig(p, s) ==
  /\ at = "prompt"
  /\ check_pid(p)
  /\ at' = "kill"
  /\ target' = p
  /\ signal' = s
  /\ UNCHANGED <<jobs, proc>>

Pstat(p) ==
  /\ at = "prompt"
  /\ check_pid(p)
  /\ at' = "pstat"
  /\ target' = p
  /\ UNCHANGED <<signal, jobs, proc>>

\* An unknown command, or a pid that is not in the list.
Refused ==
  /\ at = "prompt"
  /\ at' = "check"
  /\ UNCHANGED <<target, signal, jobs, proc>>

\* The effect of a signal, none of which the started programs handle.
After(s, state) ==
  CASE s = "STOP" /\ state = "running" -> "stopped"
    [] s = "CONT" /\ state = "stopped" -> "running"
    [] s = "CONT" /\ state = "doomed"  -> "dying"
    [] s = "TERM" /\ state = "running" -> "dying"
    [] s = "TERM" /\ state = "stopped" -> "doomed"
    [] OTHER -> state

\* kill(pid, ...): it never returns 1, so the error branches are dead.
Kill ==
  /\ at = "kill"
  /\ proc' = [proc EXCEPT ![target] = After(signal, @)]
  /\ at' = "check"
  /\ UNCHANGED <<target, signal, jobs>>

\* statData and statusData read /proc/<pid>.
ReadStat ==
  /\ at = "pstat"
  /\ at' = "check"
  /\ UNCHANGED <<target, signal, jobs, proc>>

-----------------------------------------------------------------------------
(* check_zombieProcess *)

\* An empty list ends the loop without asking the kernel.
ListEmpty ==
  /\ at = "check"
  /\ jobs = <<>>
  /\ at' = "prompt"
  /\ UNCHANGED <<target, signal, jobs, proc>>

\* waitpid reaps one dead child: from here on its pid may be handed out again.
Reap(p) ==
  /\ at = "check"
  /\ jobs # <<>>
  /\ proc[p] = "zombie"
  /\ proc' = [proc EXCEPT ![p] = "free"]
  /\ target' = p
  /\ at' = "reaped"
  /\ UNCHANGED <<signal, jobs>>

\* The list without its i-th node.
Unlink(i) == [j \in 1 .. Len(jobs) - 1 |-> IF j < i THEN jobs[j] ELSE jobs[j + 1]]

\* Mutant of removeNode: the node stays linked.
KeepNode(p) == UNCHANGED jobs

\* The first node with this pid is unlinked, if there is one.
removeNode(p) ==
  IF check_pid(p)
  THEN \E i \in 1 .. Len(jobs) :
         /\ jobs[i] = p
         /\ \A j \in 1 .. i - 1 : jobs[j] # p
         /\ jobs' = Unlink(i)
  ELSE UNCHANGED jobs

Remove ==
  /\ at = "reaped"
  /\ removeNode(target)
  /\ at' = "check"
  /\ UNCHANGED <<target, signal, proc>>

HasChild == \E p \in Pid : proc[p] \in Own

\* Mutant of AfterWait: the loop is left only when waitpid fails.
WaitOn == IF HasChild THEN "check" ELSE "waitfailed"

\* With children but no dead one waitpid returns 0, which ends the loop; with no
\* child at all it returns -1 and PMan exits.
AfterWait == IF HasChild THEN "prompt" ELSE "waitfailed"

NoneReaped ==
  /\ at = "check"
  /\ jobs # <<>>
  /\ \A p \in Pid : proc[p] # "zombie"
  /\ at' = AfterWait
  /\ UNCHANGED <<target, signal, jobs, proc>>

-----------------------------------------------------------------------------
(* The kernel *)

Becomes(p, from, to) ==
  /\ proc[p] = from
  /\ proc' = [proc EXCEPT ![p] = to]
  /\ UNCHANGED <<at, target, signal, jobs>>

\* A child ends by itself.
Exits(p) == Becomes(p, "running", "zombie")

\* A child dies of SIGTERM.
Dies(p) == Becomes(p, "dying", "zombie")

\* The kernel hands a pid to a process PMan did not start, and gets it back.
ForeignStarts(p) == Becomes(p, "free", "foreign")

ForeignEnds(p) == Becomes(p, "foreign", "free")

-----------------------------------------------------------------------------

User ==
  \/ \E p \in Pid : Bg(p) \/ Pstat(p) \/ \E s \in Sig : Bgsig(p, s)
  \/ ForkFails
  \/ InputEnds
  \/ Bglist
  \/ Refused

Loop ==
  \/ Kill
  \/ ReadStat
  \/ ListEmpty
  \/ \E p \in Pid : Reap(p)
  \/ Remove
  \/ NoneReaped

Dead == {"failed", "crashed", "waitfailed"}

Kernel ==
  /\ at \notin Dead
  /\ \E p \in Pid : Exits(p) \/ Dies(p) \/ ForeignStarts(p) \/ ForeignEnds(p)

Next == User \/ Loop \/ Kernel

Spec == Init /\ [][Next]_vars

\* PMan runs whenever it is not at the prompt, and a process that was sent
\* SIGTERM and is not stopped dies.  Nothing obliges the user or a child.
Fairness ==
  /\ WF_vars(Loop)
  /\ \A p \in Pid : WF_vars(Dies(p))

FairSpec == Spec /\ Fairness

-----------------------------------------------------------------------------
(* Properties *)

\* Types; the list never has a pid twice.
TypeOK ==
  /\ at \in {"prompt", "kill", "pstat", "check", "reaped"} \union Dead
  /\ target \in Pid \union {None}
  /\ signal \in Sig
  /\ jobs \in Seq(Pid)
  /\ \A i, j \in 1 .. Len(jobs) : jobs[i] = jobs[j] => i = j
  /\ proc \in [Pid -> {"free", "foreign"} \union Own]

\* The list names PMan's unreaped children and nothing else, but for the moment
\* between waitpid and removeNode, when it names the child just reaped as well.
JobsAreChildren ==
  \A p \in Pid :
    check_pid(p) <=> proc[p] \in Own \/ (at = "reaped" /\ p = target)

\* kill is only ever called for a child, alive or dead, and pstat only ever reads
\* the /proc files of one, never those of a process that got the pid of a former
\* child, although time passes since the pid was looked up.
ActsOnOwnChild == at \in {"kill", "pstat"} => proc[target] \in Own

\* waitpid is never called without a child, so that "waitpid failed" and the
\* exit that follows it are never reached.
WaitNeverFails == at # "waitfailed"

\* When the prompt comes back after a command, every child that was dead at that
\* moment has been reaped and removed.
PromptMeansReaped ==
  [][at # "prompt" /\ at' = "prompt" => \A p \in Pid : proc[p] # "zombie"]_vars

\* check_zombieProcess returns, however many children are dead or die in it.
CheckReturns == at = "check" ~> at = "prompt"

\* a1/README.txt:12 says that bgkill terminates the process.
KillTerminates ==
  \A p \in Pid : proc[p] = "doomed" ~> proc[p] \notin Alive \/ at \in Dead
=============================================================================
