----------------------------- MODULE PManProofs -----------------------------
(***************************************************************************)
(* Proofs about PMan, for any set of pids: its list always names its       *)
(* unreaped children, from which it follows that it signals no stranger,   *)
(* that waitpid never fails and that no dead child outlives the check.     *)
(***************************************************************************)
EXTENDS PMan, TLAPS

\* What PMan remembers across a system call: the process it is about to signal
\* or inspect is listed; the one just reaped is listed but no child any more.
TargetInv ==
  /\ at \in {"kill", "pstat"} => check_pid(target)
  /\ at = "reaped" => check_pid(target) /\ proc[target] \notin Own

PInv == TypeOK /\ JobsAreChildren /\ TargetInv /\ WaitNeverFails

LEMMA InitPInv == Init => PInv
  BY DEF Init, PInv, TypeOK, JobsAreChildren, TargetInv, WaitNeverFails, check_pid, Own, Alive,
         Sig, Dead

\* Appending a pid that was not listed lists it, and keeps the others.
LEMMA InsertLists ==
  ASSUME jobs \in Seq(Pid), NEW p \in Pid, ~check_pid(p), Insert(p),
         \A i, j \in 1 .. Len(jobs) : jobs[i] = jobs[j] => i = j
  PROVE  /\ jobs' \in Seq(Pid)
         /\ \A i, j \in 1 .. Len(jobs') : jobs'[i] = jobs'[j] => i = j
         /\ \A r \in Pid : check_pid(r)' <=> check_pid(r) \/ r = p
  <1>1. /\ jobs' \in Seq(Pid)
        /\ Len(jobs') = Len(jobs) + 1
        /\ \A i \in 1 .. Len(jobs) : jobs'[i] = jobs[i]
        /\ jobs'[Len(jobs) + 1] = p
    BY DEF Insert
  <1>2. Len(jobs) \in Nat
    OBVIOUS
  <1>3. \A i, j \in 1 .. Len(jobs') : jobs'[i] = jobs'[j] => i = j
    BY <1>1, <1>2 DEF check_pid
  <1>4. \A r \in Pid : check_pid(r)' <=> check_pid(r) \/ r = p
    BY <1>1, <1>2 DEF check_pid
  <1> QED
    BY <1>1, <1>3, <1>4

\* Removing a listed pid unlinks it and nothing else.
LEMMA RemoveUnlinks ==
  ASSUME jobs \in Seq(Pid), NEW p \in Pid, check_pid(p), removeNode(p),
         \A i, j \in 1 .. Len(jobs) : jobs[i] = jobs[j] => i = j
  PROVE  /\ jobs' \in Seq(Pid)
         /\ \A i, j \in 1 .. Len(jobs') : jobs'[i] = jobs'[j] => i = j
         /\ \A r \in Pid : check_pid(r)' <=> check_pid(r) /\ r # p
  <1>1. PICK n \in 1 .. Len(jobs) : jobs[n] = p /\ jobs' = Unlink(n)
    BY DEF removeNode
  <1>2. Len(jobs) \in Nat /\ Len(jobs) - 1 \in Nat
    BY <1>1
  <1>3. \A i \in 1 .. Len(jobs) : jobs[i] \in Pid
    OBVIOUS
  <1>4. jobs' \in [1 .. Len(jobs) - 1 -> Pid]
    BY <1>1, <1>2, <1>3 DEF Unlink
  <1>5. jobs' \in Seq(Pid) /\ Len(jobs') = Len(jobs) - 1
    BY <1>2, <1>4
  <1>6. \A i \in 1 .. Len(jobs) - 1 :
          jobs'[i] = IF i < n THEN jobs[i] ELSE jobs[i + 1]
    BY <1>1 DEF Unlink
  <1>7. \A i, j \in 1 .. Len(jobs') : jobs'[i] = jobs'[j] => i = j
    BY <1>1, <1>2, <1>5, <1>6
  <1>8. ASSUME NEW r \in Pid PROVE check_pid(r)' <=> check_pid(r) /\ r # p
    <2>1. ASSUME NEW i \in 1 .. Len(jobs'), jobs'[i] = r PROVE check_pid(r) /\ r # p
      BY <1>1, <1>2, <1>5, <1>6, <2>1 DEF check_pid
    <2>2. ASSUME NEW i \in 1 .. Len(jobs), jobs[i] = r, r # p PROVE check_pid(r)'
      <3>1. CASE i < n
        BY <1>1, <1>2, <1>5, <1>6, <2>2, <3>1 DEF check_pid
      <3>2. CASE i > n
        <4>1. i - 1 \in 1 .. Len(jobs') /\ jobs'[i - 1] = r
          BY <1>1, <1>2, <1>5, <1>6, <2>2, <3>2
        <4> QED
          BY <4>1 DEF check_pid
      <3> QED
        BY <1>1, <1>2, <2>2, <3>1, <3>2
    <2> QED
      BY <2>1, <2>2 DEF check_pid
  <1> QED
    BY <1>5, <1>7, <1>8

LEMMA PStep == PInv /\ [Next]_vars => PInv'
  <1> SUFFICES ASSUME PInv, [Next]_vars PROVE PInv'
    OBVIOUS
  <1>a. TypeOK /\ JobsAreChildren /\ TargetInv /\ WaitNeverFails
    BY DEF PInv
  <1>1. ASSUME NEW p \in Pid, Bg(p) PROVE PInv'
    <2>1. ~check_pid(p)
      BY <1>a, <1>1 DEF Bg, JobsAreChildren, Own, Alive
    <2>2. /\ jobs' \in Seq(Pid)
          /\ \A i, j \in 1 .. Len(jobs') : jobs'[i] = jobs'[j] => i = j
          /\ \A r \in Pid : check_pid(r)' <=> check_pid(r) \/ r = p
      BY <1>a, <1>1, <2>1, InsertLists DEF TypeOK, Bg
    <2>3. /\ at = "prompt" /\ at' = "check" /\ UNCHANGED <<target, signal>>
          /\ proc' = [proc EXCEPT ![p] = "running"]
      BY <1>1 DEF Bg
    <2>4. TypeOK'
      BY <1>a, <2>2, <2>3 DEF TypeOK, Own, Alive
    <2>5. JobsAreChildren'
      BY <1>a, <2>2, <2>3 DEF TypeOK, JobsAreChildren, Own, Alive
    <2> QED
      BY <2>3, <2>4, <2>5 DEF PInv, TargetInv, WaitNeverFails
  <1>2. ASSUME NEW p \in Pid, Pstat(p) \/ \E s \in Sig : Bgsig(p, s) PROVE PInv'
    <2>1. /\ at' \in {"kill", "pstat"} /\ at = "prompt" /\ target' = p /\ signal' \in Sig
          /\ check_pid(p) /\ UNCHANGED <<jobs, proc>>
      BY <1>a, <1>2 DEF Pstat, Bgsig, TypeOK
    <2> QED
      BY <1>a, <2>1 DEF PInv, TypeOK, JobsAreChildren, TargetInv, WaitNeverFails, check_pid
  <1>3. CASE ForkFails \/ InputEnds \/ Bglist \/ Refused \/ ReadStat \/ ListEmpty
    <2>1. /\ at \notin {"reaped"} /\ at' \in {"failed", "crashed", "check", "prompt"}
          /\ UNCHANGED <<target, signal, jobs, proc>>
      BY <1>3 DEF ForkFails, InputEnds, Bglist, Refused, ReadStat, ListEmpty
    <2> QED
      BY <1>a, <2>1 DEF PInv, TypeOK, JobsAreChildren, TargetInv, WaitNeverFails, check_pid, Dead
  <1>4. CASE Kill
    <2>1. /\ at = "kill" /\ at' = "check" /\ target \in Pid /\ proc[target] \in Own
          /\ UNCHANGED <<target, signal, jobs>>
          /\ proc' = [proc EXCEPT ![target] = After(signal, proc[target])]
      BY <1>a, <1>4 DEF Kill, TypeOK, TargetInv, JobsAreChildren, check_pid
    <2>2. After(signal, proc[target]) \in Own
      BY <2>1 DEF After, Own, Alive
    <2> QED
      BY <1>a, <2>1, <2>2
      DEF PInv, TypeOK, JobsAreChildren, TargetInv, WaitNeverFails, check_pid
  <1>5. ASSUME NEW p \in Pid, Reap(p) PROVE PInv'
    <2>1. /\ at = "check" /\ at' = "reaped" /\ target' = p /\ proc[p] = "zombie"
          /\ proc' = [proc EXCEPT ![p] = "free"] /\ UNCHANGED <<signal, jobs>>
      BY <1>5 DEF Reap
    <2>2. check_pid(p)
      BY <1>a, <2>1 DEF JobsAreChildren, Own
    <2> QED
      BY <1>a, <2>1, <2>2
      DEF PInv, TypeOK, JobsAreChildren, TargetInv, WaitNeverFails, check_pid, Own, Alive
  <1>6. CASE Remove
    <2>1. /\ at = "reaped" /\ at' = "check" /\ check_pid(target) /\ proc[target] \notin Own
          /\ target \in Pid /\ removeNode(target) /\ UNCHANGED <<target, signal, proc>>
      BY <1>a, <1>6 DEF Remove, TargetInv, TypeOK, check_pid
    <2>2. /\ jobs' \in Seq(Pid)
          /\ \A i, j \in 1 .. Len(jobs') : jobs'[i] = jobs'[j] => i = j
          /\ \A r \in Pid : check_pid(r)' <=> check_pid(r) /\ r # target
      BY <1>a, <2>1, RemoveUnlinks DEF TypeOK
    <2>3. TypeOK'
      BY <1>a, <2>1, <2>2 DEF TypeOK
    <2>4. JobsAreChildren'
      BY <1>a, <2>1, <2>2 DEF JobsAreChildren
    <2> QED
      BY <2>1, <2>3, <2>4 DEF PInv, TargetInv, WaitNeverFails
  <1>7. CASE NoneReaped
    <2>1. /\ at = "check" /\ jobs # <<>> /\ at' = AfterWait
          /\ UNCHANGED <<target, signal, jobs, proc>>
      BY <1>7 DEF NoneReaped
    <2>2. check_pid(jobs[1]) /\ jobs[1] \in Pid
      BY <1>a, <2>1 DEF TypeOK, check_pid
    <2>3. at' = "prompt"
      BY <1>a, <2>1, <2>2 DEF JobsAreChildren, AfterWait, HasChild
    <2> QED
      BY <1>a, <2>1, <2>3
      DEF PInv, TypeOK, JobsAreChildren, TargetInv, WaitNeverFails, check_pid
  <1>8. CASE Kernel
    <2>1. PICK p \in Pid : Exits(p) \/ Dies(p) \/ ForeignStarts(p) \/ ForeignEnds(p)
      BY <1>8 DEF Kernel
    <2>2. /\ UNCHANGED <<at, target, signal, jobs>>
          /\ \E to \in {"zombie", "free", "foreign"} :
               /\ proc' = [proc EXCEPT ![p] = to]
               /\ proc[p] \in Own <=> to \in Own
      BY <2>1 DEF Exits, Dies, ForeignStarts, ForeignEnds, Becomes, Own, Alive
    <2>3. TypeOK'
      BY <1>a, <2>2 DEF TypeOK, Own
    <2>4. \A r \in Pid : proc'[r] \in Own <=> proc[r] \in Own
      BY <1>a, <2>2 DEF TypeOK
    <2>5. JobsAreChildren'
      BY <1>a, <2>2, <2>4 DEF JobsAreChildren, check_pid
    <2>6. TargetInv'
      <3>1. at = "reaped" => target \in Pid
        BY <1>a DEF TargetInv, TypeOK, check_pid
      <3> QED
        BY <1>a, <2>2, <2>4, <3>1 DEF TargetInv, check_pid
    <2> QED
      BY <1>a, <2>2, <2>3, <2>5, <2>6 DEF PInv, WaitNeverFails
  <1>9. CASE UNCHANGED vars
    BY <1>a, <1>9 DEF vars, PInv, TypeOK, JobsAreChildren, TargetInv, WaitNeverFails, check_pid
  <1> QED
    BY <1>1, <1>2, <1>3, <1>4, <1>5, <1>6, <1>7, <1>8, <1>9 DEF Next, User, Loop

\* PInv is an invariant.
THEOREM PInvariant == Spec => []PInv
  BY InitPInv, PStep, PTL DEF Spec

\* The list never has a pid twice, although pids are reused.
THEOREM ListHasNoDuplicates == Spec => []TypeOK
  <1>1. PInv => TypeOK
    BY DEF PInv
  <1> QED
    BY PInvariant, <1>1, PTL

\* The list is that of the children not yet reaped.
THEOREM ListIsChildren == Spec => []JobsAreChildren
  <1>1. PInv => JobsAreChildren
    BY DEF PInv
  <1> QED
    BY PInvariant, <1>1, PTL

\* PMan never signals or inspects a process that is not its child, however pids
\* are reused.
THEOREM NoStranger == Spec => []ActsOnOwnChild
  <1>1. PInv => ActsOnOwnChild
    BY DEF PInv, TargetInv, JobsAreChildren, TypeOK, ActsOnOwnChild, check_pid
  <1> QED
    BY PInvariant, <1>1, PTL

\* The exit after "waitpid failed" is never taken.
THEOREM WaitHasChildren == Spec => []WaitNeverFails
  <1>1. PInv => WaitNeverFails
    BY DEF PInv
  <1> QED
    BY PInvariant, <1>1, PTL

\* The check returns to the prompt only when no child is dead: an empty list,
\* which ends it without a call of waitpid, means that there is none.
THEOREM NoZombieAtPrompt == Spec => PromptMeansReaped
  <1>1. PInv /\ [Next]_vars =>
          [at # "prompt" /\ at' = "prompt" => \A p \in Pid : proc[p] # "zombie"]_vars
    <2> SUFFICES ASSUME PInv, [Next]_vars, at # "prompt", at' = "prompt", NEW p \in Pid,
                        proc[p] = "zombie"
                 PROVE  FALSE
      OBVIOUS
    <2>1. ListEmpty \/ NoneReaped
      BY DEF Next, User, Loop, Kernel, Bg, Pstat, Bgsig, ForkFails, InputEnds, Bglist, Refused,
             Kill, ReadStat, Reap, Remove, Exits, Dies, ForeignStarts, ForeignEnds, Becomes, vars
    <2>2. CASE ListEmpty
      BY <2>2 DEF ListEmpty, PInv, JobsAreChildren, Own, check_pid
    <2>3. CASE NoneReaped
      BY <2>3 DEF NoneReaped
    <2> QED
      BY <2>1, <2>2, <2>3
  <1> QED
    BY PInvariant, <1>1, PTL DEF Spec, PromptMeansReaped
=============================================================================
