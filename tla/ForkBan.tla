------------------------------- MODULE ForkBan -------------------------------
(***************************************************************************)
(* examples/fork_ban.c under the library: a hook that counts the forks of  *)
(* a process in a variable without a lock, refuses further ones when there *)
(* were enough, and makes those it lets through itself.  A child process   *)
(* has a copy of the counter.                                              *)
(***************************************************************************)
EXTENDS Integers, FiniteSets

CONSTANTS
    MaxProcs,           \* how many processes the kernel allows
    MaxPassed,          \* bound: how many forks are let through
    ForkThreads,        \* the threads of the first process
    fork_counter_max,   \* FORK_MAX_COUNT, or ALLOW_FORK_MAX
    LieAfter,           \* 4: how many forks report the right pid
    LiePid              \* 16: what is added to the pid otherwise

ASSUME ForkAssumption ==
    /\ MaxProcs \in Nat \ {0} /\ MaxPassed \in Nat /\ fork_counter_max \in Int
    /\ LieAfter \in Nat /\ LiePid \in Nat /\ LiePid >= MaxProcs

VARIABLES
    procs,          \* the processes there are
    fork_counter,   \* of each process
    forker,         \* each thread of each process
    passed,         \* how many forks were let through, by a process and by its
                    \* ancestors before it was made
    forkRace,       \* processes in which threads counted at once
    unbanned,       \* how many vforks were made although refused
    lost            \* processes whose stack a vfork has spoilt

forkVars == <<procs, fork_counter, forker, passed, forkRace, unbanned, lost>>

Pids == 1 .. MaxProcs
\* A clone without CLONE_THREAD and without a new stack is a fork.
Forks == {"fork", "clone new stack", "vfork"}
IdleForker == [pc |-> "program", nr |-> "none", reg |-> 0, result |-> 0, nth |-> 0]
NoThread == [IdleForker EXCEPT !.pc = "none"]

ForkInit ==
    /\ procs = {1}
    /\ fork_counter = [p \in Pids |-> 0]
    /\ forker = [p \in Pids |-> [t \in ForkThreads |->
                    IF p = 1 THEN IdleForker ELSE NoThread]]
    /\ passed = [p \in Pids |-> 0]
    /\ forkRace = {}
    /\ unbanned = 0
    /\ lost = {}

ForkerAt(p, t, pc) == p \in procs \ lost /\ forker[p][t].pc = pc
CountingIn(p) == {t \in ForkThreads : forker[p][t].pc \in {"load", "store"}}

too_many_past(p) == fork_counter[p] > fork_counter_max

too_many(p) == fork_counter[p] >= fork_counter_max

\* The hook refuses; the library executes a vfork nevertheless.
HookRefuses(p, t, nr) ==
    /\ ForkerAt(p, t, "program") /\ too_many(p)
    /\ forker' = [forker EXCEPT ![p][t] = [IdleForker EXCEPT !.nr = nr,
                     !.result = IF nr = "vfork" THEN 0 ELSE -1]]
    /\ unbanned' = IF nr = "vfork" /\ unbanned = 0 THEN 1 ELSE unbanned
    /\ UNCHANGED <<procs, fork_counter, passed, forkRace, lost>>

HookPasses(p, t, nr) ==
    /\ ForkerAt(p, t, "program") /\ ~too_many(p) /\ passed[p] < MaxPassed
    /\ forker' = [forker EXCEPT ![p][t] = [IdleForker EXCEPT !.pc = "load", !.nr = nr,
                                             !.nth = passed[p] + 1]]
    /\ passed' = [passed EXCEPT ![p] = @ + 1]
    /\ forkRace' = IF CountingIn(p) = {} THEN forkRace ELSE forkRace \cup {p}
    /\ UNCHANGED <<procs, fork_counter, unbanned, lost>>

\* ++fork_counter is a load and a store.
CounterLoad(p, t) ==
    /\ ForkerAt(p, t, "load")
    /\ forker' = [forker EXCEPT ![p][t].pc = "store", ![p][t].reg = fork_counter[p]]
    /\ UNCHANGED <<procs, fork_counter, passed, forkRace, unbanned, lost>>

CounterStore(p, t) ==
    /\ ForkerAt(p, t, "store")
    /\ fork_counter' = [fork_counter EXCEPT ![p] = forker[p][t].reg + 1]
    /\ forker' = [forker EXCEPT ![p][t].pc = "kernel"]
    /\ UNCHANGED <<procs, passed, forkRace, unbanned, lost>>

\* The hook makes a vfork itself: its child returns from the hook on the stack
\* of its parent, and both are then made to vfork once more.
KernelVfork(p, t) ==
    /\ ForkerAt(p, t, "kernel") /\ forker[p][t].nr = "vfork"
    /\ lost' = lost \cup {p}
    /\ UNCHANGED <<procs, fork_counter, forker, passed, forkRace, unbanned>>

\* The child is a copy of the process with this thread only.  With a new stack
\* it does not return to the hook, and the library makes the call.
KernelForks(p, t) ==
    /\ ForkerAt(p, t, "kernel") /\ forker[p][t].nr # "vfork"
    /\ procs # Pids
    /\ LET q == Cardinality(procs) + 1
           back == IF forker[p][t].nr = "clone new stack" THEN "program" ELSE "lie"
       IN  /\ procs' = procs \cup {q}
           /\ fork_counter' = [fork_counter EXCEPT ![q] = fork_counter[p]]
           /\ passed' = [passed EXCEPT ![q] = passed[p]]
           /\ forkRace' = IF p \in forkRace \/ CountingIn(p) # {}
                          THEN forkRace \cup {q} ELSE forkRace
           /\ forker' = [forker EXCEPT
                 ![p][t].pc = back, ![p][t].result = q,
                 ![q] = [u \in ForkThreads |->
                           IF u = t THEN [IdleForker EXCEPT !.pc = back]
                           ELSE NoThread]]
    /\ UNCHANGED <<unbanned, lost>>

\* It was counted all the same.
KernelFails(p, t) ==
    /\ ForkerAt(p, t, "kernel") /\ forker[p][t].nr # "vfork"
    /\ forker' = [forker EXCEPT ![p][t].pc = "program", ![p][t].result = -1]
    /\ UNCHANGED <<procs, fork_counter, passed, forkRace, unbanned, lost>>

\* example_fork_hook looks at the counter again.
HookLies(p, t) ==
    /\ ForkerAt(p, t, "lie")
    /\ forker' = [forker EXCEPT ![p][t].pc = "program",
          ![p][t].result = IF fork_counter[p] > LieAfter /\ @ > 0 THEN @ + LiePid
                           ELSE @]
    /\ UNCHANGED <<procs, fork_counter, passed, forkRace, unbanned, lost>>

ForkNext ==
    \E p \in procs, t \in ForkThreads :
        \/ \E nr \in Forks : HookRefuses(p, t, nr) \/ HookPasses(p, t, nr)
        \/ CounterLoad(p, t) \/ CounterStore(p, t)
        \/ KernelVfork(p, t) \/ KernelForks(p, t) \/ KernelFails(p, t)
        \/ HookLies(p, t)

-----------------------------------------------------------------------------
(***************************************************************************)
(* Properties.                                                             *)
(***************************************************************************)
\* Unless its threads counted at once, no process (with its ancestors) is let
\* make more forks than allowed, a new stack or a failure of the kernel makes no
\* difference, and it is refused one only when it has had them all; a vfork is
\* refused in vain.  The pid a fork reports is the right one for the first forks
\* and for every fork with a new stack.
ForksCounted ==
    \A p \in procs \ (forkRace \cup lost) :
        /\ passed[p] <= (IF fork_counter_max > 0 THEN fork_counter_max ELSE 0)
        /\ fork_counter[p] = passed[p] - Cardinality(CountingIn(p))
        /\ \A t \in ForkThreads :
              LET f == forker[p][t]
              IN  f.pc = "program" /\ f.nr # "none" =>
                    /\ f.nth = 0 => passed[p] >= fork_counter_max
                    /\ f.result > LiePid => f.nth > 0 /\ fork_counter[p] > LieAfter
                                            /\ f.nr # "clone new stack"
                    /\ f.result \in Pids \/ f.result <= 0 \/ f.result > LiePid
                    /\ f.result > 0 => f.result % LiePid \in procs
=============================================================================
