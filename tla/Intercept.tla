----------------------------- MODULE Intercept -----------------------------
(***************************************************************************)
(* A patched syscall at run time, in several threads that may share their  *)
(* memory: the wrapper generated from intercept_template.S, the registers  *)
(* saved by intercept_wrapper, intercept_routine around the hook, and the  *)
(* kernel.  A thread that issues a syscall goes through                    *)
(*   user -> template -> routine -> hook -> decide -> kernel -> log        *)
(*        -> dispatch -> user                                              *)
(* with shortcuts for the syscalls that can not be made from inside of C.  *)
(*                                                                         *)
(* A stack is a row of frames.  A "context" frame stands for all that one  *)
(* invocation keeps between the template's label 0 and the return from     *)
(* intercept_wrapper: the original rsp, struct context, and the locals of  *)
(* intercept_routine.  A "signal" frame is the one the kernel pushes.      *)
(***************************************************************************)
EXTENDS Integers, FiniteSets

CONSTANTS
    Threads,
    Main,         \* the thread that runs first
    Syscalls,     \* the syscalls that are made, out of Kinds
    HookModes,    \* whether intercept_hook_point is set
    MaxCalls,     \* bound: syscalls of a thread, returns from handlers aside
    MaxSignals    \* bound: signals delivered to all threads

\* What tells syscalls apart: "clone" has a new stack, "fork" is a fork or a
\* clone without one, "exit" is exit or exit_group, "execve" ends the program
\* unless it fails, "magic" is a message for the log.
Creating == {"fork", "vfork", "clone"}
Kinds == Creating \cup {"plain", "magic", "exit", "execve", "rt_sigreturn"}

ASSUME InterceptAssumption ==
    /\ Main \in Threads
    /\ Syscalls \subseteq Kinds
    /\ HookModes \subseteq BOOLEAN
    /\ MaxCalls \in Nat /\ MaxSignals \in Nat

VARIABLES
    th,        \* control and registers of each thread, and its current call
    sp,        \* how many frames are below the stack pointer of a thread
    stack,     \* the stack that a thread runs on
    mem,       \* the frames on each stack
    waits,     \* the vfork child that a thread is suspended for
    hook_set,  \* intercept_hook_point != NULL
    calls,     \* calls made so far, to bound them
    signals    \* signals delivered so far, to bound them

vars == <<th, sp, stack, mem, waits, hook_set, calls, signals>>

None == "none"
MaxDepth == 2 * MaxSignals + 1

\* A syscall of the program and how often it was hooked, executed, passed to
\* intercept_routine_post_clone and logged.
NoCall ==
    [nr |-> None, hooks |-> 0, forward |-> TRUE, kernels |-> 0, posts |-> 0,
     lines |-> 0]

Idle == [pc |-> "user", rax |-> None, rcx |-> 0, r11 |-> 0, call |-> NoCall]

Empty == [kind |-> None]

Runs(t) ==
    /\ th[t].pc \notin {"unborn", "dead", "fault"}
    /\ waits[t] = None

Top(t) == mem[stack[t]][sp[t]]

Push(t, frame) ==
    /\ mem' = [mem EXCEPT ![stack[t]][sp[t] + 1] = frame]
    /\ sp' = [sp EXCEPT ![t] = @ + 1]

-----------------------------------------------------------------------------
(***************************************************************************)
(* The kernel.  Thread t executes the syscall nr and goes on as described  *)
(* by the record next, with the result in rax.                             *)
(***************************************************************************)
Result(next, r) == [next EXCEPT !.rax = r]

SysPlain(t, nr, next) ==
    /\ nr \in {"plain", "magic"}
    /\ th' = [th EXCEPT ![t] = Result(next, "ok")]
    /\ UNCHANGED <<sp, stack, mem, waits>>

SysFails(t, nr, next) ==
    /\ nr \in Creating \cup {"execve"}
    /\ th' = [th EXCEPT ![t] = Result(next, "error")]
    /\ UNCHANGED <<sp, stack, mem, waits>>

\* The child goes on as its parent does: on a copy of its memory, on the same
\* stack while the parent is suspended, or on a stack of its own.
SysCreates(t, nr, next) ==
    /\ nr \in Creating
    /\ \E c \in {u \in Threads : th[u].pc = "unborn"} :
        /\ th' = [th EXCEPT ![t] = Result(next, "pid"),
                            ![c] = Result(next, "zero")]
        /\ \/ /\ nr = "fork"
              /\ mem' = [mem EXCEPT ![c] =
                    [d \in 1 .. MaxDepth |->
                        LET f == mem[stack[t]][d]
                        IN  IF f # Empty /\ f.owner = t
                            THEN [f EXCEPT !.owner = c] ELSE f]]
              /\ sp' = [sp EXCEPT ![c] = sp[t]]
              /\ UNCHANGED <<stack, waits>>
           \/ /\ nr = "vfork"
              /\ stack' = [stack EXCEPT ![c] = stack[t]]
              /\ sp' = [sp EXCEPT ![c] = sp[t]]
              /\ waits' = [waits EXCEPT ![t] = c]
              /\ UNCHANGED mem
           \/ nr = "clone" /\ UNCHANGED <<sp, stack, mem, waits>>

SysExits(t, nr) ==
    /\ nr \in {"exit", "execve"}
    /\ th' = [th EXCEPT ![t].pc = "dead"]
    /\ waits' = [u \in Threads |-> IF waits[u] = t THEN None ELSE waits[u]]
    /\ UNCHANGED <<sp, stack, mem>>

\* rt_sigreturn restores what is at the stack pointer, whatever that is.
SysSigreturn(t, nr) ==
    /\ nr = "rt_sigreturn"
    /\ IF sp[t] > 0 /\ Top(t).kind = "signal"
       THEN /\ th' = [th EXCEPT ![t] = Top(t).saved]
            /\ sp' = [sp EXCEPT ![t] = Top(t).rsp]
       ELSE /\ th' = [th EXCEPT ![t].pc = "fault"]
            /\ UNCHANGED sp
    /\ UNCHANGED <<stack, mem, waits>>

Syscall(t, nr, next) ==
    \/ SysPlain(t, nr, next)
    \/ SysFails(t, nr, next)
    \/ SysCreates(t, nr, next)
    \/ SysExits(t, nr)
    \/ SysSigreturn(t, nr)

\* A signal arrives: its handler runs on top of whatever the thread was doing.
Signal(t) ==
    /\ Runs(t)
    /\ signals < MaxSignals
    /\ signals' = signals + 1
    /\ Push(t, [kind |-> "signal", owner |-> t, rsp |-> sp[t],
                saved |-> th[t]])
    /\ th' = [th EXCEPT ![t] = Idle]
    /\ UNCHANGED <<stack, waits, hook_set, calls>>

-----------------------------------------------------------------------------
(***************************************************************************)
(* The wrapper and the routines that it calls.                             *)
(***************************************************************************)
InHandler(t) == sp[t] > 0 /\ Top(t).kind = "signal" /\ Top(t).owner = t

\* The patched code jumps to the wrapper; a handler that returns to the
\* restorer of libc does so for rt_sigreturn.
Call(t, nr) ==
    /\ Runs(t)
    /\ th[t].pc = "user"
    /\ IF nr = "rt_sigreturn"
       THEN InHandler(t) /\ UNCHANGED calls
       ELSE calls[t] < MaxCalls /\ calls' = [calls EXCEPT ![t] = @ + 1]
    /\ th' = [th EXCEPT ![t] = [pc |-> "template", rax |-> nr, rcx |-> 0,
                                r11 |-> 0, call |-> [NoCall EXCEPT !.nr = nr]]]
    /\ UNCHANGED <<sp, stack, mem, waits, hook_set, signals>>

\* Label 0 of the template and the first half of intercept_wrapper.
Enter(t) ==
    /\ Runs(t)
    /\ th[t].pc = "template"
    /\ Push(t, [kind |-> "context", owner |-> t, rsp |-> sp[t],
                rax |-> th[t].rax, forward |-> TRUE, result |-> "undefined"])
    /\ th' = [th EXCEPT ![t].pc =
                 IF th[t].rcx = 1 THEN "post_clone" ELSE "routine"]
    /\ UNCHANGED <<stack, waits, hook_set, calls, signals>>

\* The C function returns {rax, rdx}; intercept_wrapper restores the other
\* registers, and the template the stack pointer.
Leave(t, rax, rdx) ==
    /\ th' = [th EXCEPT ![t].pc = "dispatch", ![t].rax = rax, ![t].r11 = rdx]
    /\ sp' = [sp EXCEPT ![t] = Top(t).rsp]
    /\ UNCHANGED <<stack, mem, waits, hook_set, calls, signals>>

RoutineMagic(t) ==
    /\ Runs(t)
    /\ th[t].pc = "routine"
    /\ Top(t).rax = "magic"
    /\ Leave(t, "ok", 1)

Routine(t) ==
    /\ Runs(t)
    /\ th[t].pc = "routine"
    /\ Top(t).rax # "magic"
    /\ th' = [th EXCEPT ![t].call.lines = @ + 1,
                        ![t].pc = IF hook_set THEN "hook" ELSE "decide"]
    /\ UNCHANGED <<sp, stack, mem, waits, hook_set, calls, signals>>

Hook(t) ==
    /\ Runs(t)
    /\ th[t].pc = "hook"
    /\ \E forward \in BOOLEAN :
        /\ mem' = [mem EXCEPT ![stack[t]][sp[t]] =
              [Top(t) EXCEPT
                  !.forward = forward,
                  !.result = IF forward THEN "undefined" ELSE "hooked"]]
        /\ th' = [th EXCEPT ![t].pc = "decide", ![t].call.hooks = @ + 1,
                            ![t].call.forward = forward]
    /\ UNCHANGED <<sp, stack, waits, hook_set, calls, signals>>

NotNormal_vfork(nr) == nr = "rt_sigreturn"

\* "can't handle these syscalls the normal way"
NotNormal(nr) == nr \in {"vfork", "rt_sigreturn"}

\* A new stack for the child, given to clone or to clone3.
NewStack(nr) == nr = "clone"

DecideDirect(t) ==
    /\ Runs(t)
    /\ th[t].pc = "decide"
    /\ NotNormal(Top(t).rax)
    /\ Leave(t, Top(t).rax, 0)

DecideClone(t) ==
    /\ Runs(t)
    /\ th[t].pc = "decide"
    /\ ~NotNormal(Top(t).rax) /\ Top(t).forward /\ NewStack(Top(t).rax)
    /\ Leave(t, Top(t).rax, 2)

DecideKernel(t) ==
    /\ Runs(t)
    /\ th[t].pc = "decide"
    /\ ~NotNormal(Top(t).rax)
    /\ ~(Top(t).forward /\ NewStack(Top(t).rax))
    /\ th' = [th EXCEPT ![t].pc = IF Top(t).forward THEN "kernel" ELSE "log"]
    /\ UNCHANGED <<sp, stack, mem, waits, hook_set, calls, signals>>

\* syscall_no_intercept: with the frame of the invocation on the stack.
Kernel(t) ==
    /\ Runs(t)
    /\ th[t].pc = "kernel"
    /\ Syscall(t, Top(t).rax,
               [th[t] EXCEPT !.pc = "log", !.call.kernels = @ + 1])
    /\ UNCHANGED <<hook_set, calls, signals>>

\* The result of the kernel, or the one that the hook stored, is logged and
\* returned.
LogAndLeave(t) ==
    /\ th' = [th EXCEPT ![t].pc = "dispatch", ![t].r11 = 1,
                        ![t].rax = IF Top(t).forward THEN @ ELSE Top(t).result,
                        ![t].call.lines = @ + 1]
    /\ sp' = [sp EXCEPT ![t] = Top(t).rsp]

Log(t) ==
    /\ Runs(t)
    /\ th[t].pc = "log"
    /\ LogAndLeave(t)
    /\ UNCHANGED <<stack, mem, waits, hook_set, calls, signals>>

PostClone_again(t) ==
    /\ Runs(t)
    /\ th[t].pc = "post_clone"
    /\ th' = [th EXCEPT ![t].pc = "dispatch", ![t].rax = Top(t).rax,
                        ![t].r11 = 2, ![t].call.posts = @ + 1]
    /\ sp' = [sp EXCEPT ![t] = Top(t).rsp]
    /\ UNCHANGED <<stack, mem, waits, hook_set, calls, signals>>

\* intercept_routine_post_clone: the hook for the child, or for the parent.
PostClone(t) ==
    /\ Runs(t)
    /\ th[t].pc = "post_clone"
    /\ th' = [th EXCEPT ![t].pc = "dispatch", ![t].rax = Top(t).rax,
                        ![t].r11 = 1, ![t].call.posts = @ + 1]
    /\ sp' = [sp EXCEPT ![t] = Top(t).rsp]
    /\ UNCHANGED <<stack, mem, waits, hook_set, calls, signals>>

\* The template after the call: on to libc, or first into the kernel.
DispatchReturn(t) ==
    /\ Runs(t)
    /\ th[t].pc = "dispatch" /\ th[t].r11 = 1
    /\ th' = [th EXCEPT ![t].pc = "user"]
    /\ UNCHANGED <<sp, stack, mem, waits, hook_set, calls, signals>>

DispatchDirect(t) ==
    /\ Runs(t)
    /\ th[t].pc = "dispatch" /\ th[t].r11 = 0
    /\ Syscall(t, th[t].rax,
               [th[t] EXCEPT !.pc = "user", !.call.kernels = @ + 1])
    /\ UNCHANGED <<hook_set, calls, signals>>

AfterClone_user(t) == [th[t] EXCEPT !.pc = "user", !.call.kernels = @ + 1]

AfterClone(t) ==
    [th[t] EXCEPT !.pc = "template", !.rcx = 1, !.call.kernels = @ + 1]

DispatchClone(t) ==
    /\ Runs(t)
    /\ th[t].pc = "dispatch" /\ th[t].r11 = 2
    /\ Syscall(t, th[t].rax, AfterClone(t))
    /\ UNCHANGED <<hook_set, calls, signals>>

-----------------------------------------------------------------------------
Init ==
    /\ th = [t \in Threads |->
               IF t = Main THEN Idle ELSE [Idle EXCEPT !.pc = "unborn"]]
    /\ sp = [t \in Threads |-> 0]
    /\ stack = [t \in Threads |-> t]
    /\ mem = [t \in Threads |-> [d \in 1 .. MaxDepth |-> Empty]]
    /\ waits = [t \in Threads |-> None]
    /\ hook_set \in HookModes
    /\ calls = [t \in Threads |-> 0]
    /\ signals = 0

\* What a thread does between a syscall and its return.
Step(t) ==
    \/ Enter(t)
    \/ RoutineMagic(t) \/ Routine(t) \/ Hook(t)
    \/ DecideDirect(t) \/ DecideClone(t) \/ DecideKernel(t)
    \/ Kernel(t) \/ Log(t) \/ PostClone(t)
    \/ DispatchReturn(t) \/ DispatchDirect(t) \/ DispatchClone(t)

Next ==
    \E t \in Threads :
        \/ Step(t)
        \/ \E nr \in Syscalls : Call(t, nr)
        \/ Signal(t)

Spec == Init /\ [][Next]_vars

\* Threads are scheduled, hooks return, and so do signal handlers.
FairSpec ==
    /\ Spec
    /\ \A t \in Threads : WF_vars(Step(t)) /\ WF_vars(Call(t, "rt_sigreturn"))
-----------------------------------------------------------------------------
(***************************************************************************)
(* Properties.                                                             *)
(***************************************************************************)
InC == {"routine", "hook", "decide", "kernel", "log", "post_clone"}

\* While intercept_routine runs for a syscall, the registers saved for it and
\* its locals are where it left them: not even a vfork child, which uses the
\* same stack, overwrites them.  rt_sigreturn finds the signal frame at the
\* stack pointer, although the wrapper and intercept_routine have used the
\* stack before it is executed.
FramesIntact ==
    \A t \in Threads :
        /\ th[t].pc # "fault"
        /\ th[t].pc \in InC =>
              /\ sp[t] > 0
              /\ Top(t).kind = "context" /\ Top(t).owner = t
              /\ th[t].rcx = 0 => Top(t).rax = th[t].call.nr

\* A syscall that has returned to libc was passed to the hook once, went to
\* the kernel once or not at all as the hook decided, and left the result of
\* whoever executed it in rax; both threads that return from a clone have
\* been reported to intercept_routine_post_clone.  It was logged before and
\* after it was executed, unless intercept_routine could not execute it.
CallsTransparent ==
    \A t \in Threads :
        LET c == th[t].call
        IN  th[t].pc = "user" /\ c.nr # None =>
              IF c.nr = "magic"
              THEN c.hooks = 0 /\ c.kernels = 0 /\ th[t].rax = "ok"
              ELSE /\ c.hooks = IF hook_set THEN 1 ELSE 0
                   /\ c.nr # "vfork" =>
                        /\ c.kernels = IF c.forward THEN 1 ELSE 0
                        /\ c.forward <=> th[t].rax # "hooked"
                   /\ c.nr = "vfork" => c.kernels = 1
                   /\ LET outside == c.nr = "clone" /\ c.forward
                      IN  /\ c.posts = IF outside THEN 1 ELSE 0
                          /\ c.lines = IF outside \/ c.nr = "vfork"
                                       THEN 1 ELSE 2

\* Every syscall returns to libc at the stack depth where it was made, unless
\* it ends the thread or waits for a vfork child.
EveryCallReturns ==
    \A t \in Threads, d \in 0 .. MaxDepth :
        /\ th[t].pc = "template" /\ sp[t] = d
        /\ th[t].call.nr # "rt_sigreturn"
        ~> \/ th[t].pc = "user" /\ sp[t] = d
           \/ th[t].pc = "dead"
           \/ waits[t] # None

=============================================================================
