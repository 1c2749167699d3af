------------------------------- MODULE FspHook -------------------------------
(***************************************************************************)
(* The hook of examples/syscall_fsp.c: which calls it hands to the server  *)
(* of FSP and which to the kernel, what it answers, when it calls          *)
(* fs_syncall, and how the process parts from the server.  How much is     *)
(* read and written is in FspIo, the buffers of asynchronous requests are  *)
(* in FspAio, the table of descriptors is in FspFds.                       *)
(***************************************************************************)
EXTENDS Integers, FiniteSets

CONSTANTS
    HookThreads,
    SyncallSeqNo,   \* the values of FSP_SYNCALL_SEQ_NO
    MaxOps,         \* bound: how many operations the hook handles
    EPERM,          \* 1
    FsErrors,       \* the error numbers of the server
    EBADF           \* that of the kernel

ASSUME HookAssumption ==
    /\ SyncallSeqNo \subseteq Int /\ MaxOps \in Nat
    /\ EPERM = 1 /\ FsErrors \subseteq Nat \ {0} /\ EBADF \in Nat \ {0, 1}

VARIABLES
    hook,                \* where each thread is, and the counter it has loaded
    answer,              \* the call that was answered in the latest step
    errno,               \* of each thread
    g_syncall_seq_no,
    g_syncall_counter,
    syncall,             \* how often fs_syncall was called, and whether
                         \* threads were in the counting part at once
    server,              \* the connection to the server
    ended                \* how the process has ended

hookVars == <<hook, answer, errno, g_syncall_seq_no, g_syncall_counter, syncall,
              server, ended>>

\* The calls, by what the handler does with them.  fsp: the path begins with
\* the prefix of FSP, or the descriptor is in the table.
\*   ask       one function of the server, whose value is returned: unlink,
\*             mkdir, access, stat, lstat, close, lseek, fstat, newfstatat
\*   transfer  what was transferred is returned, and nothing if the first step
\*             fails: getdents, read, write
\*   noop      chmod, utime, fadvise64, fchmod
PathOrFdCalls ==
    [nr : {"open", "ask", "transfer", "noop", "fcntl F_GETFL", "fcntl", "other"},
     fsp : BOOLEAN]
RenameCalls == [nr : {"rename"}, fsp : BOOLEAN, dst_fsp : BOOLEAN]
\* ftruncate and io_* are handled whatever they are for.
TruncateCalls == [nr : {"ftruncate"}, fsp : {TRUE}, length : {-1, 2}]
AioCalls == [nr : {"io_setup", "io_submit", "io_getevents"}, fsp : {TRUE}]
HookCalls == PathOrFdCalls \cup RenameCalls \cup TruncateCalls \cup AioCalls

NotCalled == [nr |-> "none"]
IdleHook == [pc |-> "program", reg |-> 0]

HookInit ==
    /\ hook = [t \in HookThreads |-> IdleHook]
    /\ answer = NotCalled
    /\ errno = [t \in HookThreads |-> 0]
    /\ g_syncall_seq_no \in SyncallSeqNo
    /\ g_syncall_counter = 0
    /\ syncall = [calls |-> 0, at |-> 0, raced |-> FALSE]
    /\ server = [state |-> "none", exits |-> 0]
    /\ ended = "no"

-----------------------------------------------------------------------------
(***************************************************************************)
(* The constructor.  It runs before any other thread.                      *)
(***************************************************************************)
HookStart ==
    /\ ended = "no" /\ server.state = "none"
    /\ \/ server' = [server EXCEPT !.state = "up"] /\ UNCHANGED ended
       \/ ended' = "start" /\ UNCHANGED server
    /\ UNCHANGED <<hook, answer, errno, g_syncall_seq_no, g_syncall_counter,
                   syncall>>

Running == ended = "no" /\ server.state # "none"

-----------------------------------------------------------------------------
(***************************************************************************)
(* fsp_syscall_handle.  An outcome is whether the call was handled, the    *)
(* value that SET_RETURN_VAL gets, errno, and why what the program asked   *)
(* for was not done.                                                       *)
(***************************************************************************)
Done == 0           \* it was done
NotTried == -1      \* nobody was asked; other reasons are error numbers

Handled(ret, e, failure) ==
    [handled |-> TRUE, ret |-> ret, errno |-> e, failure |-> failure]
NotHandled(e) == [handled |-> FALSE, ret |-> 0, errno |-> e, failure |-> NotTried]

\* The server does it, or fails and returns -1 with an errno, or an error code.
AskServer(e) ==
    {Handled(0, e, Done)}
    \cup {Handled(-1, err, err) : err \in FsErrors}
    \cup {Handled(-err, e, err) : err \in FsErrors}

\* The loop over the parts of a transfer ends at the first one that fails, and
\* only the sum of the others is returned; io_submit counts those that did not.
Transfer(e) ==
    {Handled(1, e, Done)}
    \cup UNION {{Handled(0, e, err), Handled(0, err, err)} : err \in FsErrors}

outcomes(c, e) ==
    CASE ~c.fsp -> {NotHandled(IF c.nr = "open" THEN 0 ELSE e)}
      [] c.fsp /\ c.nr = "open" -> AskServer(0)
      [] c.fsp /\ c.nr \in {"ask", "io_getevents"} -> AskServer(e)
      [] c.fsp /\ c.nr \in {"transfer", "io_submit"} -> Transfer(e)
      [] c.fsp /\ c.nr = "noop" -> {Handled(0, e, NotTried)}
      [] c.fsp /\ c.nr \in {"fcntl F_GETFL", "io_setup"} -> {Handled(0, e, Done)}
      [] c.fsp /\ c.nr \in {"fcntl", "other"} -> {NotHandled(e)}
      [] c.fsp /\ c.nr = "rename" ->
           IF c.dst_fsp THEN AskServer(e) ELSE {Handled(-1, e, NotTried)}
      [] c.fsp /\ c.nr = "ftruncate" -> {Handled(c.length, e, NotTried)}


SET_RETURN_VAL(o) ==
    IF o.ret >= 0 THEN [result |-> o.ret, errno |-> o.errno]
    ELSE LET e == IF o.ret # -1 THEN -o.ret ELSE o.errno
         IN  [result |-> -e, errno |-> e]

\* The result, and why what was asked for was not done.  A call that is not
\* handled goes to the kernel as it is, and its error ends up in errno, too.
Answers(o) ==
    IF o.handled
    THEN {[result |-> SET_RETURN_VAL(o).result, errno |-> SET_RETURN_VAL(o).errno,
           failure |-> o.failure]}
    ELSE {[result |-> 0, errno |-> o.errno, failure |-> Done],
          [result |-> -EBADF, errno |-> EBADF, failure |-> EBADF]}

HookCall(t, c) ==
    /\ Running /\ hook[t].pc = "program" /\ g_syncall_counter < MaxOps
    /\ \E o \in outcomes(c, errno[t]) :
          /\ \E a \in Answers(o) :
                /\ answer' = [nr |-> c.nr, call |-> c, result |-> a.result,
                              entry_errno |-> IF c.nr = "open" THEN 0 ELSE errno[t],
                              failure |-> a.failure]
                /\ errno' = [errno EXCEPT ![t] = a.errno]
          /\ hook' = IF o.handled THEN [hook EXCEPT ![t].pc = "count"] ELSE hook
    /\ UNCHANGED <<g_syncall_seq_no, g_syncall_counter, syncall, server, ended>>

-----------------------------------------------------------------------------
(***************************************************************************)
(* The rest of the hook.                                                   *)
(***************************************************************************)
HookRest(t, pc) == Running /\ hook[t].pc = pc

Counting == {"add", "compare"}

\* g_syncall_counter++ is a load and a store.
CountLoad(t) ==
    /\ HookRest(t, "count")
    /\ hook' = [hook EXCEPT ![t].pc = "add", ![t].reg = g_syncall_counter]
    /\ syncall' = [syncall EXCEPT !.raced =
          @ \/ \E u \in HookThreads \ {t} : hook[u].pc \in Counting]
    /\ answer' = NotCalled
    /\ UNCHANGED <<errno, g_syncall_seq_no, g_syncall_counter, server, ended>>

CountStore(t) ==
    /\ HookRest(t, "add")
    /\ g_syncall_counter' = hook[t].reg + 1
    /\ hook' = [hook EXCEPT ![t].pc = "compare"]
    /\ answer' = NotCalled
    /\ UNCHANGED <<errno, g_syncall_seq_no, syncall, server, ended>>

is_syncall_from(n) == n >= g_syncall_seq_no /\ g_syncall_seq_no > 0

is_syncall(n) == n = g_syncall_seq_no /\ g_syncall_seq_no > 0

\* The counter is compared as stored, or is read again.
CountCompare(t) ==
    /\ HookRest(t, "compare")
    /\ \E n \in {hook[t].reg + 1, g_syncall_counter} :
          syncall' = IF is_syncall(n)
                     THEN [syncall EXCEPT !.calls = @ + 1, !.at = g_syncall_counter]
                     ELSE syncall
    /\ hook' = [hook EXCEPT ![t] = IdleHook]
    /\ answer' = NotCalled
    /\ UNCHANGED <<errno, g_syncall_seq_no, g_syncall_counter, server, ended>>

-----------------------------------------------------------------------------
(***************************************************************************)
(* The end of the process.                                                 *)
(***************************************************************************)

InExit == {"exit", "exit failed"}

\* A thread calls exit(), whose destructors include fsops_shutdown: fs_exit, and
\* exit() again if that fails.  A second thread that calls exit() waits.
clean_exit(t) ==
    /\ Running /\ hook[t].pc = "program"
    /\ \A u \in HookThreads : hook[u].pc \notin InExit
    /\ \/ /\ hook' = [hook EXCEPT ![t].pc = "exit"]
          /\ server' = [server EXCEPT !.state = "left", !.exits = @ + 1]
       \/ /\ hook' = [hook EXCEPT ![t].pc = "exit failed"]
          /\ server' = [server EXCEPT !.exits = @ + 1]
    /\ answer' = NotCalled
    /\ UNCHANGED <<errno, g_syncall_seq_no, g_syncall_counter, syncall, ended>>

ExitHookFirst(t) ==
    /\ Running /\ hook[t].pc \in {"program"} \cup InExit
    /\ ended' = IF hook[t].pc \in InExit THEN hook[t].pc ELSE "_exit"
    /\ server' = [server EXCEPT !.state = "left", !.exits = @ + 1]
    /\ answer' = NotCalled
    /\ UNCHANGED <<hook, errno, g_syncall_seq_no, g_syncall_counter, syncall>>

\* exit_group, at the end of exit() or from _exit().  The hook makes the call
\* itself, and what it would do afterwards, fs_exit among it, is not reached.
ExitHook(t) ==
    /\ Running /\ hook[t].pc \in {"program"} \cup InExit
    /\ ended' = IF hook[t].pc \in InExit THEN hook[t].pc ELSE "_exit"
    /\ answer' = NotCalled
    /\ UNCHANGED <<hook, errno, g_syncall_seq_no, g_syncall_counter, syncall, server>>

HookNext ==
    \/ HookStart
    \/ \E t \in HookThreads :
          \/ \E c \in HookCalls : HookCall(t, c)
          \/ CountLoad(t) \/ CountStore(t) \/ CountCompare(t)
          \/ clean_exit(t) \/ ExitHook(t)

-----------------------------------------------------------------------------
(***************************************************************************)
(* Properties.                                                             *)
(***************************************************************************)
\* Unless threads were counting at once, fs_syncall is called exactly once,
\* right after the operation with the number FSP_SYNCALL_SEQ_NO, and never if
\* that number is not positive.
SyncallOnce ==
    ~syncall.raced =>
        LET counted == g_syncall_counter -
                Cardinality({t \in HookThreads : hook[t].pc = "compare"})
        IN  /\ syncall.calls =
                  IF g_syncall_seq_no \in 1 .. counted THEN 1 ELSE 0
            /\ syncall.calls = 1 => syncall.at = g_syncall_seq_no


\* The process calls fs_exit at most once, and has done so when it has ended
\* exactly if one of its threads was in exit().  The server has then let it go if
\* that call did not fail, and only then: after _exit() and after a failed start
\* the server still believes it to be there.
ServerLeftOnce ==
    /\ server.exits <= 1
    /\ ended # "no" =>
          /\ server.exits = 1 <=> \E t \in HookThreads : hook[t].pc \in InExit
          /\ server.state = "left" <=> \E t \in HookThreads : hook[t].pc = "exit"
    /\ ended = "exit" => server.state = "left"
=============================================================================
