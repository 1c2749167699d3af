---------------------------- MODULE InterceptLog ----------------------------
(***************************************************************************)
(* The log of intercepted syscalls (intercept_log.c) and the write calls   *)
(* that start and stop it (magic_syscalls.c), in a program whose threads   *)
(* open and close files of their own.  The names of logs are left out.     *)
(***************************************************************************)
EXTENDS Integers, Sequences

CONSTANTS
    Threads,
    MaxFd          \* file descriptors are 0 .. MaxFd

Fds == 0 .. MaxFd
NoFd == -1
NUL == "nul"

\* The two texts, of which only a common prefix matters, and their sizes.
start_log_message == <<"S", "A", NUL>>
stop_log_message == <<"S", "O", NUL>>

\* A write to SYSCALL_INT_MAGIC_WRITE_FD, also one that is too short, or of
\* other data.
Request ==
    [message : {start_log_message, stop_log_message,
                <<"S", NUL, NUL>>, <<"d", "S", NUL>>},
     len : 0 .. 3, path_null : BOOLEAN]

ASSUME LogAssumption == MaxFd \in Nat

VARIABLES
    log_fd,
    files,     \* what each file descriptor refers to
    th,        \* where each thread is, and what it holds in registers
    strayed,   \* where lines of the log went that were no log
    closed,    \* the files that were closed as the log
    overlapped \* "yes" when a thread began to start or stop the log while another
               \* one was at it: nothing in the library orders them

vars == <<log_fd, files, th, strayed, closed, overlapped>>

\* Where a thread is that starts or stops the log, and where it holds log_fd.
Holding == {"closing", "closing to open", "closed", "closed to open"}
Control == Holding \cup {"close", "close to open", "open"}

\* raced: the log was being closed since the thread has looked at log_fd.
Idle == [pc |-> "idle", fd |-> NoFd, raced |-> FALSE]

Free == {fd \in Fds : files[fd] = "closed"}
Lowest(S) == CHOOSE fd \in S : \A other \in S : fd <= other

Goto(t, pc) == th' = [th EXCEPT ![t].pc = pc]

\* The constructor has opened the log if INTERCEPT_LOG is set.
Init ==
    /\ \E before \in [Fds -> {"closed", "app"}] :
          \/ log_fd = NoFd /\ files = before
          \/ LET free == {fd \in Fds : before[fd] = "closed"}
             IN  /\ free # {}
                 /\ log_fd = Lowest(free)
                 /\ files = [before EXCEPT ![log_fd] = "log"]
    /\ th = [t \in Threads |-> Idle]
    /\ strayed = {}
    /\ closed = {}
    /\ overlapped = "no"

-----------------------------------------------------------------------------
(***************************************************************************)
(* The program, which only closes files that it has opened.                *)
(***************************************************************************)
AppOpen(t) ==
    /\ th[t].pc = "idle"
    /\ Free # {}
    /\ files' = [files EXCEPT ![Lowest(Free)] = "app"]
    /\ UNCHANGED <<log_fd, th, strayed, closed, overlapped>>

AppClose(t) ==
    /\ th[t].pc = "idle"
    /\ \E fd \in Fds :
          /\ files[fd] = "app"
          /\ files' = [files EXCEPT ![fd] = "closed"]
    /\ UNCHANGED <<log_fd, th, strayed, closed, overlapped>>

-----------------------------------------------------------------------------
(***************************************************************************)
(* handle_magic_syscalls.                                                  *)
(***************************************************************************)
strncmp_equal(a, b, n) ==
    \A i \in 1 .. n :
        a[i] = b[i] \/ \E j \in 1 .. i - 1 : a[j] = NUL /\ b[j] = NUL

is_start(r) == strncmp_equal(r.message, start_log_message, r.len)
is_stop(r) == strncmp_equal(r.message, stop_log_message, r.len)

EnterControl(t) ==
    overlapped' = IF \E u \in Threads \ {t} : th[u].pc \in Control
                  THEN "yes" ELSE overlapped

Start_without_close(t, r) ==
    /\ th[t].pc = "idle"
    /\ is_start(r)
    /\ IF r.path_null THEN UNCHANGED <<th, overlapped>>
       ELSE Goto(t, "open") /\ EnterControl(t)
    /\ UNCHANGED <<log_fd, files, strayed, closed>>

\* A message that starts the log: intercept_setup_log, which closes the log
\* first, and does nothing without a path.
Start(t, r) ==
    /\ th[t].pc = "idle"
    /\ is_start(r)
    /\ IF r.path_null THEN UNCHANGED <<th, overlapped>>
       ELSE Goto(t, "close to open") /\ EnterControl(t)
    /\ UNCHANGED <<log_fd, files, strayed, closed>>

\* A message that stops it.
Stop(t, r) ==
    /\ th[t].pc = "idle"
    /\ ~is_start(r) /\ is_stop(r)
    /\ Goto(t, "close") /\ EnterControl(t)
    /\ UNCHANGED <<log_fd, files, strayed, closed>>

\* Any other message is a syscall like all others.
NotMagic(t, r) ==
    /\ th[t].pc = "idle"
    /\ ~is_start(r) /\ ~is_stop(r)
    /\ Goto(t, "log")
    /\ UNCHANGED <<log_fd, files, strayed, closed, overlapped>>

-----------------------------------------------------------------------------
(***************************************************************************)
(* intercept_log_close, called to stop the log and before another one is   *)
(* opened.                                                                 *)
(***************************************************************************)
CloseCheck(t) ==
    /\ th[t].pc \in {"close", "close to open"}
    /\ \/ /\ log_fd = NoFd
          /\ Goto(t, IF th[t].pc = "close" THEN "idle" ELSE "open")
       \/ /\ log_fd # NoFd
          /\ th' = [th EXCEPT ![t].fd = log_fd,
                              ![t].pc = IF @ = "close" THEN "closing"
                                        ELSE "closing to open"]
    /\ UNCHANGED <<log_fd, files, strayed, closed, overlapped>>

CloseFile(t) ==
    /\ th[t].pc \in {"closing", "closing to open"}
    /\ files' = [files EXCEPT ![th[t].fd] = "closed"]
    /\ closed' = closed \cup {files[th[t].fd]}
    /\ th' = [u \in Threads |->
                IF u = t
                THEN [th[t] EXCEPT !.pc = IF @ = "closing" THEN "closed"
                                          ELSE "closed to open"]
                ELSE [th[u] EXCEPT !.raced = @ \/ th[u].pc = "print"]]
    /\ UNCHANGED <<log_fd, strayed, overlapped>>

Closing == \E t \in Threads : th[t].pc \in {"closed", "closed to open"}

CloseReset_not(t) ==
    /\ th[t].pc \in {"closed", "closed to open"}
    /\ th' = [th EXCEPT ![t].fd = NoFd,
                        ![t].pc = IF @ = "closed" THEN "idle" ELSE "open"]
    /\ UNCHANGED <<log_fd, files, strayed, closed, overlapped>>

CloseReset(t) ==
    /\ th[t].pc \in {"closed", "closed to open"}
    /\ log_fd' = NoFd
    /\ th' = [th EXCEPT ![t].fd = NoFd,
                        ![t].pc = IF @ = "closed" THEN "idle" ELSE "open"]
    /\ UNCHANGED <<files, strayed, closed, overlapped>>

\* The rest of intercept_setup_log.
OpenLog(t) ==
    /\ th[t].pc = "open"
    /\ Free # {}
    /\ log_fd' = Lowest(Free)
    /\ files' = [files EXCEPT ![Lowest(Free)] = "log"]
    /\ Goto(t, "idle")
    /\ UNCHANGED <<strayed, closed, overlapped>>

\* If open fails, xabort_on_syserror ends the process.
OpenLogFails(t) ==
    /\ th[t].pc = "open"
    /\ log_fd' = NoFd
    /\ th' = [u \in Threads |-> [th[u] EXCEPT !.pc = "ended"]]
    /\ UNCHANGED <<files, strayed, closed, overlapped>>

-----------------------------------------------------------------------------
(***************************************************************************)
(* intercept_log_syscall: logging any intercepted syscall.                 *)
(***************************************************************************)
Intercept(t) ==
    /\ th[t].pc = "idle"
    /\ Goto(t, "log")
    /\ UNCHANGED <<log_fd, files, strayed, closed, overlapped>>

LogCheck(t) ==
    /\ th[t].pc = "log"
    /\ \/ log_fd = NoFd /\ Goto(t, "idle")
       \/ /\ log_fd # NoFd
          /\ th' = [th EXCEPT ![t] = [pc |-> "print", fd |-> log_fd,
                                      raced |-> Closing]]
    /\ UNCHANGED <<log_fd, files, strayed, closed, overlapped>>

\* Whether log_fd is read again after the line was printed is left to the
\* compiler.
LogWrite(t) ==
    /\ th[t].pc = "print"
    /\ \E fd \in {th[t].fd, log_fd} :
          strayed' = strayed \cup
             {[file |-> files[f], raced |-> th[t].raced] :
                 f \in {g \in {fd} \cap Fds : files[g] = "app"}}
    /\ th' = [th EXCEPT ![t] = Idle]
    /\ UNCHANGED <<log_fd, files, closed, overlapped>>

Next ==
    \E t \in Threads :
        \/ AppOpen(t) \/ AppClose(t)
        \/ \E r \in Request : Start(t, r) \/ Stop(t, r) \/ NotMagic(t, r)
        \/ CloseCheck(t) \/ CloseFile(t) \/ CloseReset(t)
        \/ OpenLog(t) \/ OpenLogFails(t)
        \/ Intercept(t) \/ LogCheck(t) \/ LogWrite(t)

Spec == Init /\ [][Next]_vars
-----------------------------------------------------------------------------
(***************************************************************************)
(* Properties.                                                             *)
(***************************************************************************)
LogFds == {fd \in Fds : files[fd] = "log"}

\* A line of the log goes to a file of the program only if another thread was
\* closing the log after the thread had looked at log_fd, no matter how many
\* threads start and stop the log.
LinesOnlyInLog == \A s \in strayed : s.raced

\* Except while a thread is closing it, log_fd refers to an open log.  And as long
\* as no thread has started or stopped the log while another one was at it, no
\* other log stays open, so that restarting the log does not use up file
\* descriptors, and no file of the program was closed as the log.
NoLogLeaked ==
    /\ ~Closing => (log_fd # NoFd => log_fd \in LogFds)
    /\ overlapped = "no" => (\A fd \in LogFds : fd = log_fd) /\ closed \subseteq {"log"}
=============================================================================
