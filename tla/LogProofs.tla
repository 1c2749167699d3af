----------------------------- MODULE LogProofs -----------------------------
(***************************************************************************)
(* Theorems about InterceptLog, for any number of threads, all of which    *)
(* may start and stop the log, and any number of file descriptors.         *)
(***************************************************************************)
EXTENDS InterceptLog, FiniteSetTheorems, WellFoundedInduction, TLAPS

Pcs == Control \cup {"idle", "log", "print", "ended"}
Registers == [pc : Pcs, fd : Fds \cup {NoFd}, raced : BOOLEAN]

TypeOK ==
    /\ log_fd \in Fds \cup {NoFd}
    /\ files \in [Fds -> {"closed", "app", "log"}]
    /\ th \in [Threads -> Registers]

\* Except while a thread is closing it, log_fd refers to an open log.
LogOpen == ~Closing /\ log_fd # NoFd => files[log_fd] = "log"

\* A thread that is about to write a line has seen the log, which is still open,
\* or knows that it was closed.
SeenOpen ==
    \A t \in Threads :
        th[t].pc = "print" /\ ~th[t].raced
            => ~Closing /\ log_fd # NoFd /\ th[t].fd \in Fds /\ files[th[t].fd] = "log"

\* A thread that is closing the log holds a file descriptor.
HoldsFd == \A t \in Threads : th[t].pc \in Holding => th[t].fd \in Fds

LogInv == TypeOK /\ LogOpen /\ SeenOpen /\ HoldsFd /\ LinesOnlyInLog

\* If no two threads started or stopped the log at once, the one that does is
\* alone with log_fd, and knows what it refers to.
Alone ==
    /\ \A t, u \in Threads : th[t].pc \in Control /\ th[u].pc \in Control => t = u
    /\ \A t \in Threads :
          th[t].pc \in Holding => log_fd # NoFd /\ th[t].fd = log_fd
    /\ \A t \in Threads : th[t].pc = "open" => log_fd = NoFd
    /\ Closing => \A fd \in Fds : files[fd] # "log"
    /\ \A fd \in Fds : files[fd] = "log" => fd = log_fd
    /\ closed \subseteq {"log"}

AloneInv == overlapped = "no" => Alone

\* open returns the lowest free file descriptor: there is one, since the sets
\* 0 .. fd of a bounded range are well-founded under inclusion.
LEMMA LowestFree ==
    ASSUME NEW S, S \subseteq Fds, S # {}
    PROVE  Lowest(S) \in S
<1> DEFINE Below == {0 .. fd : fd \in S}
           R == StrictSubsetOrdering(Fds)
<1>1. Fds = 0 .. MaxFd /\ MaxFd \in Int /\ 0 \in Int
  BY LogAssumption DEF Fds
<1>2. IsFiniteSet(Fds)
  BY <1>1, FS_Interval
<1>3. IsWellFoundedOn(R, SUBSET Fds)
  <2>1. IsWellFoundedOn(R, FiniteSubsetsOf(Fds))
    BY FS_StrictSubsetOrderingWellFounded
  <2> QED BY <1>2, <2>1, FS_FiniteSubsetsOfFinite
<1>4. Below \subseteq SUBSET Fds /\ Below # {}
  <2>1. \A fd \in S : 0 .. fd \subseteq Fds
    BY <1>1
  <2>2. Below # {}
    OBVIOUS
  <2> QED BY <2>1, <2>2
<1>5. PICK A \in Below : \A B \in Below : ~(<<B, A>> \in R)
  <2> HIDE DEF Below, R
  <2> QED BY <1>3, <1>4, WFMin
<1>6. PICK x \in S : A = 0 .. x
  BY <1>5
<1>7. \A y \in S : x <= y
  <2>1. SUFFICES ASSUME NEW y \in S, y < x PROVE FALSE
    BY <1>1
  <2>2. 0 .. y \subseteq A /\ x \in A /\ x \notin 0 .. y
    BY <1>1, <1>6, <2>1
  <2>3. <<0 .. y, A>> \in R
    BY <1>4, <1>5, <2>2 DEF StrictSubsetOrdering
  <2> QED BY <1>5, <2>3
<1> QED BY <1>7 DEF Lowest

LEMMA NoFdIsNoFd == NoFd \notin Fds
BY LogAssumption DEF NoFd, Fds

LEMMA InitInv == Init => LogInv /\ AloneInv
<1> SUFFICES ASSUME Init PROVE LogInv /\ AloneInv
  OBVIOUS
<1>1. th = [t \in Threads |-> Idle] /\ strayed = {} /\ closed = {}
  BY DEF Init
<1>2. ~Closing
  BY <1>1 DEF Closing, Idle
<1>3. PICK before \in [Fds -> {"closed", "app"}] :
         \/ log_fd = NoFd /\ files = before
         \/ LET free == {fd \in Fds : before[fd] = "closed"}
            IN  /\ free # {}
                /\ log_fd = Lowest(free)
                /\ files = [before EXCEPT ![log_fd] = "log"]
  BY DEF Init
<1>4. /\ log_fd \in Fds \cup {NoFd}
      /\ files \in [Fds -> {"closed", "app", "log"}]
      /\ log_fd # NoFd => files[log_fd] = "log"
      /\ \A fd \in Fds : files[fd] = "log" => fd = log_fd
  <2>1. CASE log_fd = NoFd /\ files = before
    BY <1>3, <2>1
  <2>2. CASE ~(log_fd = NoFd /\ files = before)
    <3> DEFINE free == {fd \in Fds : before[fd] = "closed"}
    <3>1. free # {} /\ log_fd = Lowest(free)
          /\ files = [before EXCEPT ![log_fd] = "log"]
      BY <1>3, <2>2
    <3>2. free \subseteq Fds
      OBVIOUS
    <3>3. Lowest(free) \in free
      <4> HIDE DEF free
      <4> QED BY <3>1, <3>2, LowestFree
    <3>4. log_fd \in Fds
      BY <3>1, <3>2, <3>3
    <3> QED BY <1>3, <3>1, <3>4
  <2> QED BY <2>1, <2>2
<1>5. LogInv
  BY <1>1, <1>2, <1>4
  DEF LogInv, TypeOK, LogOpen, SeenOpen, HoldsFd, LinesOnlyInLog, Registers, Pcs,
      Control, Holding, Idle
<1>6. AloneInv
  BY <1>1, <1>2, <1>4 DEF AloneInv, Alone, Control, Holding, Idle
<1> QED BY <1>5, <1>6

-----------------------------------------------------------------------------
(***************************************************************************)
(* What holds however many threads start and stop the log.                 *)
(***************************************************************************)

\* A step that only changes where a thread is, but not to or from a place
\* where it holds log_fd.
LEMMA GotoKeeps ==
    ASSUME LogInv, NEW t \in Threads, NEW pc \in Pcs \ Holding,
           th[t].pc \notin Holding, pc # "print", Goto(t, pc),
           UNCHANGED <<log_fd, files, strayed>>
    PROVE  LogInv'
<1>1. th' = [th EXCEPT ![t].pc = pc]
  BY DEF Goto
<1>2. TypeOK'
  BY <1>1 DEF LogInv, TypeOK, Registers
<1>3. \A u \in Threads : u # t => th'[u] = th[u]
  BY <1>1 DEF LogInv, TypeOK
<1>4. th'[t].pc = pc
  BY <1>1 DEF LogInv, TypeOK, Registers
<1>5. Closing' <=> Closing
  BY <1>3, <1>4 DEF Closing, Holding
<1> QED BY <1>2, <1>3, <1>4, <1>5
    DEF LogInv, LogOpen, SeenOpen, HoldsFd, LinesOnlyInLog

\* The program opens and closes its own files.
LEMMA AppStep ==
    ASSUME LogInv, NEW t \in Threads, AppOpen(t) \/ AppClose(t)
    PROVE  /\ UNCHANGED <<log_fd, th, strayed, closed, overlapped>>
           /\ files' \in [Fds -> {"closed", "app", "log"}]
           /\ \A fd \in Fds : files'[fd] = "log" <=> files[fd] = "log"
<1>1. PICK fd \in Fds : \E what \in {"closed", "app"} :
         files[fd] # "log" /\ files' = [files EXCEPT ![fd] = what]
  <2>1. CASE AppOpen(t)
    <3>1. Free # {} /\ Free \subseteq Fds
      BY <2>1 DEF AppOpen, Free
    <3>2. Lowest(Free) \in Free
      BY <3>1, LowestFree
    <3> QED BY <2>1, <3>1, <3>2 DEF AppOpen, Free
  <2>2. CASE AppClose(t)
    BY <2>2 DEF AppClose
  <2> QED BY <2>1, <2>2
<1>2. UNCHANGED <<log_fd, th, strayed, closed, overlapped>>
  BY DEF AppOpen, AppClose
<1>3. /\ files' \in [Fds -> {"closed", "app", "log"}]
      /\ \A g \in Fds : files'[g] = "log" <=> files[g] = "log"
  BY <1>1 DEF LogInv, TypeOK
<1> QED BY <1>2, <1>3

LEMMA AppKeeps ==
    ASSUME LogInv, NEW t \in Threads, AppOpen(t) \/ AppClose(t)
    PROVE  LogInv'
<1>1. /\ UNCHANGED <<log_fd, th, strayed>>
      /\ files' \in [Fds -> {"closed", "app", "log"}]
      /\ \A fd \in Fds : files'[fd] = "log" <=> files[fd] = "log"
  BY AppStep
<1>2. Closing' <=> Closing
  BY <1>1 DEF Closing
<1> QED BY <1>1, <1>2
    DEF LogInv, TypeOK, LogOpen, SeenOpen, HoldsFd, LinesOnlyInLog

\* intercept_log_close: log_fd is looked at, closed, and reset.  When the file is
\* closed, every thread that is about to write learns of it.
LEMMA CloseFileStep ==
    ASSUME LogInv, NEW t \in Threads, CloseFile(t)
    PROVE  /\ th[t].pc \in {"closing", "closing to open"}
           /\ th'[t].pc \in {"closed", "closed to open"} /\ th'[t].fd = th[t].fd
           /\ \A u \in Threads : u # t =>
                 /\ th'[u].pc = th[u].pc /\ th'[u].fd = th[u].fd
                 /\ th[u].pc = "print" => th'[u].raced
           /\ th' \in [Threads -> Registers]
<1>1. th[t].pc \in {"closing", "closing to open"}
  BY DEF CloseFile
<1>2. PICK pc \in {"closed", "closed to open"} :
         th'[t] = [th[t] EXCEPT !.pc = pc]
  BY DEF CloseFile
<1>3. \A u \in Threads : u # t =>
         th'[u] = [th[u] EXCEPT !.raced = @ \/ th[u].pc = "print"]
  BY DEF CloseFile
<1>4. \A u \in Threads : u # t =>
         /\ th'[u].pc = th[u].pc /\ th'[u].fd = th[u].fd
         /\ th'[u] \in Registers
         /\ th[u].pc = "print" => th'[u].raced
  <2> SUFFICES ASSUME NEW u \in Threads, u # t
               PROVE  /\ th'[u].pc = th[u].pc /\ th'[u].fd = th[u].fd
                      /\ th'[u] \in Registers
                      /\ th[u].pc = "print" => th'[u].raced
    OBVIOUS
  <2> DEFINE r == th[u].raced \/ th[u].pc = "print"
  <2>1. th[u] \in Registers
    BY DEF LogInv, TypeOK
  <2>2. th'[u] = [th[u] EXCEPT !.raced = r]
    BY <1>3
  <2>3. r \in BOOLEAN /\ (th[u].pc = "print" => r)
    OBVIOUS
  <2> HIDE DEF r
  <2>4. /\ th'[u].pc = th[u].pc /\ th'[u].fd = th[u].fd /\ th'[u].raced = r
        /\ th'[u] \in Registers
    BY <2>1, <2>2, <2>3 DEF Registers
  <2> QED BY <2>3, <2>4
<1>5. /\ th'[t] \in Registers
      /\ th'[t].pc = pc /\ th'[t].fd = th[t].fd
  <2>1. th[t] \in Registers /\ pc \in Pcs
    BY DEF LogInv, TypeOK, Pcs, Control, Holding
  <2> QED BY <1>2, <2>1 DEF Registers
<1>6. th' \in [Threads -> Registers]
  <2>1. th' = [u \in Threads |-> th'[u]]
    BY DEF CloseFile
  <2> QED BY <1>4, <1>5, <2>1
<1> QED BY <1>1, <1>4, <1>5, <1>6

LEMMA CloseKeeps ==
    ASSUME LogInv, NEW t \in Threads,
           CloseCheck(t) \/ CloseFile(t) \/ CloseReset(t)
    PROVE  LogInv'
<1>1. CASE CloseCheck(t) /\ log_fd = NoFd
  <2>1. PICK pc \in {"idle", "open"} : Goto(t, pc)
    BY <1>1 DEF CloseCheck
  <2>2. /\ pc \in Pcs \ Holding /\ pc # "print" /\ th[t].pc \notin Holding
        /\ UNCHANGED <<log_fd, files, strayed>>
    BY <1>1, <2>1 DEF CloseCheck, Pcs, Control, Holding
  <2> QED BY <2>1, <2>2, GotoKeeps
<1>2. CASE CloseCheck(t) /\ log_fd # NoFd
  <2>1. PICK pc \in {"closing", "closing to open"} :
           th' = [th EXCEPT ![t].fd = log_fd, ![t].pc = pc]
    BY <1>2 DEF CloseCheck
  <2>2. UNCHANGED <<log_fd, files, strayed>>
    BY <1>2 DEF CloseCheck
  <2>3. TypeOK'
    BY ZenonT(60), <2>1, <2>2 DEF LogInv, TypeOK, Registers, Pcs, Control, Holding
  <2>4. /\ \A u \in Threads : u # t => th'[u] = th[u]
        /\ th'[t].pc = pc /\ th'[t].fd = log_fd /\ log_fd \in Fds
    BY <1>2, <2>1 DEF LogInv, TypeOK, Registers
  <2>5. Closing' <=> Closing
    BY <1>2, <2>4 DEF Closing, CloseCheck
  <2> QED BY ZenonT(60), <2>2, <2>3, <2>4, <2>5
      DEF LogInv, LogOpen, SeenOpen, HoldsFd, LinesOnlyInLog
<1>3. CASE CloseFile(t)
  <2>1. /\ th[t].pc \in {"closing", "closing to open"}
        /\ th'[t].pc \in {"closed", "closed to open"} /\ th'[t].fd = th[t].fd
        /\ \A u \in Threads : u # t =>
              /\ th'[u].pc = th[u].pc /\ th'[u].fd = th[u].fd
              /\ th[u].pc = "print" => th'[u].raced
        /\ th' \in [Threads -> Registers]
    BY <1>3, CloseFileStep
  <2>2. /\ files' = [files EXCEPT ![th[t].fd] = "closed"]
        /\ UNCHANGED <<log_fd, strayed>>
    BY <1>3 DEF CloseFile
  <2>3. TypeOK'
    BY <2>1, <2>2 DEF LogInv, TypeOK
  <2>4. Closing'
    BY <2>1 DEF Closing
  <2>5. SeenOpen'
    BY <2>1 DEF SeenOpen
  <2>6. HoldsFd'
    BY <2>1 DEF LogInv, HoldsFd, Holding
  <2> QED BY <2>2, <2>3, <2>4, <2>5, <2>6 DEF LogInv, LogOpen, LinesOnlyInLog
<1>4. CASE CloseReset(t)
  <2>1. Closing
    BY <1>4 DEF CloseReset, Closing
  <2>2. PICK pc \in {"idle", "open"} :
           th' = [th EXCEPT ![t].fd = NoFd, ![t].pc = pc]
    BY <1>4 DEF CloseReset
  <2>3. log_fd' = NoFd /\ UNCHANGED <<files, strayed>>
    BY <1>4 DEF CloseReset
  <2>4. TypeOK'
    BY ZenonT(60), <2>2, <2>3 DEF LogInv, TypeOK, Registers, Pcs, Control, Holding
  <2>5. /\ \A u \in Threads : u # t => th'[u] = th[u]
        /\ th'[t].pc = pc
    BY <2>2 DEF LogInv, TypeOK, Registers
  <2>6. SeenOpen' /\ HoldsFd'
    BY <2>1, <2>5 DEF LogInv, SeenOpen, HoldsFd, Holding
  <2> QED BY <2>3, <2>4, <2>6 DEF LogInv, LogOpen, LinesOnlyInLog
<1> QED BY <1>1, <1>2, <1>3, <1>4

\* intercept_setup_log opens the log; if that fails, the process ends.
LEMMA OpenLogStep ==
    ASSUME LogInv, NEW t \in Threads, OpenLog(t)
    PROVE  /\ log_fd' \in Fds
           /\ files' = [files EXCEPT ![log_fd'] = "log"]
           /\ \A u \in Threads : u # t => th'[u] = th[u]
           /\ th'[t].pc = "idle" /\ th' \in [Threads -> Registers]
           /\ Closing' <=> Closing
<1>1. Free # {} /\ Free \subseteq Fds
  BY DEF OpenLog, Free
<1>2. Lowest(Free) \in Free
  BY <1>1, LowestFree
<1>3. /\ log_fd' \in Fds
      /\ files' = [files EXCEPT ![log_fd'] = "log"]
      /\ th' = [th EXCEPT ![t].pc = "idle"]
  BY <1>1, <1>2 DEF OpenLog, Goto
<1>4. /\ \A u \in Threads : u # t => th'[u] = th[u]
      /\ th'[t].pc = "idle" /\ th' \in [Threads -> Registers]
  BY <1>3 DEF LogInv, TypeOK, Registers, Pcs
<1>5. Closing' <=> Closing
  BY <1>4 DEF Closing, OpenLog
<1> QED BY <1>3, <1>4, <1>5

LEMMA OpenFailsStep ==
    ASSUME LogInv, NEW t \in Threads, OpenLogFails(t)
    PROVE  /\ \A u \in Threads : th'[u].pc = "ended"
           /\ th' \in [Threads -> Registers]
<1>1. th' = [u \in Threads |-> [th[u] EXCEPT !.pc = "ended"]]
  BY DEF OpenLogFails
<1>2. \A u \in Threads : th'[u] \in Registers /\ th'[u].pc = "ended"
  BY SMTT(30), <1>1 DEF LogInv, TypeOK, Registers, Pcs
<1> QED BY <1>1, <1>2

LEMMA OpenKeeps ==
    ASSUME LogInv, NEW t \in Threads, OpenLog(t) \/ OpenLogFails(t)
    PROVE  LogInv'
<1>1. CASE OpenLog(t)
  <2>1. /\ log_fd' \in Fds
        /\ files' = [files EXCEPT ![log_fd'] = "log"]
        /\ \A u \in Threads : u # t => th'[u] = th[u]
        /\ th'[t].pc = "idle" /\ th' \in [Threads -> Registers]
        /\ Closing' <=> Closing
    BY <1>1, OpenLogStep
  <2>2. UNCHANGED strayed
    BY <1>1 DEF OpenLog
  <2>3. TypeOK'
    BY <2>1 DEF LogInv, TypeOK
  <2>4. LogOpen' /\ SeenOpen'
    BY <2>1, NoFdIsNoFd DEF LogInv, TypeOK, LogOpen, SeenOpen
  <2>5. HoldsFd' /\ LinesOnlyInLog'
    BY <2>1, <2>2 DEF LogInv, HoldsFd, LinesOnlyInLog, Holding
  <2> QED BY <2>3, <2>4, <2>5 DEF LogInv
<1>2. CASE OpenLogFails(t)
  <2>1. /\ \A u \in Threads : th'[u].pc = "ended"
        /\ th' \in [Threads -> Registers]
    BY <1>2, OpenFailsStep
  <2>2. log_fd' = NoFd /\ UNCHANGED <<files, strayed>>
    BY <1>2 DEF OpenLogFails
  <2> QED BY <2>1, <2>2
      DEF LogInv, TypeOK, LogOpen, SeenOpen, HoldsFd, LinesOnlyInLog, Holding
<1> QED BY <1>1, <1>2

\* intercept_log_syscall: log_fd is looked at, and the line written later.
LEMMA LogStep ==
    ASSUME LogInv, NEW t \in Threads, LogCheck(t) \/ LogWrite(t)
    PROVE  /\ th[t].pc \in {"log", "print"} /\ th'[t].pc \in {"idle", "print"}
           /\ \A u \in Threads : u # t => th'[u] = th[u]
           /\ th' \in [Threads -> Registers]
           /\ UNCHANGED <<log_fd, files, closed, overlapped>>
           /\ Closing' <=> Closing
<1>1. UNCHANGED <<log_fd, files, closed, overlapped>> /\ th[t].pc \in {"log", "print"}
  BY DEF LogCheck, LogWrite
<1>2. PICK r \in Registers : th' = [th EXCEPT ![t] = r] /\ r.pc \in {"idle", "print"}
  <2>1. CASE LogCheck(t) /\ log_fd = NoFd
    <3> DEFINE r == [th[t] EXCEPT !.pc = "idle"]
    <3>1. r \in Registers /\ r.pc = "idle" /\ th' = [th EXCEPT ![t] = r]
      BY <2>1 DEF LogCheck, Goto, LogInv, TypeOK, Registers, Pcs
    <3> QED BY <3>1
  <2>2. CASE LogCheck(t) /\ log_fd # NoFd
    <3> DEFINE r == [pc |-> "print", fd |-> log_fd, raced |-> Closing]
    <3>1. r \in Registers
      <4>1. Closing \in BOOLEAN
        BY DEF Closing
      <4> HIDE DEF Closing
      <4> QED BY <4>1 DEF LogInv, TypeOK, Registers, Pcs
    <3>2. th' = [th EXCEPT ![t] = r] /\ r.pc = "print"
      BY <2>2 DEF LogCheck
    <3> QED BY <3>1, <3>2
  <2>3. CASE LogWrite(t)
    <3>1. Idle \in Registers /\ Idle.pc = "idle"
      BY DEF Idle, Registers, Pcs
    <3>2. th' = [th EXCEPT ![t] = Idle]
      BY <2>3 DEF LogWrite
    <3> QED BY ZenonT(60), <3>1, <3>2
  <2> QED BY <2>1, <2>2, <2>3
<1>3. /\ \A u \in Threads : u # t => th'[u] = th[u]
      /\ th'[t].pc \in {"idle", "print"} /\ th' \in [Threads -> Registers]
  BY <1>2 DEF LogInv, TypeOK
<1>4. Closing' <=> Closing
  BY <1>1, <1>3 DEF Closing
<1> QED BY SMTT(30), <1>1, <1>3, <1>4

LEMMA LogKeeps ==
    ASSUME LogInv, NEW t \in Threads, LogCheck(t) \/ LogWrite(t)
    PROVE  LogInv'
<1>1. /\ th[t].pc \in {"log", "print"} /\ th'[t].pc \in {"idle", "print"}
      /\ \A u \in Threads : u # t => th'[u] = th[u]
      /\ th' \in [Threads -> Registers]
      /\ UNCHANGED <<log_fd, files>>
      /\ Closing' <=> Closing
  BY LogStep
<1>2. TypeOK' /\ LogOpen' /\ HoldsFd'
  BY <1>1 DEF LogInv, TypeOK, LogOpen, HoldsFd, Holding
<1>3. CASE LogCheck(t)
  <2>1. LinesOnlyInLog'
    BY <1>3 DEF LogCheck, LogInv, LinesOnlyInLog
  <2>2. th'[t].pc = "print" /\ ~th'[t].raced =>
           ~Closing /\ log_fd # NoFd /\ th'[t].fd = log_fd
    <3>1. CASE log_fd = NoFd
      BY <1>3, <3>1 DEF LogCheck, Goto, LogInv, TypeOK, Registers
    <3>2. CASE log_fd # NoFd
      <4>1. th'[t] = [pc |-> "print", fd |-> log_fd, raced |-> Closing]
        BY <1>3, <3>2 DEF LogCheck, LogInv, TypeOK
      <4>2. th'[t].raced = Closing /\ th'[t].fd = log_fd
        BY <4>1
      <4> QED BY <3>2, <4>2
    <3> QED BY <3>1, <3>2
  <2>3. SeenOpen'
    BY SMTT(30), <1>1, <2>2 DEF LogInv, TypeOK, LogOpen, SeenOpen
  <2> QED BY <1>2, <2>1, <2>3 DEF LogInv
<1>4. CASE LogWrite(t)
  <2>1. th[t].pc = "print" /\ th'[t].pc = "idle"
    BY <1>4 DEF LogWrite, LogInv, TypeOK, Idle
  <2>2. LinesOnlyInLog'
    <3>1. PICK fd \in {th[t].fd, log_fd} :
             strayed' = strayed \cup
               {[file |-> files[f], raced |-> th[t].raced] :
                   f \in {g \in {fd} \cap Fds : files[g] = "app"}}
      BY <1>4 DEF LogWrite
    <3>2. SUFFICES ASSUME NEW s \in strayed' PROVE s.raced
      BY DEF LinesOnlyInLog
    <3>3. CASE s \in strayed
      BY <3>3 DEF LogInv, LinesOnlyInLog
    <3>4. CASE s \notin strayed
      <4>1. files[fd] = "app" /\ s.raced = th[t].raced
        BY SMTT(30), <3>1, <3>2, <3>4
      <4>2. ~th[t].raced => files[fd] = "log"
        BY <2>1, <3>1 DEF LogInv, LogOpen, SeenOpen
      <4> QED BY <4>1, <4>2
    <3> QED BY SMTT(30), <3>3, <3>4
  <2>3. SeenOpen'
    BY <1>1, <2>1 DEF LogInv, SeenOpen
  <2> QED BY <1>2, <2>2, <2>3 DEF LogInv
<1> QED BY <1>3, <1>4

\* The messages that start or stop the log, and any other syscall.
LEMMA RequestStep ==
    ASSUME NEW t \in Threads,
           \/ \E r \in Request : Start(t, r) \/ Stop(t, r) \/ NotMagic(t, r)
           \/ Intercept(t)
    PROVE  /\ th[t].pc = "idle" /\ UNCHANGED <<log_fd, files, strayed, closed>>
           /\ \/ UNCHANGED <<th, overlapped>>
              \/ Goto(t, "log") /\ UNCHANGED overlapped
              \/ \E pc \in {"close", "close to open"} : Goto(t, pc) /\ EnterControl(t)
BY DEF Start, Stop, NotMagic, Intercept

LEMMA RequestKeeps ==
    ASSUME LogInv, NEW t \in Threads,
           \/ \E r \in Request : Start(t, r) \/ Stop(t, r) \/ NotMagic(t, r)
           \/ Intercept(t)
    PROVE  LogInv'
<1>1. /\ th[t].pc = "idle" /\ UNCHANGED <<log_fd, files, strayed>>
      /\ \/ UNCHANGED th
         \/ \E pc \in {"log", "close", "close to open"} : Goto(t, pc)
  BY RequestStep
<1>2. CASE UNCHANGED th
  BY ZenonT(60), <1>1, <1>2
  DEF LogInv, TypeOK, LogOpen, SeenOpen, HoldsFd, LinesOnlyInLog, Closing
<1>3. CASE \E pc \in {"log", "close", "close to open"} : Goto(t, pc)
  <2>1. PICK pc \in {"log", "close", "close to open"} : Goto(t, pc)
    BY <1>3
  <2>2. pc \in Pcs \ Holding /\ pc # "print" /\ th[t].pc \notin Holding
    BY ZenonT(60), <1>1 DEF Pcs, Control, Holding
  <2> QED BY <1>1, <2>1, <2>2, GotoKeeps
<1> QED BY <1>1, <1>2, <1>3

-----------------------------------------------------------------------------
(***************************************************************************)
(* What holds as long as no two threads start or stop the log at once.     *)
(***************************************************************************)
LEMMA AppAlone ==
    ASSUME LogInv, AloneInv, NEW t \in Threads, AppOpen(t) \/ AppClose(t)
    PROVE  AloneInv'
<1>1. /\ UNCHANGED <<log_fd, th, closed, overlapped>>
      /\ \A fd \in Fds : files'[fd] = "log" <=> files[fd] = "log"
  BY AppStep
<1>2. Closing' <=> Closing
  BY SMTT(30), <1>1 DEF Closing
<1> QED BY <1>1, <1>2 DEF AloneInv, Alone

\* A thread enters where no other one is, or the log is overlapped from then on.
LEMMA RequestAlone ==
    ASSUME LogInv, AloneInv, NEW t \in Threads,
           \/ \E r \in Request : Start(t, r) \/ Stop(t, r) \/ NotMagic(t, r)
           \/ Intercept(t)
    PROVE  AloneInv'
<1>1. /\ th[t].pc = "idle" /\ UNCHANGED <<log_fd, files, closed>>
      /\ \/ UNCHANGED <<th, overlapped>>
         \/ Goto(t, "log") /\ UNCHANGED overlapped
         \/ \E pc \in {"close", "close to open"} : Goto(t, pc) /\ EnterControl(t)
  BY ZenonT(60), RequestStep
<1>2. CASE UNCHANGED <<th, overlapped>>
  BY ZenonT(60), <1>1, <1>2 DEF AloneInv, Alone, Closing
<1>3. CASE \E pc \in {"log", "close", "close to open"} :
             /\ Goto(t, pc)
             /\ \/ pc = "log" /\ UNCHANGED overlapped
                \/ EnterControl(t)
  <2>1. SUFFICES ASSUME overlapped' = "no" PROVE Alone'
    BY DEF AloneInv
  <2>2. PICK pc \in {"log", "close", "close to open"} :
           /\ th' = [th EXCEPT ![t].pc = pc]
           /\ \/ pc = "log" /\ UNCHANGED overlapped
              \/ EnterControl(t)
    BY <1>3 DEF Goto
  <2>3. /\ overlapped = "no"
        /\ pc # "log" => \A u \in Threads \ {t} : th[u].pc \notin Control
    BY <2>1, <2>2 DEF EnterControl
  <2>4. Alone
    BY <2>3 DEF AloneInv
  <2>5. /\ \A u \in Threads : u # t => th'[u] = th[u]
        /\ th'[t].pc = pc
    BY <2>2 DEF LogInv, TypeOK, Registers
  <2>6. Closing' <=> Closing
    BY <1>1, <2>5 DEF Closing
  <2>7. "log" \notin Control /\ pc \notin Holding
    BY DEF Control, Holding
  <2> QED BY ZenonT(60), <1>1, <2>3, <2>4, <2>5, <2>6, <2>7 DEF Alone
<1> QED BY <1>1, <1>2, <1>3

LEMMA CloseAlone ==
    ASSUME LogInv, AloneInv, NEW t \in Threads,
           CloseCheck(t) \/ CloseFile(t) \/ CloseReset(t)
    PROVE  AloneInv'
<1>1. SUFFICES ASSUME overlapped = "no" PROVE Alone'
  BY DEF AloneInv, CloseCheck, CloseFile, CloseReset
<1>2. Alone
  BY <1>1 DEF AloneInv
<1>3. th[t].pc \in Control
  BY DEF CloseCheck, CloseFile, CloseReset, Control, Holding
<1>4. \A u \in Threads : u # t => th[u].pc \notin Control
  BY SMTT(30), <1>2, <1>3 DEF Alone
<1>5. CASE CloseCheck(t) /\ log_fd = NoFd
  <2>1. PICK pc \in {"idle", "open"} : th' = [th EXCEPT ![t].pc = pc]
    BY <1>5 DEF CloseCheck, Goto
  <2>2. UNCHANGED <<log_fd, files, closed>> /\ th[t].pc \in {"close", "close to open"}
    BY <1>5 DEF CloseCheck
  <2>3. /\ \A u \in Threads : u # t => th'[u] = th[u]
        /\ th'[t].pc = pc
    BY <2>1 DEF LogInv, TypeOK, Registers
  <2>4. Closing' <=> Closing
    BY ZenonT(60), <2>2, <2>3 DEF Closing
  <2> QED BY ZenonT(60), <1>2, <1>4, <1>5, <2>2, <2>3, <2>4 DEF Alone, Control, Holding
<1>6. CASE CloseCheck(t) /\ log_fd # NoFd
  <2>1. PICK pc \in {"closing", "closing to open"} :
           th' = [th EXCEPT ![t].fd = log_fd, ![t].pc = pc]
    BY <1>6 DEF CloseCheck
  <2>2. UNCHANGED <<log_fd, files, closed>> /\ th[t].pc \in {"close", "close to open"}
    BY <1>6 DEF CloseCheck
  <2>3. /\ \A u \in Threads : u # t => th'[u] = th[u]
        /\ th'[t].pc = pc /\ th'[t].fd = log_fd
    BY <2>1 DEF LogInv, TypeOK, Registers
  <2>4. Closing' <=> Closing
    BY ZenonT(60), <2>2, <2>3 DEF Closing
  <2> QED BY ZenonT(60), <1>2, <1>4, <1>6, <2>2, <2>3, <2>4 DEF Alone, Control, Holding
<1>7. CASE CloseFile(t)
  <2>1. /\ th[t].pc \in {"closing", "closing to open"}
        /\ th'[t].pc \in {"closed", "closed to open"} /\ th'[t].fd = th[t].fd
        /\ \A u \in Threads : u # t => th'[u].pc = th[u].pc
    BY ZenonT(60), <1>7, CloseFileStep
  <2>2. ~Closing
    BY ZenonT(60), <1>4, <2>1 DEF Closing, Control, Holding
  <2>3. th[t].fd = log_fd /\ log_fd \in Fds /\ files[log_fd] = "log" /\ log_fd # NoFd
    BY <1>2, <2>1, <2>2 DEF Alone, LogInv, TypeOK, LogOpen, Holding
  <2>4. /\ files' = [files EXCEPT ![log_fd] = "closed"]
        /\ closed' = closed \cup {"log"} /\ UNCHANGED log_fd
    BY <1>7, <2>3 DEF CloseFile
  <2>5. \A fd \in Fds : files'[fd] # "log"
    BY SMTT(30), <1>2, <2>4 DEF Alone, LogInv, TypeOK
  <2> QED BY ZenonT(60), <1>2, <1>4, <2>1, <2>3, <2>4, <2>5 DEF Alone, Control, Holding
<1>8. CASE CloseReset(t)
  <2>1. Closing
    BY <1>8 DEF CloseReset, Closing
  <2>2. PICK pc \in {"idle", "open"} :
           th' = [th EXCEPT ![t].fd = NoFd, ![t].pc = pc]
    BY <1>8 DEF CloseReset
  <2>3. log_fd' = NoFd /\ UNCHANGED <<files, closed>>
    BY <1>8 DEF CloseReset
  <2>4. /\ \A u \in Threads : u # t => th'[u] = th[u]
        /\ th'[t].pc = pc
    BY SMTT(30), <2>2 DEF LogInv, TypeOK, Registers
  <2>5. \A fd \in Fds : files'[fd] # "log"
    BY <1>2, <2>1, <2>3 DEF Alone
  <2> QED BY ZenonT(60), <1>2, <1>4, <2>3, <2>4, <2>5 DEF Alone, Control, Holding
<1> QED BY <1>5, <1>6, <1>7, <1>8

LEMMA OpenAlone ==
    ASSUME LogInv, AloneInv, NEW t \in Threads, OpenLog(t) \/ OpenLogFails(t)
    PROVE  AloneInv'
<1>1. SUFFICES ASSUME overlapped = "no" PROVE Alone'
  BY DEF AloneInv, OpenLog, OpenLogFails
<1>2. Alone /\ th[t].pc = "open"
  BY <1>1 DEF AloneInv, OpenLog, OpenLogFails
<1>3. /\ \A u \in Threads : u # t => th[u].pc \notin Control
      /\ log_fd = NoFd
  BY <1>2 DEF Alone, Control
<1>4. \A fd \in Fds : files[fd] # "log"
  BY <1>2, <1>3, NoFdIsNoFd DEF Alone
<1>5. UNCHANGED closed
  BY DEF OpenLog, OpenLogFails
<1>6. CASE OpenLog(t)
  <2>1. /\ log_fd' \in Fds
        /\ files' = [files EXCEPT ![log_fd'] = "log"]
        /\ \A u \in Threads : u # t => th'[u] = th[u]
        /\ th'[t].pc = "idle" /\ (Closing' <=> Closing)
    BY <1>6, OpenLogStep
  <2>2. \A fd \in Fds : files'[fd] = "log" => fd = log_fd'
    BY <1>4, <2>1 DEF LogInv, TypeOK
  <2>3. ~Closing'
    BY ZenonT(60), <1>2, <1>3, <2>1 DEF Closing, Control, Holding
  <2> QED BY <1>2, <1>3, <1>5, <2>1, <2>2, <2>3 DEF Alone, Control, Holding
<1>7. CASE OpenLogFails(t)
  <2>1. \A u \in Threads : th'[u].pc = "ended"
    BY <1>7, OpenFailsStep
  <2>2. UNCHANGED files
    BY SMTT(30), <1>7 DEF OpenLogFails
  <2> QED BY <1>2, <1>4, <1>5, <2>1, <2>2 DEF Alone, Control, Holding, Closing
<1> QED BY <1>6, <1>7

LEMMA LogAlone ==
    ASSUME LogInv, AloneInv, NEW t \in Threads, LogCheck(t) \/ LogWrite(t)
    PROVE  AloneInv'
<1>1. /\ th[t].pc \in {"log", "print"} /\ th'[t].pc \in {"idle", "print"}
      /\ \A u \in Threads : u # t => th'[u] = th[u]
      /\ UNCHANGED <<log_fd, files, closed, overlapped>>
      /\ Closing' <=> Closing
  BY LogStep
<1> QED BY ZenonT(60), <1>1 DEF AloneInv, Alone, Control, Holding

-----------------------------------------------------------------------------
LEMMA StepInv == LogInv /\ AloneInv /\ [Next]_vars => LogInv' /\ AloneInv'
<1> SUFFICES ASSUME LogInv, AloneInv, [Next]_vars PROVE LogInv' /\ AloneInv'
  OBVIOUS
<1>1. CASE UNCHANGED vars
  BY <1>1 DEF vars, LogInv, TypeOK, LogOpen, SeenOpen, HoldsFd, LinesOnlyInLog,
              AloneInv, Alone, Closing
<1>2. CASE Next
  <2>1. PICK t \in Threads :
           \/ AppOpen(t) \/ AppClose(t)
           \/ \E r \in Request : Start(t, r) \/ Stop(t, r) \/ NotMagic(t, r)
           \/ CloseCheck(t) \/ CloseFile(t) \/ CloseReset(t)
           \/ OpenLog(t) \/ OpenLogFails(t)
           \/ Intercept(t) \/ LogCheck(t) \/ LogWrite(t)
    BY <1>2 DEF Next
  <2>2. CASE AppOpen(t) \/ AppClose(t)
    BY <2>2, AppKeeps, AppAlone
  <2>3. CASE \/ \E r \in Request : Start(t, r) \/ Stop(t, r) \/ NotMagic(t, r)
             \/ Intercept(t)
    BY <2>3, RequestKeeps, RequestAlone
  <2>4. CASE CloseCheck(t) \/ CloseFile(t) \/ CloseReset(t)
    BY SMTT(30), <2>4, CloseKeeps, CloseAlone
  <2>5. CASE OpenLog(t) \/ OpenLogFails(t)
    BY <2>5, OpenKeeps, OpenAlone
  <2>6. CASE LogCheck(t) \/ LogWrite(t)
    BY <2>6, LogKeeps, LogAlone
  <2> QED BY <2>1, <2>2, <2>3, <2>4, <2>5, <2>6
<1> QED BY <1>1, <1>2

\* However many threads log, start and stop the log, a line that a thread prints
\* ends up in a file of the program only if the log was being closed since the
\* thread has looked at log_fd.
THEOREM LinesStayInLog == Spec => []LinesOnlyInLog
<1>1. LogInv => LinesOnlyInLog
  BY DEF LogInv
<1> QED BY <1>1, InitInv, StepInv, PTL DEF Spec

\* However many threads start and stop the log, log_fd refers to an open log
\* unless one of them is closing it.  And for as long as no two of them do so at
\* once, restarting the log leaves no file descriptor open that log_fd does not
\* refer to, and closes no file of the program.
THEOREM NoLeak == Spec => []NoLogLeaked
<1>1. LogInv /\ AloneInv => NoLogLeaked
  BY DEF LogInv, TypeOK, LogOpen, AloneInv, Alone, NoLogLeaked, LogFds
<1> QED BY <1>1, InitInv, StepInv, PTL DEF Spec
=============================================================================
