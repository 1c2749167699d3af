------------------------------- MODULE FspFds -------------------------------
(***************************************************************************)
(* The table of open files of examples/syscall_fsp.c, which redirects      *)
(* files with a certain prefix to a file system in user space (FSP): open, *)
(* close, getdents and fcntl of several threads, none of which takes a     *)
(* lock.  Each store to the arrays that open and close make is a step.     *)
(* The build is the default one, without RUN_GNU_SORT.                     *)
(***************************************************************************)
EXTENDS Integers

CONSTANTS
    FdThreads,
    FsFds,         \* the descriptors that FSP hands out
    FSP_FD_START_VAL,
    Files,         \* regular files of FSP
    Dirs,          \* its directories
    Entries,       \* how many entries a directory has
    DirentSize,    \* sizeof(struct linux_dirent)
    DirentCounts,  \* the sizes of the buffers passed to getdents
    kMaxNumFds

kInvalidFd == -99
NULL == [path |-> "null", read |-> 0]
Slots == 0 .. kMaxNumFds - 1
Flags == {"O_RDONLY", "O_DIRECTORY"}

ASSUME FdsAssumption ==
    /\ FsFds \subseteq Nat /\ FSP_FD_START_VAL \in Nat
    /\ kMaxNumFds \in Nat \ {0}
    /\ Entries \in Nat
    /\ DirentSize \in Nat \ {0} /\ DirentCounts \subseteq Nat

VARIABLES
    fs,                    \* what FSP has open under each descriptor
    fsp_fds,
    fsp_fds_flag,
    fsp_fds_type,
    fsp_fd_dirs,           \* the directory streams, with their position
    fsp_readdir_done_cnt,
    g_fsp_fd_add_idx,
    th,                    \* the call that each thread is in
    held,                  \* what the program has opened and not yet closed
    raced,                 \* two threads have been at the same entry
    failed                 \* the assertion that has failed

table == <<fsp_fds, fsp_fds_flag, fsp_fds_type, fsp_fd_dirs,
           fsp_readdir_done_cnt, g_fsp_fd_add_idx>>
fdsVars == <<fs, table, th, held, raced, failed>>

Closed == [path |-> "null", flags |-> "closed"]
Idle == [pc |-> "idle", fd |-> kInvalidFd, idx |-> -1, start |-> 0, i |-> 0]
Entering(pc, fd) == [Idle EXCEPT !.pc = pc, !.fd = fd]

FdsInit ==
    /\ fs = [fd \in FsFds |-> Closed]
    /\ fsp_fds = [i \in Slots |-> kInvalidFd]
    /\ fsp_fds_flag = [i \in Slots |-> "O_RDONLY"]
    /\ fsp_fds_type = [i \in Slots |-> "EMPTY"]
    /\ fsp_fd_dirs = [i \in Slots |-> NULL]
    /\ fsp_readdir_done_cnt = [i \in Slots |-> 0]
    /\ g_fsp_fd_add_idx = 0
    /\ th = [t \in FdThreads |-> Idle]
    /\ held = {}
    /\ raced = FALSE
    /\ failed = "no"

At(t, pc) == failed = "no" /\ th[t].pc = pc
Goto(t, pc) == th' = [th EXCEPT ![t].pc = pc]
Return(t) == th' = [th EXCEPT ![t] = Idle]

\* Another thread is between two steps pcs with this descriptor, or this entry.
OthersAt(t, pcs) == {u \in FdThreads \ {t} : th[u].pc \in pcs}
WithFd(S, fd) == \E u \in S : th[u].fd = fd
WithIdx(S, idx) == \E u \in S : th[u].idx = idx

find_fsp_fd(fd) ==
    LET found == {i \in Slots : fsp_fds[i] = fd}
    IN  IF found = {} THEN -1 ELSE CHOOSE i \in found : \A j \in found : i <= j

-----------------------------------------------------------------------------
(***************************************************************************)
(* SYS_open and SYS_openat of a path of FSP.  A failed open changes        *)
(* nothing; add_fsp_fd asserts that the descriptor is not too small.       *)
(***************************************************************************)
Open(t) ==
    /\ At(t, "idle")
    /\ \E fd \in FsFds, path \in Files \cup Dirs, flags \in Flags :
          /\ fs[fd] = Closed
          /\ flags = "O_DIRECTORY" => path \in Dirs
          /\ fs' = [fs EXCEPT ![fd] = [path |-> path, flags |-> flags]]
          /\ \/ /\ fd > FSP_FD_START_VAL
                /\ th' = [th EXCEPT ![t] = Entering("add", fd)]
                /\ raced' = (raced \/ WithFd(OthersAt(t, {"find", "del", "del type",
                                                          "del dir"}), fd))
                /\ UNCHANGED failed
             \/ /\ fd <= FSP_FD_START_VAL
                /\ failed' = "new_fd > FSP_FD_START_VAL"
                /\ UNCHANGED <<th, raced>>
    /\ UNCHANGED <<table, held>>

\* add_fsp_fd looks at one entry after the other, and stops at a free one.  The
\* shared index where it starts may be read once, or again for each entry.  The
\* handler asserts that an entry was found.
AddFind(t) ==
    /\ At(t, "add")
    /\ \E start \in {g_fsp_fd_add_idx}
                       \cup (IF th[t].i > 0 THEN {th[t].start} ELSE {}) :
          LET cur_idx == (start + th[t].i) % kMaxNumFds
          IN  \/ /\ th[t].i = kMaxNumFds
                 /\ failed' = "idx >= 0"
                 /\ UNCHANGED <<th, raced>>
              \/ /\ th[t].i < kMaxNumFds
                 /\ fsp_fds[cur_idx] # kInvalidFd
                 /\ th' = [th EXCEPT ![t].i = @ + 1, ![t].start = start]
                 /\ UNCHANGED <<raced, failed>>
              \/ /\ th[t].i < kMaxNumFds
                 /\ fsp_fds[cur_idx] = kInvalidFd
                 /\ th' = [th EXCEPT ![t].pc = "store", ![t].idx = cur_idx,
                                    ![t].start = 0, ![t].i = 0]
                 /\ raced' = (raced \/ WithIdx(OthersAt(t,
                                {"store", "del type", "del dir"}), cur_idx))
                 /\ UNCHANGED failed
    /\ UNCHANGED <<fs, table, held>>

AddFd(t) ==
    /\ At(t, "store")
    /\ fsp_fds' = [fsp_fds EXCEPT ![th[t].idx] = th[t].fd]
    /\ Goto(t, "flag")
    /\ UNCHANGED <<fs, fsp_fds_flag, fsp_fds_type, fsp_fd_dirs,
                   fsp_readdir_done_cnt, g_fsp_fd_add_idx, held, raced, failed>>

AddFlag(t) ==
    /\ At(t, "flag")
    /\ fsp_fds_flag' = [fsp_fds_flag EXCEPT ![th[t].idx] = fs[th[t].fd].flags]
    /\ Goto(t, "index")
    /\ UNCHANGED <<fs, fsp_fds, fsp_fds_type, fsp_fd_dirs,
                   fsp_readdir_done_cnt, g_fsp_fd_add_idx, held, raced, failed>>

AddIndex(t) ==
    /\ At(t, "index")
    /\ g_fsp_fd_add_idx' = th[t].idx
    /\ Goto(t, "type")
    /\ raced' = (raced \/ \E u \in OthersAt(t, {"add"}) : th[u].i > 0)
    /\ UNCHANGED <<fs, fsp_fds, fsp_fds_flag, fsp_fds_type, fsp_fd_dirs,
                   fsp_readdir_done_cnt, held, failed>>

\* set_fsp_fd_type, which does nothing for an entry that is not for this fd.
SetType(t) ==
    /\ At(t, "type")
    /\ LET dir == fs[th[t].fd].flags = "O_DIRECTORY"
       IN  /\ fsp_fds_type' =
                 IF fsp_fds[th[t].idx] # th[t].fd THEN fsp_fds_type
                 ELSE [fsp_fds_type EXCEPT ![th[t].idx] =
                          IF dir THEN "DIR" ELSE "FILE"]
           /\ IF dir THEN Goto(t, "opendir") /\ UNCHANGED held
              ELSE Return(t) /\ held' = held \cup {th[t].fd}
    /\ UNCHANGED <<fs, fsp_fds, fsp_fds_flag, fsp_fd_dirs,
                   fsp_readdir_done_cnt, g_fsp_fd_add_idx, raced, failed>>

counted_from_last(idx) == fsp_readdir_done_cnt

\* Counting of the entries that were read starts anew.
counted_from_zero(idx) == [fsp_readdir_done_cnt EXCEPT ![idx] = 0]

\* dir_fd_do_opendir.  That fs_opendir failed is ignored.
OpenDir(t) ==
    /\ At(t, "opendir")
    /\ LET idx == th[t].idx
       IN  \/ /\ fsp_fds[idx] # th[t].fd
              /\ failed' = "fsp_fds[dir_fd_idx] == dir_fd"
              /\ UNCHANGED <<fsp_fd_dirs, fsp_readdir_done_cnt, th, held>>
           \/ /\ fsp_fds[idx] = th[t].fd /\ fsp_fd_dirs[idx] # NULL
              /\ failed' = "fsp_fd_dirs[dir_fd_idx] == 0"
              /\ UNCHANGED <<fsp_fd_dirs, fsp_readdir_done_cnt, th, held>>
           \/ /\ fsp_fds[idx] = th[t].fd /\ fsp_fd_dirs[idx] = NULL
              /\ \/ /\ fsp_fd_dirs' = [fsp_fd_dirs EXCEPT ![idx] =
                          [path |-> fs[th[t].fd].path, read |-> 0]]
                    /\ fsp_readdir_done_cnt' = counted_from_zero(idx)
                 \/ UNCHANGED <<fsp_fd_dirs, fsp_readdir_done_cnt>>
              /\ Return(t)
              /\ held' = held \cup {th[t].fd}
              /\ UNCHANGED failed
    /\ UNCHANGED <<fs, fsp_fds, fsp_fds_flag, fsp_fds_type, g_fsp_fd_add_idx,
                   raced>>

-----------------------------------------------------------------------------
(***************************************************************************)
(* SYS_close of a descriptor that is in the table; any other one is left   *)
(* to the kernel.  Even if fs_close fails, the table forgets the file.     *)
(***************************************************************************)
Close(t, fd) ==
    /\ At(t, "idle")
    /\ fd \in held
    /\ held' = held \ {fd}
    /\ IF find_fsp_fd(fd) >= 0
       THEN /\ fs' \in {fs, [fs EXCEPT ![fd] = Closed]}
            /\ th' = [th EXCEPT ![t] = Entering("find", fd)]
       ELSE UNCHANGED <<fs, th>>
    /\ UNCHANGED <<table, raced, failed>>

DelFind(t) ==
    /\ At(t, "find")
    /\ LET idx == find_fsp_fd(th[t].fd)
       IN  IF idx >= 0
           THEN th' = [th EXCEPT ![t].pc = "del", ![t].idx = idx]
           ELSE Return(t)
    /\ UNCHANGED <<fs, table, held, raced, failed>>

DelFd(t) ==
    /\ At(t, "del")
    /\ fsp_fds' = [fsp_fds EXCEPT ![th[t].idx] = kInvalidFd]
    /\ Goto(t, "del type")
    /\ UNCHANGED <<fs, fsp_fds_flag, fsp_fds_type, fsp_fd_dirs,
                   fsp_readdir_done_cnt, g_fsp_fd_add_idx, held, raced, failed>>

DelType(t) ==
    /\ At(t, "del type")
    /\ fsp_fds_type' = [fsp_fds_type EXCEPT ![th[t].idx] = "EMPTY"]
    /\ Goto(t, "del dir")
    /\ UNCHANGED <<fs, fsp_fds, fsp_fds_flag, fsp_fd_dirs,
                   fsp_readdir_done_cnt, g_fsp_fd_add_idx, held, raced, failed>>

DelDir_not(t) ==
    /\ At(t, "del dir")
    /\ Return(t)
    /\ UNCHANGED <<fs, table, held, raced, failed>>

DelDir(t) ==
    /\ At(t, "del dir")
    /\ fsp_fd_dirs' = [fsp_fd_dirs EXCEPT ![th[t].idx] = NULL]
    /\ Return(t)
    /\ UNCHANGED <<fs, fsp_fds, fsp_fds_flag, fsp_fds_type,
                   fsp_readdir_done_cnt, g_fsp_fd_add_idx, held, raced, failed>>

-----------------------------------------------------------------------------
(***************************************************************************)
(* getdents_by_fsp_readdirs, which returns nine entries at most, and       *)
(* numbers them from the count of those returned before.  It is one step.  *)
(***************************************************************************)
Fewer(a, b) == IF a < b THEN a ELSE b

\* How many entries a buffer of count bytes is good for: in one that is smaller
\* than an entry there is always room for another.
dirent_max(count) ==
    IF count \div DirentSize = 0 THEN 9 ELSE Fewer(count \div DirentSize, 9)

\* fs_readdir ends it when there are no more entries, and when it fails.
Getdents(t, fd, count) ==
    /\ At(t, "idle")
    /\ fd \in held /\ find_fsp_fd(fd) >= 0
    /\ LET idx == find_fsp_fd(fd)
           dir == fsp_fd_dirs[idx]
       IN  \/ /\ count = 0
              /\ failed' = "count > 0"
              /\ UNCHANGED <<fsp_fd_dirs, fsp_readdir_done_cnt>>
           \/ /\ count > 0 /\ dir # NULL
              /\ \E done_count \in 0 .. Fewer(Entries - dir.read, dirent_max(count)) :
                    /\ fsp_fd_dirs' =
                          [fsp_fd_dirs EXCEPT ![idx].read = @ + done_count]
                    /\ fsp_readdir_done_cnt' =
                          [fsp_readdir_done_cnt EXCEPT ![idx] = @ + done_count]
              /\ UNCHANGED failed
           \/ /\ count > 0 /\ dir = NULL
              /\ failed' \in {failed, "fs_readdir(0)"}
              /\ UNCHANGED <<fsp_fd_dirs, fsp_readdir_done_cnt>>
    /\ UNCHANGED <<fs, fsp_fds, fsp_fds_flag, fsp_fds_type, g_fsp_fd_add_idx,
                   th, held, raced>>

FdsNext ==
    \E t \in FdThreads :
        \/ Open(t) \/ AddFind(t) \/ AddFd(t) \/ AddFlag(t) \/ AddIndex(t) \/ SetType(t)
        \/ OpenDir(t)
        \/ DelFind(t) \/ DelFd(t) \/ DelType(t) \/ DelDir(t)
        \/ \E fd \in FsFds : Close(t, fd)
        \/ \E fd \in FsFds, count \in DirentCounts : Getdents(t, fd, count)

-----------------------------------------------------------------------------
(***************************************************************************)
(* Properties.                                                             *)
(***************************************************************************)

\* As long as no two threads were at the same entry at the same time, what the
\* program has open is found under its descriptor once, with its own flags (for
\* F_GETFL), type and directory stream, whose entries are numbered from one on.
TableExact ==
    ~raced =>
        \A fd \in held :
            LET idx == find_fsp_fd(fd)
                dir == fs[fd].flags = "O_DIRECTORY"
            IN  /\ {i \in Slots : fsp_fds[i] = fd} = {idx}
                /\ fsp_fds_flag[idx] = fs[fd].flags
                /\ fsp_fds_type[idx] = IF dir THEN "DIR" ELSE "FILE"
                /\ fsp_fd_dirs[idx] # NULL =>
                      /\ dir /\ fsp_fd_dirs[idx].path = fs[fd].path
                      /\ fsp_readdir_done_cnt[idx] = fsp_fd_dirs[idx].read

\* The assertions about the table, in the handler and in dir_fd_do_opendir, fail
\* only after such a race: the entries of closed files are given back, and reset.
\* (The other two are about what the server and the program pass.)
AssertionsHold ==
    failed \in {"idx >= 0", "fsp_fds[dir_fd_idx] == dir_fd",
                "fsp_fd_dirs[dir_fd_idx] == 0"} => raced
=============================================================================
