----------------------------- MODULE SyscallPlay -----------------------------
(***************************************************************************)
(* examples/syscall_play.c: a hook that makes every call itself, takes the *)
(* prefix "FSP" off the paths of some of them, and keeps a table of the    *)
(* descriptors that were opened through such a path.  A path is a name and *)
(* whether the prefix is before it.                                        *)
(***************************************************************************)
EXTENDS Integers, FiniteSets

CONSTANTS
    PlayNames,      \* names of files
    PlayFds,        \* descriptors: 0 .. n
    PlayMaxNumFds   \* entries of the table

ASSUME PlayAssumption == PlayMaxNumFds \in Nat \ {0} /\ PlayFds \subseteq Nat

VARIABLES
    files,              \* kernel: the paths there are
    opened,             \* kernel: what each descriptor was opened as
    play_fds,           \* the table
    play_add_idx,
    untracked           \* descriptors opened when the table was full, or dup'ed to

playVars == <<files, opened, play_fds, play_add_idx, untracked>>

Paths == [fsp : BOOLEAN, name : PlayNames]
kInvalidPlayFd == -99
PlaySlots == 0 .. PlayMaxNumFds - 1
NotOpen == [path |-> "none"]

\* TO_NEW_PATH, for a path with the prefix.
plain_path(path) == [path EXCEPT !.fsp = FALSE]

PlayInit ==
    /\ files = {}
    /\ opened = [fd \in PlayFds |-> NotOpen]
    /\ play_fds = [i \in PlaySlots |-> kInvalidPlayFd]
    /\ play_add_idx = 0
    /\ untracked = {}

-----------------------------------------------------------------------------
(***************************************************************************)
(* The table of descriptors.                                               *)
(***************************************************************************)
add_fsp_fd(fd) ==
    LET idx(i) == (play_add_idx + i) % PlayMaxNumFds
        free == {i \in PlaySlots : play_fds[idx(i)] < 0}
        first == CHOOSE i \in free : \A j \in free : i <= j
    IN  IF free = {}
        THEN /\ untracked' = untracked \cup {fd}
             /\ UNCHANGED <<play_fds, play_add_idx>>
        ELSE /\ play_fds' = [play_fds EXCEPT ![idx(first)] = fd]
             /\ play_add_idx' = idx(first)
             /\ untracked' = untracked \ {fd}

del_fsp_fd_none(fd) == play_fds

\* The table without the first entry for fd.
del_fsp_fd(fd) ==
    LET found == {i \in PlaySlots : play_fds[i] = fd}
        first == CHOOSE i \in found : \A j \in found : i <= j
    IN  IF found = {} THEN play_fds ELSE [play_fds EXCEPT ![first] = kInvalidPlayFd]

-----------------------------------------------------------------------------
(***************************************************************************)
(* The calls.  The kernel may refuse any of them.                          *)
(***************************************************************************)
translated(path) == IF path.fsp THEN plain_path(path) ELSE path

\* open and openat, with or without O_CREAT.
PlayOpen(path, creat) ==
    LET free == {fd \in PlayFds : opened[fd] = NotOpen}
        fd == CHOOSE f \in free : \A g \in free : f <= g
    IN  /\ free # {}
        /\ creat \/ translated(path) \in files
        /\ files' = files \cup {translated(path)}
        /\ opened' = [opened EXCEPT ![fd] = path]
        /\ IF path.fsp THEN add_fsp_fd(fd)
           ELSE /\ untracked' = untracked \ {fd}
                /\ UNCHANGED <<play_fds, play_add_idx>>

PlayUnlink(path) ==
    /\ translated(path) \in files
    /\ files' = files \ {translated(path)}
    /\ UNCHANGED <<opened, play_fds, play_add_idx, untracked>>

PlayMkdir(path) ==
    /\ translated(path) \notin files
    /\ files' = files \cup {translated(path)}
    /\ UNCHANGED <<opened, play_fds, play_add_idx, untracked>>

\* The source loses its prefix if both paths have one, the destination never.
PlayRename(src, dst) ==
    LET from == IF src.fsp /\ dst.fsp THEN plain_path(src) ELSE src
    IN  /\ from \in files
        /\ files' = (files \ {from}) \cup {dst}
        /\ UNCHANGED <<opened, play_fds, play_add_idx, untracked>>

PlayClose(fd) ==
    /\ play_fds' = del_fsp_fd(fd)
    /\ opened' = [opened EXCEPT ![fd] = NotOpen]
    /\ untracked' = untracked \ {fd}
    /\ UNCHANGED <<files, play_add_idx>>

\* Not handled: to the kernel as it is.
PlayDup2(old, new) ==
    /\ opened[old] # NotOpen /\ old # new
    /\ opened' = [opened EXCEPT ![new] = opened[old]]
    /\ untracked' = untracked \cup {new}
    /\ UNCHANGED <<files, play_fds, play_add_idx>>

PlayNext ==
    \/ \E path \in Paths :
          \/ \E creat \in BOOLEAN : PlayOpen(path, creat)
          \/ PlayUnlink(path) \/ PlayMkdir(path)
          \/ \E dst \in Paths : PlayRename(path, dst)
    \/ \E fd \in PlayFds : PlayClose(fd) \/ \E new \in PlayFds : PlayDup2(fd, new)

-----------------------------------------------------------------------------
(***************************************************************************)
(* Properties.                                                             *)
(***************************************************************************)
\* A descriptor is in the table, and then once, exactly if it is open and was
\* opened through a path with the prefix, unless the table was full then or it
\* was the target of a dup2; the table holds nothing else.
PlayExact ==
    /\ \A fd \in PlayFds \ untracked :
          Cardinality({i \in PlaySlots : play_fds[i] = fd}) =
              IF opened[fd] # NotOpen /\ opened[fd].fsp THEN 1 ELSE 0
    /\ \A i \in PlaySlots : play_fds[i] = kInvalidPlayFd \/ play_fds[i] \in PlayFds
=============================================================================
