----------------------------- MODULE MCExamples -----------------------------
(***************************************************************************)
(* The hook libraries of examples/ on small instances, one per behaviour:  *)
(* a process has loaded one of them.                                       *)
(***************************************************************************)
EXTENDS FspIo, FspHook, FspFds, FspAio, ForkBan, Icap, SyscallPlay, TLC

CONSTANTS MaxText, t1, t2

VARIABLE library     \* the library, or the part of one, that is looked at

MCSeqNos == {-1, 1}
MCTexts == UNION {[1 .. n -> {"i", "x"}] : n \in 0 .. MaxText}
MCThreads == {t1, t2}
Symmetry == Permutations(MCThreads)

\* What is said of the table of FspFds is said of the time before a race: after
\* one, the behaviour goes on only while both threads are in a call.
UntilRace == raced => \A t \in FdThreads : th[t].pc # "idle"

MCInit ==
    /\ library \in {"fsp io", "fsp hook", "fsp fds", "fsp aio", "fork_ban",
                    "icap", "play"}
    /\ IoInit /\ HookInit /\ FdsInit /\ AioInit /\ ForkInit /\ IcapInit /\ PlayInit
    /\ library # "fsp hook" => g_syncall_seq_no = -1
    /\ library # "icap" => text = <<>>

MCNext ==
    /\ UNCHANGED library
    /\ \/ /\ library = "fsp io" /\ IoNext
          /\ UNCHANGED <<hookVars, fdsVars, aioVars, forkVars, icapVars, playVars>>
       \/ /\ library = "fsp hook" /\ HookNext
          /\ UNCHANGED <<ioVars, fdsVars, aioVars, forkVars, icapVars, playVars>>
       \/ /\ library = "fsp fds" /\ FdsNext
          /\ UNCHANGED <<ioVars, hookVars, aioVars, forkVars, icapVars, playVars>>
       \/ /\ library = "fsp aio" /\ AioNext
          /\ UNCHANGED <<ioVars, hookVars, fdsVars, forkVars, icapVars, playVars>>
       \/ /\ library = "fork_ban" /\ ForkNext
          /\ UNCHANGED <<ioVars, hookVars, fdsVars, aioVars, icapVars, playVars>>
       \/ /\ library = "icap" /\ IcapNext
          /\ UNCHANGED <<ioVars, hookVars, fdsVars, aioVars, forkVars, playVars>>
       \/ /\ library = "play" /\ PlayNext
          /\ UNCHANGED <<ioVars, hookVars, fdsVars, aioVars, forkVars, icapVars>>

MCSpec ==
    MCInit /\ [][MCNext]_<<library, ioVars, hookVars, fdsVars, aioVars, forkVars,
                           icapVars, playVars>>
=============================================================================
