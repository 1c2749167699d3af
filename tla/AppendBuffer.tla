---------------------------- MODULE AppendBuffer ----------------------------
(***************************************************************************)
(* The log buffer of examples/syscall_logger.c, which several threads fill *)
(* without a lock: each reserves its bytes with a compare and exchange of  *)
(* buffer_offset, and one that crosses the threshold is to write the       *)
(* buffer to the log file.  syscall_play.c and syscall_fsp.c contain the   *)
(* same function.                                                          *)
(***************************************************************************)
EXTENDS Integers, Sequences, FiniteSets

CONSTANTS
    Threads,
    BufferSize,  \* sizeof(buffer)
    Reserve,     \* what the threshold leaves at the end of the buffer
    Lengths      \* the lengths of the lines

DUMP_TRESHOLD == BufferSize - Reserve

ASSUME BufferAssumption ==
    /\ IsFiniteSet(Threads)
    /\ BufferSize \in Nat /\ Reserve \in 0 .. BufferSize
    /\ Lengths \subseteq 1 .. Reserve

VARIABLES
    buffer_offset,
    writers,
    lines,    \* the lines in the buffer, in the order they were reserved
    th,       \* where each thread is, and in which system call
    log,      \* how many bytes were written to the log file
    exited    \* exit_group was executed

vars == <<buffer_offset, writers, lines, th, log, exited>>

InProgram == [pc |-> "program", call |-> "none", offset |-> 0, len |-> 0]

Init ==
    /\ buffer_offset = 0
    /\ writers = 0
    /\ lines = <<>>
    /\ th = [t \in Threads |-> InProgram]
    /\ log = 0
    /\ exited = FALSE

At(t, pc) == ~exited /\ th[t].pc = pc
Goto(t, pc) == th' = [th EXCEPT ![t].pc = pc]

\* hook: a call is logged when the kernel has returned from it, one that does
\* not return before it is made.
Hook(t) ==
    /\ At(t, "program")
    /\ \E call \in {"other", "exit", "exit_group"}, len \in Lengths :
          th' = [th EXCEPT ![t] = [pc |-> "wait", call |-> call, len |-> len,
                                   offset |-> buffer_offset]]
    /\ UNCHANGED <<buffer_offset, writers, lines, log, exited>>

Wait(t) ==
    /\ At(t, "wait")
    /\ IF th[t].offset >= DUMP_TRESHOLD
       THEN th' = [th EXCEPT ![t].offset = buffer_offset] /\ UNCHANGED writers
       ELSE Goto(t, "exchange") /\ writers' = writers + 1
    /\ UNCHANGED <<buffer_offset, lines, log, exited>>

exchange_always(t) == TRUE

\* exchange_buffer_offset succeeds if nobody was faster.
exchange_buffer_offset(t) == buffer_offset = th[t].offset

Exchange(t) ==
    /\ At(t, "exchange")
    /\ IF exchange_buffer_offset(t)
       THEN /\ buffer_offset' = th[t].offset + th[t].len
            /\ lines' = Append(lines, [t |-> t, offset |-> th[t].offset,
                                       len |-> th[t].len, copied |-> FALSE])
            /\ Goto(t, "copy")
       ELSE /\ th' = [th EXCEPT ![t].pc = "lost", ![t].offset = buffer_offset]
            /\ UNCHANGED <<buffer_offset, lines>>
    /\ UNCHANGED <<writers, log, exited>>

\* The other thread was faster: once more, from its offset.
Lost(t) ==
    /\ At(t, "lost")
    /\ writers' = writers - 1
    /\ Goto(t, "wait")
    /\ UNCHANGED <<buffer_offset, lines, log, exited>>

AfterCopy(t) ==
    /\ lines' = [i \in DOMAIN lines |->
                   IF lines[i].t = t THEN [lines[i] EXCEPT !.copied = TRUE]
                   ELSE lines[i]]
    /\ Goto(t, IF th[t].offset + th[t].len > DUMP_TRESHOLD THEN "dump" ELSE "end")

Copy_leaves(t) ==
    /\ At(t, "copy")
    /\ AfterCopy(t)
    /\ writers' = writers - 1
    /\ UNCHANGED <<buffer_offset, log, exited>>

\* memcpy; writers still counts this thread afterwards.
Copy(t) ==
    /\ At(t, "copy")
    /\ AfterCopy(t)
    /\ UNCHANGED <<buffer_offset, writers, log, exited>>

\* Yield while there are writers, then write the buffer and empty it.
Dump(t) ==
    /\ At(t, "dump")
    /\ IF writers # 0
       THEN UNCHANGED <<buffer_offset, lines, th, log>>
       ELSE /\ log' = log + buffer_offset
            /\ buffer_offset' = 0
            /\ lines' = <<>>
            /\ Goto(t, "end")
    /\ UNCHANGED <<writers, exited>>

\* append_buffer returns to the hook.
Return(t) ==
    /\ At(t, "end")
    /\ IF th[t].call = "exit_group"
       THEN Goto(t, "exit_group") /\ log' = log + buffer_offset
       ELSE /\ th' = [th EXCEPT ![t] =
                         IF th[t].call = "exit" THEN [@ EXCEPT !.pc = "gone"]
                         ELSE InProgram]
            /\ UNCHANGED log
    /\ UNCHANGED <<buffer_offset, writers, lines, exited>>

ExitGroup(t) ==
    /\ At(t, "exit_group")
    /\ exited' = TRUE
    /\ UNCHANGED <<buffer_offset, writers, lines, th, log>>

Next ==
    \E t \in Threads :
        \/ Hook(t) \/ Wait(t) \/ Exchange(t) \/ Lost(t) \/ Copy(t) \/ Dump(t)
        \/ Return(t) \/ ExitGroup(t)

Spec == Init /\ [][Next]_vars
-----------------------------------------------------------------------------
(***************************************************************************)
(* Properties.                                                             *)
(***************************************************************************)

\* The threads' lines lie in the buffer one after the other, without overlap or
\* gap, from its start up to buffer_offset and never past its end.  A line not
\* yet copied is one that a thread is copying.
LinesContiguous ==
    /\ \A i \in DOMAIN lines :
          /\ lines[i].offset =
                IF i = 1 THEN 0 ELSE lines[i - 1].offset + lines[i - 1].len
          /\ ~lines[i].copied => /\ th[lines[i].t].pc = "copy"
                                 /\ th[lines[i].t].offset = lines[i].offset
    /\ buffer_offset = IF lines = <<>> THEN 0
                       ELSE lines[Len(lines)].offset + lines[Len(lines)].len
    /\ buffer_offset <= BufferSize

\* The dump never happens.  A thread that has appended a line stays counted in
\* writers, so the one that crosses the threshold waits for itself, and if the
\* buffer is filled exactly up to the threshold nobody has to dump it.  Nobody
\* appends from then on, and only an exit_group that is already behind
\* append_buffer still writes the log.
FullBufferStays ==
    [][buffer_offset >= DUMP_TRESHOLD => buffer_offset' = buffer_offset]_vars
=============================================================================
