-------------------------- MODULE InterceptedText --------------------------
(***************************************************************************)
(* What hot-patching promises to the code in the text section: it runs as  *)
(* it was compiled, instruction by instruction, except that a syscall runs *)
(* the interceptor instead of entering the kernel.                         *)
(***************************************************************************)
EXTENDS Disasm

VARIABLES
    text,     \* the instructions as compiled
    entries,  \* the addresses that other code may jump to or call
    pc,       \* the address of the next instruction, NULL outside of text
    effect    \* what the last instruction other than a NOP did, and where

vars == <<text, entries, pc, effect>>

Outside == NULL

Init ==
    /\ pc = Outside
    /\ effect = <<"none", NULL>>

Enter ==
    /\ pc = Outside
    /\ pc' \in entries
    /\ UNCHANGED <<text, entries, effect>>

\* A syscall which no instruction follows is left to the kernel.
SyscallEffect(k) ==
    IF k < Len(text) /\ text[k + 1].length # 0 THEN "hook" ELSE "kernel"

Successors(ins) ==
    CASE ins.kind = "ret" -> {Outside}
      [] ins.kind \in {"jump", "call"} -> {ins.ref, End(ins)}
      [] OTHER -> {End(ins)}

Execute ==
    \E k \in 1 .. Len(text) :
        /\ pc = text[k].address
        /\ pc' \in Successors(text[k])
        /\ effect' = CASE text[k].kind = "nop" -> effect
                       [] text[k].kind = "syscall"
                            -> <<SyscallEffect(k), text[k].address>>
                       [] OTHER -> <<"ins", text[k].address>>
        /\ UNCHANGED <<text, entries>>

Next == Enter \/ Execute

Spec == Init /\ [][Next]_<<pc, effect>>
=============================================================================
