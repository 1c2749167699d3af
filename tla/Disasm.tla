------------------------------- MODULE Disasm -------------------------------
(***************************************************************************)
(* What the disassembler wrapper (disasm_wrapper.c) reports about one      *)
(* instruction, and what the patcher may do with such an instruction.      *)
(*                                                                         *)
(* A struct intercept_disasm_result becomes a record                       *)
(*   kind    - which of the mutually exclusive is_* flags is set,          *)
(*   length  - bytes consumed, 0 when the bytes could not be decoded,      *)
(*   ref     - rip_ref_addr, or NULL when has_ip_relative_opr is false,    *)
(*   address - where the instruction starts.                               *)
(***************************************************************************)
EXTENDS Integers, Sequences

\* Addresses are positive integers; 0 is the null pointer.
NULL == 0

SYSCALL_INS_SIZE == 2
JUMP_INS_SIZE == 5
SHORT_JUMP_SIZE == 2

\* "plain" stands for every instruction with no flag set ("bad" cannot be
\* decoded); "rip" is an instruction other than LEA, a jump or a call with a
\* RIP-relative operand.
DecodedKinds == {"plain", "nop", "ret", "endbr", "jump", "call", "lea_rip",
                 "rip", "syscall"}
Kinds == DecodedKinds \cup {"bad"}

MAX_INS_LENGTH == 15

intercept_disasm_result ==
    [kind : Kinds, length : 0 .. MAX_INS_LENGTH, ref : Nat, address : Nat]

-----------------------------------------------------------------------------
(***************************************************************************)
(* Decoding.  Capstone reports an instruction as a record with the id that *)
(* the wrapper looks at ("lea", and "other" for all that set no flag, are  *)
(* not kinds of their own), its length, and an operand: what op.type says, *)
(* whether a register in it is RIP, and its immediate or displacement.     *)
(***************************************************************************)
has_ip_relative_opr(ins) == ins.ref # NULL
is_jump(ins) == ins.kind \in {"jump", "call"}

NoOperand == [type |-> "none", rip |-> FALSE, value |-> 0]

\* A jump through memory counts as relative, whatever its base register is.
check_op(result, op) ==
    LET rip == result.address + result.length
    IN  CASE op.type = "reg" /\ op.rip -> [result EXCEPT !.ref = rip]
          [] op.type = "mem" /\ (op.rip \/ is_jump(result)) ->
                [result EXCEPT !.ref = rip + op.value]
          [] op.type = "imm" /\ is_jump(result) -> [result EXCEPT !.ref = op.value]
          [] OTHER -> result

\* Only an LEA with a RIP-relative operand is told from other instructions.
intercept_disasm_next_instruction(insn, code) ==
    LET result == check_op([kind |-> insn.id, length |-> insn.length,
                            ref |-> NULL, address |-> code], insn.op)
        relative == IF insn.id = "lea" THEN "lea_rip" ELSE "rip"
    IN  IF insn.id \notin {"lea", "other"} THEN result
        ELSE [result EXCEPT
                !.kind = IF has_ip_relative_opr(result) THEN relative ELSE "plain"]

-----------------------------------------------------------------------------
\* A zeroed result: the is_set flag is false.
Unset == [kind |-> "unset", length |-> 0, ref |-> NULL, address |-> NULL]

is_set(ins) == ins.kind # "unset"
is_syscall(ins) == ins.kind = "syscall"
is_lea_rip(ins) == ins.kind = "lea_rip"

\* A NOP can host a short jump and a 5 byte jump when it has 7 bytes.
is_overwritable_nop(ins) ==
    ins.kind = "nop" /\ ins.length >= SHORT_JUMP_SIZE + JUMP_INS_SIZE

is_copiable_after_syscall(ins) ==
    /\ is_set(ins)
    /\ ~has_ip_relative_opr(ins)
    /\ ins.kind \notin {"call", "jump", "endbr", "syscall"}

is_copiable_before_syscall(ins) ==
    is_copiable_after_syscall(ins) /\ ins.kind # "ret"

\* Bytes that crawl_text steps over: one for an undecodable byte.
Step(ins) == IF ins.length = 0 THEN 1 ELSE ins.length

End(ins) == ins.address + Step(ins)

-----------------------------------------------------------------------------
(***************************************************************************)
(* A text section is the sequence of the results that a linear sweep from  *)
(* text_start to text_end meets, undecodable bytes included.               *)
(***************************************************************************)
text_start(t) == t[1].address
text_end(t) == End(t[Len(t)]) - 1

InText(t, a) == text_start(t) <= a /\ a <= text_end(t)

InsOK(ins) ==
    /\ ins \in intercept_disasm_result
    /\ ins.kind = "bad" <=> ins.length = 0
    /\ ins.kind = "syscall" => ins.length = SYSCALL_INS_SIZE
    /\ ins.kind = "lea_rip" => ins.ref # NULL
    /\ ins.kind \in {"bad", "plain", "nop", "ret", "endbr", "syscall"}
          => ins.ref = NULL

TextOK(t) ==
    /\ Len(t) > 0
    /\ text_start(t) > 0
    /\ \A k \in 1 .. Len(t) : InsOK(t[k])
    /\ \A k \in 1 .. Len(t) - 1 : t[k + 1].address = End(t[k])
    /\ \A j, k \in 1 .. Len(t) : j < k => End(t[j]) <= t[k].address
=============================================================================
