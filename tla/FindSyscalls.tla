---------------------------- MODULE FindSyscalls ----------------------------
(***************************************************************************)
(* find_syscalls() of intercept_desc.c: collect the jump destinations that *)
(* the symbol and relocation tables name, then sweep over the text section *)
(* one instruction at a time, recording jump destinations, usable NOPs and *)
(* the syscalls to patch.                                                  *)
(***************************************************************************)
EXTENDS Disasm, FiniteSets

CONSTANTS
    Programs,     \* the shared objects: text, symbol and relocation entries
    LargeText,    \* 0x10000: above it the NOP table is sized by the text
    BytesPerNop,  \* 64: bytes of a large text for each entry
    MinNopCount   \* 1024: entries of the NOP table of a smaller text

VARIABLES
    text,         \* the text section, as a linear sweep decodes it
    symtab,       \* entries of the symbol tables
    relatab,      \* entries of the relocation tables
    phase,        \* how far hot-patching of this object got
    jump_table,   \* addresses whose bit is set in the bitmap
    nop_table,    \* the recorded NOPs, struct range each
    code,         \* position in text of the instruction to decode next
    prevs,        \* the last three decoded instructions
    has_prevs,
    items,        \* the patch descriptions
    items_space   \* how many of them the mapping at desc->items can hold

crawlVars == <<text, symtab, relatab, jump_table, nop_table, code, prevs,
               has_prevs, items, items_space>>

Elf64_Sym ==
    [st_type : {"FUNC", "OBJECT"}, in_text : BOOLEAN,
     st_value : Nat, st_size : Nat]
Elf64_Rela == [r_type : {"RELATIVE", "OTHER"}, r_addend : Nat]

ASSUME ProgramsAssumption ==
    \A p \in Programs :
        /\ p.text \in Seq(intercept_disasm_result)
        /\ TextOK(p.text)
        /\ p.symtab \subseteq Elf64_Sym
        /\ p.relatab \subseteq Elf64_Rela

ASSUME NopCountAssumption ==
    /\ LargeText \in Nat
    /\ BytesPerNop \in Nat \ {0}
    /\ MinNopCount \in Nat

-----------------------------------------------------------------------------
text_bytes == text_end(text) - text_start(text) + 1

calculate_table_count(bytes) ==
    IF bytes > LargeText THEN bytes \div BytesPerNop ELSE MinNopCount

max_nop_count == calculate_table_count(text_bytes)

\* Setting a bit is ignored for an address outside of the text section.
mark_jump(addrs) == jump_table \cup {a \in addrs : InText(text, a)}

has_jump(a) == InText(text, a) /\ a \in jump_table

\* The addresses that the tables of the object file declare to be jumped to:
\* where each function of the text section starts and, if its size is known,
\* where it ends; and the targets of relative relocations.
find_jumps_in_section_syms ==
    LET funcs == {s \in symtab : s.st_type = "FUNC" /\ s.in_text}
    IN  {s.st_value : s \in funcs}
          \cup {s.st_value + s.st_size : s \in {f \in funcs : f.st_size # 0}}

find_jumps_in_section_rela ==
    {r.r_addend : r \in {s \in relatab : s.r_type = "RELATIVE"}}

\* A NOP too many is not remembered.
mark_nop(ins) ==
    IF Len(nop_table) = max_nop_count
    THEN nop_table
    ELSE Append(nop_table, [address |-> ins.address, size |-> ins.length])

NoRange == [address |-> NULL, size |-> 0]

\* A fresh entry of desc->items, which mmap zero-fills.
ZeroPatch ==
    [syscall_addr |-> NULL,
     preceding_ins_2 |-> Unset, preceding_ins |-> Unset,
     following_ins |-> Unset,
     uses_prev_ins_2 |-> FALSE, uses_prev_ins |-> FALSE,
     uses_next_ins |-> FALSE,
     uses_nop_trampoline |-> FALSE, nop_trampoline |-> NoRange,
     dst_jmp_patch |-> NULL, return_address |-> NULL, asm_wrapper |-> NULL]

has_pow2_count(count) == \E e \in 0 .. count : 2 ^ e = count

\* The space of desc->items once add_new_patch has made room for one more.
grown_space(count) ==
    CASE count = 0 -> 1
      [] count > 0 /\ has_pow2_count(count) -> 2 * count
      [] OTHER -> items_space

add_new_patch(patch) ==
    /\ items' = Append(items, patch)
    /\ items_space' = grown_space(Len(items))

\* The patch description for the syscall right before the instruction result,
\* which is the third of the instructions remembered so far.
described_patch(result) ==
    [ZeroPatch EXCEPT
        !.preceding_ins_2 = prevs[1],
        !.preceding_ins = prevs[2],
        !.following_ins = result,
        !.syscall_addr = result.address - SYSCALL_INS_SIZE]

\* What the comment in crawl_text describes: two preceding instructions.
syscall_before_result_two == has_prevs >= 2 /\ is_syscall(prevs[3])

syscall_before_result == has_prevs >= 1 /\ is_syscall(prevs[3])

-----------------------------------------------------------------------------
Init ==
    /\ \E p \in Programs :
          text = p.text /\ symtab = p.symtab /\ relatab = p.relatab
    /\ phase = "syms"
    /\ jump_table = {}
    /\ nop_table = <<>>
    /\ code = 1
    /\ prevs = <<Unset, Unset, Unset>>
    /\ has_prevs = 0
    /\ items = <<>>
    /\ items_space = 0

FindJumps ==
    /\ phase = "syms"
    /\ jump_table' = mark_jump(find_jumps_in_section_syms
                                 \cup find_jumps_in_section_rela)
    /\ phase' = "crawl"
    /\ UNCHANGED <<text, symtab, relatab, nop_table, code, prevs, has_prevs,
                   items, items_space>>

CrawlUndecodable_stuck ==
    /\ phase = "crawl"
    /\ code <= Len(text)
    /\ text[code].length = 0
    /\ UNCHANGED <<crawlVars, phase>>

\* An undecodable byte is stepped over; the remembered instructions stay.
CrawlUndecodable ==
    /\ phase = "crawl"
    /\ code <= Len(text)
    /\ text[code].length = 0
    /\ code' = code + 1
    /\ UNCHANGED <<text, symtab, relatab, phase, jump_table, nop_table, prevs,
                   has_prevs, items, items_space>>

\* One decoded instruction.
CrawlInstruction ==
    /\ phase = "crawl"
    /\ code <= Len(text)
    /\ LET result == text[code]
       IN  /\ result.length # 0
           /\ jump_table' = IF has_ip_relative_opr(result)
                            THEN mark_jump({result.ref})
                            ELSE jump_table
           /\ nop_table' = IF is_overwritable_nop(result)
                           THEN mark_nop(result)
                           ELSE nop_table
           /\ IF syscall_before_result
              THEN add_new_patch(described_patch(result))
              ELSE UNCHANGED <<items, items_space>>
           /\ prevs' = <<prevs[2], prevs[3], result>>
    /\ has_prevs' = IF has_prevs < 2 THEN has_prevs + 1 ELSE has_prevs
    /\ code' = code + 1
    /\ UNCHANGED <<text, symtab, relatab, phase>>

CrawlEnd ==
    /\ phase = "crawl"
    /\ code > Len(text)
    /\ phase' = "plan"
    /\ UNCHANGED crawlVars

FindSyscallsNext ==
    FindJumps \/ CrawlUndecodable \/ CrawlInstruction \/ CrawlEnd
=============================================================================
