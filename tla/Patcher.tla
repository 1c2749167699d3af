------------------------------ MODULE Patcher ------------------------------
(***************************************************************************)
(* patcher.c for one shared object: create_patch_wrappers decides for each *)
(* syscall which bytes become a jump and generates the wrapper around it,  *)
(* activate_patches overwrites the text.  Both go through desc->items in   *)
(* ascending order, one patch per step here.                               *)
(***************************************************************************)
EXTENDS FindSyscalls

CONSTANTS
    ReachMin, ReachMax,   \* 128 and 127: range of an 8 bit displacement
    Int32Max,             \* 2^31 - 1: range of a 32 bit displacement
    PageSize,             \* 0x1000
    TrampolineModes,      \* possible values of desc->uses_trampoline_table
    TrampolineTable,      \* desc->trampoline_table
    TrampolineTableSize,  \* desc->trampoline_table_size
    WrapperSpace,         \* where next_asm_wrapper_space starts
    TmplSize              \* asm_wrapper_tmpl_size

ASSUME PatcherAssumption ==
    /\ ReachMin \in Nat /\ ReachMax \in Nat
    /\ Int32Max \in Nat
    /\ PageSize \in Nat \ {0}
    /\ TrampolineModes \subseteq BOOLEAN
    /\ TrampolineTable \in Nat \ {0} /\ TrampolineTableSize \in Nat
    /\ WrapperSpace \in Nat \ {0}
    /\ TmplSize \in Nat

VARIABLES
    patch_i,               \* the patch that the current loop handles next
    next_nop_i,            \* NOPs of nop_table that can not be assigned again
    next_asm_wrapper_space,
    wrappers,              \* the generated wrappers, in order of address
    uses_trampoline_table,
    trampolines,           \* destination of each used trampoline
    writable,              \* addresses of the text below it can be written
    mem,                   \* what was written into the text: address -> byte
    failure                \* the message of xabort

patchVars == <<patch_i, next_nop_i, next_asm_wrapper_space, wrappers,
               uses_trampoline_table, trampolines, writable, mem, failure>>
vars == <<crawlVars, phase, patchVars>>

-----------------------------------------------------------------------------
(***************************************************************************)
(* Planning: where the jump goes and which instructions move.              *)
(***************************************************************************)
TRAMPOLINE_SIZE == 6 + 8
MOVABS_SIZE == 10

\* A 2 byte jump at from can go to the address to.
ShortJumpReaches(from, to) ==
    LET d == to - (from + SHORT_JUMP_SIZE) IN -ReachMin <= d /\ d <= ReachMax

is_nop_in_range_from_syscall(address, nop) ==
    ShortJumpReaches(address - SHORT_JUMP_SIZE, nop.address + SHORT_JUMP_SIZE)

is_nop_in_range(address, nop) ==
    ShortJumpReaches(address, nop.address + SHORT_JUMP_SIZE)

after_nop(nop) == nop.address + nop.size

\* Where assign_nop_trampoline stops looking: at the first remaining NOP that
\* is not too far behind the syscall, past the last one if there is none.
nop_stop(syscall_addr) ==
    LET stops == {n \in next_nop_i + 1 .. Len(nop_table) :
                     \/ is_nop_in_range(syscall_addr, nop_table[n])
                     \/ nop_table[n].address > syscall_addr}
    IN  IF stops = {} THEN Len(nop_table) + 1
        ELSE CHOOSE n \in stops : \A m \in stops : n <= m

nop_found(syscall_addr) ==
    LET n == nop_stop(syscall_addr)
    IN  n <= Len(nop_table) /\ is_nop_in_range(syscall_addr, nop_table[n])

nops_consumed_keep(syscall_addr) == nop_stop(syscall_addr) - 1

\* The NOPs passed over, and the assigned one, are not looked at again.
nops_consumed(syscall_addr) ==
    LET n == nop_stop(syscall_addr)
    IN  IF nop_found(syscall_addr) THEN n ELSE n - 1

uses_before_unchecked(ins, next) ==
    \/ is_lea_rip(ins)
    \/ is_copiable_before_syscall(ins) /\ ~is_overwritable_nop(ins)

\* Whether an instruction before the address next can move to the wrapper.
uses_before(ins, next) ==
    \/ is_lea_rip(ins)
    \/ /\ is_copiable_before_syscall(ins)
       /\ ~is_overwritable_nop(ins)
       /\ ~has_jump(next)

uses_after(ins, next) ==
    \/ is_lea_rip(ins)
    \/ /\ is_copiable_after_syscall(ins)
       /\ ~is_overwritable_nop(ins)
       /\ ~has_jump(next)

check_surrounding_instructions(p) ==
    LET prev == uses_before(p.preceding_ins, p.syscall_addr)
    IN  [p EXCEPT
           !.uses_prev_ins = prev,
           !.uses_prev_ins_2 =
               prev /\ uses_before(p.preceding_ins_2,
                          p.syscall_addr - p.preceding_ins.length),
           !.uses_next_ins = uses_after(p.following_ins,
                                 p.syscall_addr + SYSCALL_INS_SIZE)]

\* How far the patch reaches before and behind the syscall instruction.
bytes_before(p) ==
    (IF p.uses_prev_ins THEN p.preceding_ins.length ELSE 0)
      + (IF p.uses_prev_ins_2 THEN p.preceding_ins_2.length ELSE 0)
bytes_after(p) == IF p.uses_next_ins THEN p.following_ins.length ELSE 0

patch_length(p) == bytes_before(p) + SYSCALL_INS_SIZE + bytes_after(p)

with_nop(p, nop) ==
    [p EXCEPT
        !.uses_nop_trampoline = TRUE,
        !.nop_trampoline = nop,
        !.uses_prev_ins = FALSE,
        !.uses_prev_ins_2 = FALSE,
        !.uses_next_ins = FALSE,
        !.dst_jmp_patch = nop.address + SHORT_JUMP_SIZE,
        !.return_address = p.syscall_addr + SYSCALL_INS_SIZE]

with_surroundings(p) ==
    LET q == check_surrounding_instructions(p)
    IN  [q EXCEPT
           !.uses_nop_trampoline = FALSE,
           !.dst_jmp_patch = q.syscall_addr - bytes_before(q),
           !.return_address =
               q.syscall_addr + SYSCALL_INS_SIZE + bytes_after(q)]

\* The wrapper of a patch: the instructions moved from before the syscall,
\* the template, the one moved from behind it, and the jump back.
relocated_size(ins) == IF is_lea_rip(ins) THEN MOVABS_SIZE ELSE ins.length

Moved(p) ==
    (IF p.uses_prev_ins /\ p.uses_prev_ins_2
       THEN <<p.preceding_ins_2>> ELSE <<>>)
      \o (IF p.uses_prev_ins THEN <<p.preceding_ins>> ELSE <<>>)

MovedAfter(p) == IF p.uses_next_ins THEN <<p.following_ins>> ELSE <<>>

wrapper_size(p) ==
    (IF p.uses_prev_ins THEN relocated_size(p.preceding_ins) ELSE 0)
      + (IF p.uses_prev_ins_2 THEN relocated_size(p.preceding_ins_2) ELSE 0)
      + TmplSize
      + (IF p.uses_next_ins THEN relocated_size(p.following_ins) ELSE 0)
      + TRAMPOLINE_SIZE

create_wrapper(p) ==
    /\ wrappers' = Append(wrappers,
          [address |-> next_asm_wrapper_space, before |-> Moved(p),
           after |-> MovedAfter(p), syscall_addr |-> p.syscall_addr,
           return_address |-> p.return_address])
    /\ next_asm_wrapper_space' = next_asm_wrapper_space + wrapper_size(p)

xabort(message) == phase' = "aborted" /\ failure' = message

-----------------------------------------------------------------------------
PatcherInit ==
    /\ Init
    /\ patch_i = 1
    /\ next_nop_i = 0
    /\ next_asm_wrapper_space = WrapperSpace
    /\ wrappers = <<>>
    /\ uses_trampoline_table \in TrampolineModes
    /\ trampolines = <<>>
    /\ writable = 0
    /\ mem = <<>>
    /\ failure = "none"

marked_nothing(p) == jump_table

\* What both ways of patching do once the bytes to overwrite are known.
marked_return(p) == mark_jump({p.return_address})

FinishPlan(p) ==
    /\ jump_table' = marked_return(p)
    /\ create_wrapper(p)
    /\ items' = [items EXCEPT ![patch_i] = p]
    /\ patch_i' = patch_i + 1
    /\ UNCHANGED <<phase, failure>>

\* One iteration of the loop of create_patch_wrappers.
PlanPatch ==
    /\ phase = "plan"
    /\ patch_i <= Len(items)
    /\ LET p == items[patch_i]
           planned == IF nop_found(p.syscall_addr)
                      THEN with_nop(p, nop_table[nop_stop(p.syscall_addr)])
                      ELSE with_surroundings(p)
       IN  /\ next_nop_i' = nops_consumed(p.syscall_addr)
           /\ \/ /\ \/ planned.uses_nop_trampoline
                    \/ patch_length(planned) >= JUMP_INS_SIZE
                 /\ FinishPlan([planned EXCEPT
                                  !.asm_wrapper = next_asm_wrapper_space])
              \/ /\ ~planned.uses_nop_trampoline
                 /\ patch_length(planned) < JUMP_INS_SIZE
                 /\ xabort("not enough space for patching around syscal")
                 /\ UNCHANGED <<jump_table, wrappers, items, patch_i,
                                next_asm_wrapper_space>>
    /\ UNCHANGED <<text, symtab, relatab, nop_table, code, prevs, has_prevs,
                   items_space, uses_trampoline_table, trampolines, writable,
                   mem>>

PlanEnd ==
    /\ phase = "plan"
    /\ patch_i > Len(items)
    /\ phase' = "planned"
    /\ UNCHANGED <<crawlVars, patchVars>>

-----------------------------------------------------------------------------
(***************************************************************************)
(* Activation.  A byte of the patched text is a record: the instruction it *)
(* belongs to (op and the address at where that starts) and, for a jump,   *)
(* the destination.                                                        *)
(***************************************************************************)
round_down_address(a) == (a \div PageSize) * PageSize

\* mprotect works on pages: everything up to the end of the last page that
\* [address, address + size) touches.
mprotected_end(address, size) ==
    round_down_address(address + size + PageSize - 1)

text_mprotect_unrounded == text_end(text) - text_start(text)

text_mprotect_size == text_end(text) - round_down_address(text_start(text))

\* Where the 5 byte jump of a patch goes to.
JumpTarget(p) ==
    IF uses_trampoline_table
    THEN TrampolineTable + TRAMPOLINE_SIZE * Len(trampolines)
    ELSE p.asm_wrapper

JumpReaches(from, to) ==
    LET delta == to - (from + JUMP_INS_SIZE)
    IN  -Int32Max - 1 <= delta /\ delta <= Int32Max

check_trampoline_usage ==
    uses_trampoline_table =>
        TRAMPOLINE_SIZE * Len(trampolines) + TRAMPOLINE_SIZE
            < TrampolineTableSize

\* Bytes of an instruction of n bytes generated at the address a.
Code(a, n, op, to) ==
    [b \in a .. a + n - 1 |-> [op |-> op, at |-> a, to |-> to]]

int3_fill_inclusive(p) ==
    IF p.uses_nop_trampoline THEN <<>>
    ELSE [b \in p.dst_jmp_patch + JUMP_INS_SIZE .. p.return_address |->
            [op |-> "int3", at |-> b, to |-> NULL]]

\* The bytes that activating p writes, as a function from their addresses.
\* The fill starts right behind the 5 byte jump and ends at return_address.
int3_fill(p) ==
    IF p.uses_nop_trampoline THEN <<>>
    ELSE [b \in p.dst_jmp_patch + JUMP_INS_SIZE .. p.return_address - 1 |->
            [op |-> "int3", at |-> b, to |-> NULL]]

Overlay(f, g) ==
    [a \in DOMAIN f \cup DOMAIN g |-> IF a \in DOMAIN g THEN g[a] ELSE f[a]]

PatchBytes(p) ==
    LET jump == Code(p.dst_jmp_patch, JUMP_INS_SIZE, "jmp", JumpTarget(p))
        hop == Code(p.syscall_addr, SHORT_JUMP_SIZE, "short", p.dst_jmp_patch)
        skip == Code(p.nop_trampoline.address, SHORT_JUMP_SIZE, "short",
                     after_nop(p.nop_trampoline))
    IN  IF p.uses_nop_trampoline
        THEN Overlay(Overlay(jump, hop), skip)
        ELSE Overlay(jump, int3_fill(p))

ActivationError(p) ==
    CASE ~InText(text, p.dst_jmp_patch) -> "dst_jmp_patch outside text"
      [] InText(text, p.dst_jmp_patch) /\ ~check_trampoline_usage
            -> "trampoline space not enough"
      [] /\ InText(text, p.dst_jmp_patch) /\ check_trampoline_usage
         /\ ~JumpReaches(p.dst_jmp_patch, JumpTarget(p))
            -> "create_jump distance check"
      [] /\ InText(text, p.dst_jmp_patch) /\ check_trampoline_usage
         /\ JumpReaches(p.dst_jmp_patch, JumpTarget(p))
         /\ p.uses_nop_trampoline
         /\ ~ /\ ShortJumpReaches(p.syscall_addr, p.dst_jmp_patch)
              /\ ShortJumpReaches(p.nop_trampoline.address,
                                  after_nop(p.nop_trampoline))
            -> "create_short_jump distance check"
      [] OTHER -> "none"

\* mprotect before the loop; an object without patches is left alone.
ActivateBegin ==
    /\ phase = "planned"
    /\ patch_i' = 1
    /\ \/ items = <<>> /\ phase' = "done" /\ UNCHANGED <<writable, failure>>
       \/ /\ items # <<>>
          /\ phase' = "activate"
          /\ writable' = mprotected_end(
                round_down_address(text_start(text)), text_mprotect_size)
          /\ UNCHANGED failure
       \/ items # <<>> /\ xabort("mprotect") /\ UNCHANGED writable
    /\ UNCHANGED <<crawlVars, next_nop_i, next_asm_wrapper_space, wrappers,
                   uses_trampoline_table, trampolines, mem>>

\* One iteration of the loop of activate_patches.  A write to a page that is
\* still read-only kills the process.
ActivatePatch ==
    /\ phase = "activate"
    /\ patch_i <= Len(items)
    /\ LET p == items[patch_i]
       IN  \/ /\ ActivationError(p) # "none"
              /\ xabort(ActivationError(p))
              /\ UNCHANGED <<patch_i, trampolines, mem>>
           \/ /\ ActivationError(p) = "none"
              /\ \E a \in DOMAIN PatchBytes(p) : a >= writable
              /\ phase' = "fault"
              /\ UNCHANGED <<patch_i, trampolines, mem, failure>>
           \/ /\ ActivationError(p) = "none"
              /\ \A a \in DOMAIN PatchBytes(p) : a < writable
              /\ mem' = Overlay(mem, PatchBytes(p))
              /\ trampolines' = IF uses_trampoline_table
                                THEN Append(trampolines, p.asm_wrapper)
                                ELSE trampolines
              /\ patch_i' = patch_i + 1
              /\ UNCHANGED <<phase, failure>>
    /\ UNCHANGED <<crawlVars, next_nop_i, next_asm_wrapper_space, wrappers,
                   uses_trampoline_table, writable>>

ActivateEnd ==
    /\ phase = "activate"
    /\ patch_i > Len(items)
    /\ \/ phase' = "done" /\ writable' = 0 /\ UNCHANGED failure
       \/ xabort("mprotect") /\ UNCHANGED writable
    /\ UNCHANGED <<crawlVars, patch_i, next_nop_i, next_asm_wrapper_space,
                   wrappers, uses_trampoline_table, trampolines, mem>>

PatcherNext ==
    \/ FindSyscallsNext /\ UNCHANGED patchVars
    \/ PlanPatch
    \/ PlanEnd
    \/ ActivateBegin
    \/ ActivatePatch
    \/ ActivateEnd

Spec == PatcherInit /\ [][PatcherNext]_vars

FairSpec == Spec /\ WF_vars(PatcherNext)
-----------------------------------------------------------------------------
(***************************************************************************)
(* Properties.                                                             *)
(***************************************************************************)
range == [address : Nat, size : Nat]

patch_desc ==
    [syscall_addr : Nat,
     preceding_ins_2 : intercept_disasm_result \cup {Unset},
     preceding_ins : intercept_disasm_result \cup {Unset},
     following_ins : intercept_disasm_result \cup {Unset},
     uses_prev_ins_2 : BOOLEAN, uses_prev_ins : BOOLEAN,
     uses_next_ins : BOOLEAN,
     uses_nop_trampoline : BOOLEAN, nop_trampoline : range,
     dst_jmp_patch : Int, return_address : Nat, asm_wrapper : Nat]

Phases == {"syms", "crawl", "plan", "planned", "activate", "done", "aborted",
           "fault"}

\* The values that the variables of hot-patching one object can have: what
\* find_syscalls, create_patch_wrappers and activate_patches store.
TypeOK ==
    /\ text \in Seq(intercept_disasm_result) /\ TextOK(text)
    /\ symtab \subseteq Elf64_Sym /\ relatab \subseteq Elf64_Rela
    /\ phase \in Phases
    /\ jump_table \subseteq {a \in Nat : InText(text, a)}
    /\ nop_table \in Seq(range)
    /\ code \in 1 .. Len(text) + 1
    /\ prevs \in Seq(intercept_disasm_result \cup {Unset}) /\ Len(prevs) = 3
    /\ has_prevs \in 0 .. 2
    /\ items \in Seq(patch_desc)
    /\ items_space \in Nat
    /\ patch_i \in 1 .. Len(items) + 1
    /\ next_nop_i \in 0 .. Len(nop_table)
    /\ next_asm_wrapper_space \in Nat
    /\ uses_trampoline_table \in BOOLEAN
    /\ writable \in Nat

Planned == {i \in 1 .. Len(items) : items[i].return_address # NULL}

\* The sweep met no undecodable byte between the instructions of the patch.
Contiguous(p) ==
    /\ \E k \in 1 .. Len(text) :
          text[k].address = p.syscall_addr /\ is_syscall(text[k])
    /\ is_set(p.preceding_ins) => End(p.preceding_ins) = p.syscall_addr
    /\ is_set(p.preceding_ins_2)
          => End(p.preceding_ins_2) = p.preceding_ins.address

MovesLeaBefore(p) ==
    \/ p.uses_prev_ins /\ is_lea_rip(p.preceding_ins)
    \/ p.uses_prev_ins_2 /\ is_lea_rip(p.preceding_ins_2)

MovesLea(p) ==
    \/ MovesLeaBefore(p)
    \/ p.uses_next_ins /\ is_lea_rip(p.following_ins)

\* The bytes of the text that the activation of p changes.
Written(p) ==
    IF p.uses_nop_trampoline
    THEN (p.syscall_addr .. p.syscall_addr + SYSCALL_INS_SIZE - 1)
           \cup (p.nop_trampoline.address .. p.dst_jmp_patch
                                               + JUMP_INS_SIZE - 1)
    ELSE p.dst_jmp_patch .. p.return_address - 1

\* The ones at which a jump from elsewhere would land inside of an
\* instruction of the patched text.
Interior(p) ==
    IF p.uses_nop_trampoline
    THEN {p.syscall_addr + 1}
           \cup (p.nop_trampoline.address + 1 .. p.dst_jmp_patch
                                                   + JUMP_INS_SIZE - 1)
    ELSE p.dst_jmp_patch + 1 .. p.return_address - 1

\* The addresses that the object's tables or its instructions name as a
\* destination, and those of them at which an instruction starts.
AllDestinations ==
    find_jumps_in_section_syms \cup find_jumps_in_section_rela
      \cup {text[k].ref : k \in 1 .. Len(text)}
JumpDestinations ==
    {text[k].address : k \in 1 .. Len(text)} \cap AllDestinations

\* Two syscalls close to each other never share a byte: what one patch
\* overwrites is not overwritten by another one.  The marking of return
\* addresses in create_patch_wrappers is there for this.  Exempt are syscalls
\* at undecodable bytes, and a later patch that moves a RIP-relative LEA from
\* before its syscall, for which check_surrounding_instructions does not look
\* at the jump table.
PatchesDisjoint ==
    \A i, j \in Planned :
        /\ i < j
        /\ Contiguous(items[i]) /\ Contiguous(items[j])
        /\ ~MovesLeaBefore(items[j])
        => Written(items[i]) \cap Written(items[j]) = {}

\* A jump destination that the tables or the sweep found is never inside of
\* the bytes merged into one jump by create_patch_wrappers, with the same
\* exceptions, and that of a LEA behind the syscall.
JumpDestinationsIntact ==
    \A i \in Planned :
        Contiguous(items[i]) /\ ~MovesLea(items[i])
            => JumpDestinations \cap Interior(items[i]) = {}

\* A wrapper returns to an instruction that is still there, or to the start
\* of the jump of another patch: never into the middle of overwritten bytes,
\* with the same exceptions.
ReturnsIntact ==
    \A i, j \in Planned :
        /\ Contiguous(items[i]) /\ Contiguous(items[j])
        /\ ~MovesLea(items[j])
        => items[i].return_address \notin Interior(items[j])

\* assign_nop_trampoline gives every NOP to one syscall at most.
NopsAssignedOnce ==
    \A i, j \in Planned :
        /\ i # j
        /\ items[i].uses_nop_trampoline /\ items[j].uses_nop_trampoline
        => items[i].nop_trampoline # items[j].nop_trampoline

\* When activate_patches is through, every syscall that is followed by
\* another instruction has been overwritten.
EverySyscallPatched ==
    phase = "done" =>
        \A k \in 1 .. Len(text) - 1 :
            is_syscall(text[k]) /\ text[k + 1].length # 0
                => text[k].address \in DOMAIN mem

\* Every plan can be carried out: the checks of activate_patches and of
\* create_short_jump never fire, the NOPs chosen are close enough.  The tables
\* filled while sweeping, the patch list included, and the trampoline table
\* are never written past their end.
PlanCanBeActivated ==
    /\ failure \notin {"dst_jmp_patch outside text",
                       "create_short_jump distance check"}
    /\ Len(items) <= items_space
    /\ Len(nop_table) <= max_nop_count
    /\ TRAMPOLINE_SIZE * Len(trampolines) <= TrampolineTableSize

\* The mprotect call of activate_patches covers all bytes that are written,
\* unless text_end is the first byte of a page.
FaultOnlyAtPageStart ==
    phase = "fault" => text_end(text) % PageSize = 0

\* A byte that activate_patches has written is not written again with
\* something else by the activation of a later patch.
WrittenOnce ==
    [][(\A i \in Planned : Contiguous(items[i])
                            /\ ~MovesLeaBefore(items[i]))
         => \A a \in DOMAIN mem : mem'[a] = mem[a]]_mem

\* Hot-patching ends: the text is patched or the process was aborted.
PatchingEnds == <>(phase \in {"done", "aborted", "fault"})

=============================================================================
