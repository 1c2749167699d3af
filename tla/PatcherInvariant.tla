-------------------------- MODULE PatcherInvariant --------------------------
(***************************************************************************)
(* The inductive invariant of Patcher: what the loops of crawl_text and of *)
(* create_patch_wrappers maintain, as it is model-checked and proved.      *)
(***************************************************************************)
EXTENDS Patcher

Decoded(n, ins) ==
    \E k \in 1 .. n - 1 : ins = text[k] /\ text[k].length # 0

\* The instructions that crawl_text remembers come from the text before code.
PrevsDecoded == \A m \in 1 .. 3 : prevs[m] = Unset \/ Decoded(code, prevs[m])

\* The description of a syscall holds instructions of the text.
Described(n, p) ==
    /\ Decoded(n, p.following_ins)
    /\ p.syscall_addr = p.following_ins.address - SYSCALL_INS_SIZE
    /\ p.preceding_ins = Unset \/ Decoded(n, p.preceding_ins)
    /\ p.preceding_ins_2 = Unset \/ Decoded(n, p.preceding_ins_2)

ItemsDescribed ==
    /\ \A i \in 1 .. Len(items) : Described(code, items[i])
    /\ \A i, j \in 1 .. Len(items) :
          i < j => items[i].syscall_addr < items[j].syscall_addr

\* nop_table lists overwritable NOPs of the text, in ascending order.
NopsKnown ==
    /\ \A n \in 1 .. Len(nop_table) :
          \E k \in 1 .. code - 1 :
              /\ is_overwritable_nop(text[k])
              /\ nop_table[n].address = text[k].address
              /\ nop_table[n].size = text[k].length
    /\ \A n, m \in 1 .. Len(nop_table) :
          n < m => nop_table[n].address < nop_table[m].address

\* After the sweep the bitmap holds every destination inside of the text.
MarksComplete ==
    /\ phase # "syms" =>
          \A a \in find_jumps_in_section_syms
                     \cup find_jumps_in_section_rela :
              InText(text, a) => a \in jump_table
    /\ \A k \in 1 .. code - 1 :
          InText(text, text[k].ref) => text[k].ref \in jump_table
    /\ phase \notin {"syms", "crawl"} => code = Len(text) + 1

\* A patch is planned if, and only if, the loop has reached it.
PlanFrontier ==
    /\ phase \in {"syms", "crawl"} => Planned = {}
    /\ phase = "plan" =>
          \A i \in patch_i .. Len(items) : items[i].return_address = NULL

\* An instruction starting at next, merged into patch i with the one before
\* it, is no destination of a jump and not where an earlier patch returns.
Unmarked(i, next) ==
    /\ next \in AllDestinations => ~InText(text, next)
    /\ \A j \in 1 .. i - 1 :
          items[j].return_address = next => ~InText(text, next)

Movable(i, ins, next) ==
    \/ is_lea_rip(ins)
    \/ /\ is_copiable_after_syscall(ins)
       /\ ~is_overwritable_nop(ins)
       /\ Unmarked(i, next)

NopPlan(n, p) ==
    /\ ~p.uses_prev_ins /\ ~p.uses_prev_ins_2 /\ ~p.uses_next_ins
    /\ \E m \in 1 .. n : p.nop_trampoline = nop_table[m]
    /\ p.dst_jmp_patch = p.nop_trampoline.address + SHORT_JUMP_SIZE
    /\ p.return_address = p.syscall_addr + SYSCALL_INS_SIZE

SurroundingsPlan(i, p) ==
    /\ p.uses_prev_ins => Movable(i, p.preceding_ins, p.syscall_addr)
    /\ p.uses_prev_ins_2 =>
          /\ p.uses_prev_ins
          /\ Movable(i, p.preceding_ins_2,
                     p.syscall_addr - p.preceding_ins.length)
    /\ p.uses_next_ins => Movable(i, p.following_ins,
                                  p.syscall_addr + SYSCALL_INS_SIZE)
    /\ p.dst_jmp_patch = p.syscall_addr - bytes_before(p)
    /\ p.return_address = p.syscall_addr + SYSCALL_INS_SIZE + bytes_after(p)

PlansFollowed ==
    /\ \A i \in Planned :
          /\ InText(text, items[i].return_address)
                => items[i].return_address \in jump_table
          /\ IF items[i].uses_nop_trampoline
             THEN NopPlan(next_nop_i, items[i])
             ELSE SurroundingsPlan(i, items[i])
    /\ \A i, j \in Planned :
          i < j /\ items[i].uses_nop_trampoline
                /\ items[j].uses_nop_trampoline
            => items[i].nop_trampoline.address
                 < items[j].nop_trampoline.address

\* What the loops over the text and over desc->items maintain.
PatcherInv ==
    /\ TypeOK
    /\ PrevsDecoded
    /\ ItemsDescribed
    /\ NopsKnown
    /\ MarksComplete
    /\ PlanFrontier
    /\ PlansFollowed
=============================================================================
