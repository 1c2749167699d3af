----------------------------- MODULE PlanProofs -----------------------------
(***************************************************************************)
(* Planning and activating the patches preserves the inductive invariant of *)
(* Patcher.                                                                *)
(***************************************************************************)
EXTENDS SweepProofs, FiniteSetTheorems, WellFoundedInduction

-----------------------------------------------------------------------------
\* A set of natural numbers that is not empty has a least element: what the
\* search for the next NOP in assign_nop_trampoline rests on.
LEMMA LeastElement ==
    ASSUME NEW S, NEW N \in Nat, S \subseteq 0 .. N, S # {}
    PROVE  \E x \in S : \A y \in S : x <= y
<1> DEFINE Below(x) == {y \in S : y < x}
           T == {Below(x) : x \in S}
<1>0. S \subseteq Int
  OBVIOUS
<1>1. IsFiniteSet(S)
  <2>1. IsFiniteSet(0 .. N)
    BY FS_Interval
  <2> QED BY <2>1, FS_Subset, Zenon
<1>2. FiniteSubsetsOf(S) = SUBSET S
  BY <1>1, FS_FiniteSubsetsOfFinite
<1>3. IsWellFoundedOn(StrictSubsetOrdering(S), SUBSET S)
  BY <1>2, FS_StrictSubsetOrderingWellFounded, Zenon
<1>4. T \subseteq SUBSET S /\ T # {}
  BY Zenon
<1>5. \E t \in T : \A u \in T : ~(<<u, t>> \in StrictSubsetOrdering(S))
  <2> HIDE DEF T
  <2> QED BY <1>3, <1>4, WFMin, Zenon
<1>6. PICK x \in S :
         \A y \in S : ~(<<Below(y), Below(x)>> \in StrictSubsetOrdering(S))
  BY <1>5, Zenon
<1>7. ASSUME NEW y \in S, y < x
      PROVE  FALSE
  <2>1. \A z \in S : z < y => z < x
    BY <1>0, <1>7
  <2>2. y \in Below(x) /\ y \notin Below(y)
    BY <1>0, <1>7
  <2>3. <<Below(y), Below(x)>> \in StrictSubsetOrdering(S)
    BY <2>1, <2>2, Zenon DEF StrictSubsetOrdering
  <2> QED BY <1>6, <2>3
<1> QED BY <1>0, <1>7

\* The search of assign_nop_trampoline ends at a NOP that was not passed over
\* before, or behind the last one.
LEMMA NopStop ==
    ASSUME TypeOK, NEW a
    PROVE  nop_stop(a) \in next_nop_i + 1 .. Len(nop_table) + 1
<1> DEFINE stops == {n \in next_nop_i + 1 .. Len(nop_table) :
                        \/ is_nop_in_range(a, nop_table[n])
                        \/ nop_table[n].address > a}
<1>1. Len(nop_table) \in Nat /\ next_nop_i \in 0 .. Len(nop_table)
  BY DEF TypeOK
<1>2. stops \subseteq next_nop_i + 1 .. Len(nop_table)
  OBVIOUS
<1>3. nop_stop(a) = IF stops = {} THEN Len(nop_table) + 1
                    ELSE CHOOSE n \in stops : \A m \in stops : n <= m
  BY DEF nop_stop
<1> HIDE DEF stops
<1>4. CASE stops = {}
  BY <1>1, <1>3, <1>4
<1>5. CASE stops # {}
  <2>1. stops \subseteq 0 .. Len(nop_table)
    BY <1>1, <1>2
  <2>2. \E n \in stops : \A m \in stops : n <= m
    BY <1>1, <1>5, <2>1, LeastElement, Zenon
  <2>3. nop_stop(a) \in stops
    BY SMTT(30), <1>3, <1>5, <2>2
  <2>4. nop_stop(a) \in next_nop_i + 1 .. Len(nop_table)
    BY <1>2, <2>3, Zenon
  <2> QED BY <1>1, <2>4
<1> QED BY <1>4, <1>5

\* The NOPs consumed so far only grow; a found NOP is one of the new ones.
LEMMA NopsConsumed ==
    ASSUME TypeOK, NEW a
    PROVE  /\ nops_consumed(a) \in next_nop_i .. Len(nop_table)
           /\ nop_found(a) => /\ nop_stop(a) \in 1 .. Len(nop_table)
                              /\ nop_stop(a) > next_nop_i
                              /\ nop_stop(a) = nops_consumed(a)
<1>1. Len(nop_table) \in Nat /\ next_nop_i \in 0 .. Len(nop_table)
  BY DEF TypeOK
<1>2. nop_stop(a) \in next_nop_i + 1 .. Len(nop_table) + 1
  BY NopStop
<1>3. nop_found(a) => nop_stop(a) <= Len(nop_table)
  BY DEF nop_found
<1>4. nops_consumed(a) = IF nop_found(a) THEN nop_stop(a) ELSE nop_stop(a) - 1
  BY DEF nops_consumed
<1> QED BY SMTT(30), <1>1, <1>2, <1>3, <1>4

\* check_surrounding_instructions only moves what is no marked destination.
LEMMA UsableIsMovable ==
    ASSUME PatcherInv, phase = "plan", NEW ins, NEW next \in Int,
           patch_i <= Len(items)
    PROVE  /\ uses_before(ins, next) => Movable(patch_i, ins, next)
           /\ uses_after(ins, next) => Movable(patch_i, ins, next)
<1>1. ASSUME ~has_jump(next)
      PROVE  Unmarked(patch_i, next)
  <2>1. CASE ~InText(text, next)
    BY <2>1 DEF Unmarked
  <2>2. CASE InText(text, next)
    <3>1. next \notin jump_table
      BY SMTT(30), <1>1, <2>2 DEF has_jump
    <3>2. next \notin AllDestinations
      BY SMTT(30), <2>2, <3>1 DEF AllDestinations, PatcherInv, MarksComplete, TypeOK
    <3>3. ASSUME NEW j \in 1 .. patch_i - 1, items[j].return_address = next
          PROVE  FALSE
      <4>1. next # NULL
        BY SMTT(30), <2>2, TextFacts DEF PatcherInv, TypeOK, InText, NULL
      <4>2. j \in Planned
        BY SMTT(30), <3>3, <4>1 DEF Planned, PatcherInv, TypeOK
      <4> QED BY SMTT(30), <2>2, <3>1, <3>3, <4>2 DEF PatcherInv, PlansFollowed
    <3> QED BY <3>2, <3>3 DEF Unmarked
  <2> QED BY <2>1, <2>2
<1> QED BY <1>1 DEF uses_before, uses_after, Movable,
                    is_copiable_before_syscall

\* The patch p, planned as q: what with_nop and with_surroundings store.
SameSyscall(p, q) ==
    /\ q \in patch_desc
    /\ q.syscall_addr = p.syscall_addr
    /\ q.preceding_ins_2 = p.preceding_ins_2
    /\ q.preceding_ins = p.preceding_ins
    /\ q.following_ins = p.following_ins

NopFields(p, nop, q) ==
    /\ SameSyscall(p, q)
    /\ q.uses_nop_trampoline = TRUE /\ q.nop_trampoline = nop
    /\ q.uses_prev_ins = FALSE /\ q.uses_prev_ins_2 = FALSE
    /\ q.uses_next_ins = FALSE
    /\ q.dst_jmp_patch = nop.address + SHORT_JUMP_SIZE
    /\ q.return_address = p.syscall_addr + SYSCALL_INS_SIZE

SurroundingsFields(p, q) ==
    /\ SameSyscall(p, q)
    /\ q.uses_nop_trampoline = FALSE
    /\ q.uses_prev_ins <=> uses_before(p.preceding_ins, p.syscall_addr)
    /\ q.uses_prev_ins_2 <=>
          /\ q.uses_prev_ins
          /\ uses_before(p.preceding_ins_2,
                 p.syscall_addr - p.preceding_ins.length)
    /\ q.uses_next_ins <=> uses_after(p.following_ins,
                               p.syscall_addr + SYSCALL_INS_SIZE)
    /\ q.dst_jmp_patch = q.syscall_addr - bytes_before(q)
    /\ q.return_address = q.syscall_addr + SYSCALL_INS_SIZE + bytes_after(q)

\* with_nop, field by field.
LEMMA WithNop ==
    ASSUME NEW p \in patch_desc, NEW nop \in range, NEW w \in Nat
    PROVE  NopFields(p, nop, [with_nop(p, nop) EXCEPT !.asm_wrapper = w])
<1> DEFINE q == [with_nop(p, nop) EXCEPT !.asm_wrapper = w]
<1>1. /\ nop.address + SHORT_JUMP_SIZE \in Int
      /\ p.syscall_addr + SYSCALL_INS_SIZE \in Nat
  BY DEF patch_desc, range, SHORT_JUMP_SIZE, SYSCALL_INS_SIZE
<1>2. q \in patch_desc
  BY <1>1, Zenon DEF with_nop, patch_desc
<1> QED BY <1>2 DEF with_nop, patch_desc, NopFields, SameSyscall

\* with_surroundings, field by field.
LEMMA WithSurroundings ==
    ASSUME NEW p \in patch_desc, NEW w \in Nat
    PROVE  SurroundingsFields(p, [with_surroundings(p)
                                    EXCEPT !.asm_wrapper = w])
<1>0. PICK q : q = [with_surroundings(p) EXCEPT !.asm_wrapper = w]
  BY Zenon
<1>1. PICK c : c = check_surrounding_instructions(p)
  OBVIOUS
<1>2. \A ins, next : uses_before(ins, next) \in BOOLEAN
                       /\ uses_after(ins, next) \in BOOLEAN
  BY DEF uses_before, uses_after
<1>3. c \in patch_desc
  BY <1>1, <1>2, Zenon DEF check_surrounding_instructions, patch_desc
<1>4. /\ c.syscall_addr = p.syscall_addr
      /\ c.preceding_ins_2 = p.preceding_ins_2
      /\ c.preceding_ins = p.preceding_ins
      /\ c.following_ins = p.following_ins
      /\ c.uses_prev_ins = uses_before(p.preceding_ins, p.syscall_addr)
      /\ c.uses_prev_ins_2 = (uses_before(p.preceding_ins, p.syscall_addr)
            /\ uses_before(p.preceding_ins_2,
                   p.syscall_addr - p.preceding_ins.length))
      /\ c.uses_next_ins = uses_after(p.following_ins,
                               p.syscall_addr + SYSCALL_INS_SIZE)
  BY <1>1 DEF check_surrounding_instructions, patch_desc
<1>5. /\ c.preceding_ins.length \in Nat /\ c.preceding_ins_2.length \in Nat
      /\ c.following_ins.length \in Nat
  BY SMTT(30), <1>3 DEF patch_desc, intercept_disasm_result, Unset, MAX_INS_LENGTH
<1>6. bytes_before(c) \in Nat /\ bytes_after(c) \in Nat
  BY <1>5 DEF bytes_before, bytes_after
<1>7. /\ c.syscall_addr - bytes_before(c) \in Int
      /\ c.syscall_addr + SYSCALL_INS_SIZE + bytes_after(c) \in Nat
  BY <1>3, <1>6 DEF patch_desc, SYSCALL_INS_SIZE
<1>8. q = [[c EXCEPT !.uses_nop_trampoline = FALSE,
                     !.dst_jmp_patch = c.syscall_addr - bytes_before(c),
                     !.return_address = c.syscall_addr + SYSCALL_INS_SIZE
                                          + bytes_after(c)]
             EXCEPT !.asm_wrapper = w]
  BY SMTT(30), <1>0, <1>1 DEF with_surroundings
<1>9. q \in patch_desc
  BY <1>3, <1>7, <1>8, Zenon DEF patch_desc
<1>10. /\ q.syscall_addr = c.syscall_addr
       /\ q.preceding_ins_2 = c.preceding_ins_2
       /\ q.preceding_ins = c.preceding_ins
       /\ q.following_ins = c.following_ins
       /\ q.uses_nop_trampoline = FALSE
       /\ q.uses_prev_ins = c.uses_prev_ins
       /\ q.uses_prev_ins_2 = c.uses_prev_ins_2
       /\ q.uses_next_ins = c.uses_next_ins
       /\ q.dst_jmp_patch = c.syscall_addr - bytes_before(c)
       /\ q.return_address =
             c.syscall_addr + SYSCALL_INS_SIZE + bytes_after(c)
  BY SMTT(30), <1>3, <1>8 DEF patch_desc
<1>11. bytes_before(q) = bytes_before(c) /\ bytes_after(q) = bytes_after(c)
  BY <1>10 DEF bytes_before, bytes_after
<1>12. SurroundingsFields(p, q)
  BY <1>4, <1>9, <1>10, <1>11, Zenon DEF SurroundingsFields, SameSyscall
<1> QED BY <1>0, <1>12

\* The fields of a patch description that are lengths, and its wrapper's size.
LEMMA WrapperSize ==
    ASSUME NEW q \in patch_desc
    PROVE  wrapper_size(q) \in Nat
<1>1. \A ins \in intercept_disasm_result \cup {Unset} : ins.length \in Nat
  BY DEF intercept_disasm_result, Unset, MAX_INS_LENGTH
<1>2. /\ q.preceding_ins.length \in Nat /\ q.preceding_ins_2.length \in Nat
      /\ q.following_ins.length \in Nat
  BY SMTT(30), <1>1 DEF patch_desc
<1>3. /\ relocated_size(q.preceding_ins) \in Nat
      /\ relocated_size(q.preceding_ins_2) \in Nat
      /\ relocated_size(q.following_ins) \in Nat
  BY SMTT(30), <1>2 DEF relocated_size, MOVABS_SIZE
<1> QED BY SMTT(30), <1>3, PatcherAssumption DEF wrapper_size, TRAMPOLINE_SIZE

\* A step that plans the patch i, storing it as q.
PlanStep(i, q) ==
    /\ phase = "plan" /\ i = patch_i /\ i <= Len(items)
    /\ q \in patch_desc /\ FinishPlan(q)
    /\ next_nop_i' \in next_nop_i .. Len(nop_table)
    /\ UNCHANGED <<text, symtab, relatab, nop_table, code, prevs, has_prevs,
                   items_space, uses_trampoline_table, trampolines, writable,
                   mem>>
    /\ q.syscall_addr = items[i].syscall_addr
    /\ q.preceding_ins_2 = items[i].preceding_ins_2
    /\ q.preceding_ins = items[i].preceding_ins
    /\ q.following_ins = items[i].following_ins
    /\ q.return_address # NULL
    /\ IF q.uses_nop_trampoline
       THEN /\ next_nop_i' > next_nop_i
            /\ q.nop_trampoline = nop_table[next_nop_i']
            /\ NopPlan(next_nop_i', q)
       ELSE SurroundingsPlan(i, q)

\* Planning one more patch extends what PlansFollowed says to that patch.
LEMMA PlanStepInv ==
    ASSUME PatcherInv, NEW c, NEW q, PlanStep(c, q)
    PROVE  PatcherInv'
<1>1. /\ c \in 1 .. Len(items) /\ Len(items) \in Nat
      /\ items \in Seq(patch_desc)
      /\ patch_i = c /\ patch_i' = c + 1 /\ phase = "plan" /\ phase' = "plan"
      /\ text' = text /\ code' = code /\ nop_table' = nop_table
      /\ symtab' = symtab /\ relatab' = relatab /\ prevs' = prevs
      /\ q \in patch_desc
  BY DEF PatcherInv, TypeOK, FinishPlan, PlanStep
<1>2. /\ items' \in Seq(patch_desc) /\ Len(items') = Len(items)
      /\ items'[c] = q
      /\ \A i \in 1 .. Len(items) : i # c => items'[i] = items[i]
  <2>1. items' = [items EXCEPT ![c] = q]
    BY DEF PlanStep, FinishPlan
  <2> QED BY SMTT(30), <1>1, <2>1
<1>3. /\ jump_table' \subseteq {a \in Nat : InText(text, a)}
      /\ jump_table \subseteq jump_table'
      /\ InText(text, q.return_address) => q.return_address \in jump_table'
  <2>1. jump_table \subseteq {a \in Nat : InText(text, a)}
    BY SMTT(30) DEF PatcherInv, TypeOK
  <2>2. jump_table' = mark_jump({q.return_address})
    BY DEF PlanStep, FinishPlan, marked_return
  <2>3. q.return_address \in Nat
    BY <1>1 DEF patch_desc
  <2> QED BY SMTT(30), <2>1, <2>2, <2>3, MarkJump
<1>4. Planned \subseteq 1 .. c - 1
  <2>1. \A i \in c .. Len(items) : items[i].return_address = NULL
    BY <1>1 DEF PatcherInv, PlanFrontier
  <2> QED BY SMTT(30), <1>1, <2>1 DEF Planned
<1>5. Planned' = Planned \cup {c}
  <2>1. q.return_address # NULL
    BY SMTT(30) DEF PlanStep
  <2> QED BY SMTT(30), <1>1, <1>2, <1>4, <2>1 DEF Planned
<1>6. TypeOK'
  <2>1. next_asm_wrapper_space' \in Nat
    <3>1. wrapper_size(q) \in Nat
      BY <1>1, WrapperSize
    <3>2. next_asm_wrapper_space' = next_asm_wrapper_space + wrapper_size(q)
      BY SMTT(30) DEF PlanStep, FinishPlan, create_wrapper
    <3> QED BY SMTT(30), <3>1, <3>2 DEF PatcherInv, TypeOK
  <2>2. next_nop_i' \in 0 .. Len(nop_table')
    BY SMTT(30) DEF PlanStep, PatcherInv, TypeOK
  <2>3. /\ has_prevs' = has_prevs /\ items_space' = items_space
        /\ uses_trampoline_table' = uses_trampoline_table
        /\ writable' = writable
    BY DEF PlanStep
  <2>4. patch_i' \in 1 .. Len(items') + 1
    BY SMTT(30), <1>1, <1>2
  <2> QED BY SMTT(30), <1>1, <1>2, <1>3, <2>1, <2>2, <2>3, <2>4 DEF PatcherInv, TypeOK
<1>7. PrevsDecoded' /\ NopsKnown'
  <2>1. UNCHANGED <<text, code, prevs, nop_table>>
    BY SMTT(30) DEF PlanStep
  <2>2. PrevsDecoded'
    BY <2>1 DEF PatcherInv, PrevsDecoded, Decoded
  <2> QED BY SMTT(30), <2>1, <2>2 DEF PatcherInv, NopsKnown
<1>8. ItemsDescribed'
  <2>1. \A i \in 1 .. Len(items) :
           /\ items'[i].syscall_addr = items[i].syscall_addr
           /\ items'[i].preceding_ins_2 = items[i].preceding_ins_2
           /\ items'[i].preceding_ins = items[i].preceding_ins
           /\ items'[i].following_ins = items[i].following_ins
    BY SMTT(30), <1>1, <1>2 DEF PlanStep
  <2>2. UNCHANGED <<text, code>> /\ Len(items') = Len(items)
    BY SMTT(30), <1>1, <1>2 DEF PlanStep
  <2>3. ASSUME NEW i \in 1 .. Len(items)
        PROVE  Described(code, items[i])'
    <3>1. Described(code, items[i])
      BY SMTT(30) DEF PatcherInv, ItemsDescribed
    <3> QED BY <2>1, <2>2, <3>1 DEF Described, Decoded
  <2>4. \A i, j \in 1 .. Len(items) :
           i < j => items'[i].syscall_addr < items'[j].syscall_addr
    BY <2>1 DEF PatcherInv, ItemsDescribed
  <2> QED BY SMTT(30), <2>2, <2>3, <2>4 DEF ItemsDescribed
<1>9. MarksComplete'
  BY <1>1, <1>3, Zenon DEF PatcherInv, MarksComplete, find_jumps_in_section_syms,
                    find_jumps_in_section_rela
<1>10. PlanFrontier'
  <2>1. \A i \in c + 1 .. Len(items) : items'[i].return_address = NULL
    BY SMTT(30), <1>1, <1>2 DEF PatcherInv, PlanFrontier
  <2> QED BY SMTT(30), <1>1, <1>2, <2>1 DEF PlanFrontier
<1>11. PlansFollowed'
  <2>1. AllDestinations' = AllDestinations
    BY <1>1 DEF AllDestinations, find_jumps_in_section_syms,
                find_jumps_in_section_rela
  <2>2. ASSUME NEW i \in 1 .. c, NEW ins, NEW next
        PROVE  Movable(i, ins, next) => Movable(i, ins, next)'
    <3>1. \A j \in 1 .. i - 1 : items'[j] = items[j]
      BY SMTT(30), <1>1, <1>2
    <3> QED BY SMTT(30), <1>1, <2>1, <3>1 DEF Movable, Unmarked
  <2>3. ASSUME NEW i \in 1 .. c, NEW p
        PROVE  SurroundingsPlan(i, p) => SurroundingsPlan(i, p)'
    BY SMTT(30), <2>2 DEF SurroundingsPlan
  <2>4. ASSUME NEW p
        PROVE  /\ NopPlan(next_nop_i, p) => NopPlan(next_nop_i, p)'
               /\ NopPlan(next_nop_i', p) => NopPlan(next_nop_i, p)'
    <3>1. next_nop_i \in Nat /\ next_nop_i' \in Nat
            /\ next_nop_i <= next_nop_i'
      BY DEF PlanStep, PatcherInv, TypeOK
    <3> QED BY SMTT(30), <1>1, <3>1 DEF NopPlan
  <2>5. ASSUME NEW i \in Planned', NEW p, p = items'[i]
        PROVE  /\ InText(text', p.return_address)
                     => p.return_address \in jump_table'
               /\ IF p.uses_nop_trampoline
                  THEN NopPlan(next_nop_i, p)' ELSE SurroundingsPlan(i, p)'
    <3>1. CASE i = c
      <4>1. p = q /\ i \in 1 .. c
        BY SMTT(30), <1>1, <1>2, <2>5, <3>1
      <4>2. IF q.uses_nop_trampoline
            THEN NopPlan(next_nop_i', q) ELSE SurroundingsPlan(c, q)
        BY DEF PlanStep
      <4> QED BY SMTT(30), <1>1, <1>3, <2>3, <2>4, <3>1, <4>1, <4>2
    <3>2. CASE i # c
      <4>1. i \in Planned /\ i \in 1 .. c /\ p = items[i]
        BY SMTT(30), <1>1, <1>2, <1>4, <1>5, <2>5, <3>2
      <4>2. /\ InText(text, p.return_address)
                  => p.return_address \in jump_table
            /\ IF p.uses_nop_trampoline
               THEN NopPlan(next_nop_i, p) ELSE SurroundingsPlan(i, p)
        BY <4>1 DEF PatcherInv, PlansFollowed
      <4> QED BY <1>1, <1>3, <2>3, <2>4, <4>1, <4>2, Zenon
    <3> QED BY SMTT(30), <3>1, <3>2
  <2>6. ASSUME NEW i \in Planned', NEW j \in Planned', i < j,
               items'[i].uses_nop_trampoline, items'[j].uses_nop_trampoline
        PROVE  items'[i].nop_trampoline.address
                 < items'[j].nop_trampoline.address
    <3>1. CASE j = c
      <4>1. i \in Planned /\ items'[i] = items[i] /\ items'[j] = q
        BY SMTT(30), <1>1, <1>2, <1>4, <1>5, <2>6, <3>1
      <4>2. PICK n \in 1 .. next_nop_i : items[i].nop_trampoline = nop_table[n]
        BY SMTT(30), <2>6, <4>1 DEF PatcherInv, PlansFollowed, NopPlan
      <4>3. /\ q.nop_trampoline = nop_table[next_nop_i']
            /\ next_nop_i' > next_nop_i
            /\ next_nop_i' \in next_nop_i .. Len(nop_table)
        BY SMTT(30), <2>6, <4>1 DEF PlanStep
      <4>4. /\ n < next_nop_i' /\ n \in 1 .. Len(nop_table)
            /\ next_nop_i' \in 1 .. Len(nop_table)
        BY SMTT(30), <4>3 DEF PatcherInv, TypeOK
      <4> QED BY SMTT(30), <4>1, <4>2, <4>3, <4>4 DEF PatcherInv, NopsKnown
    <3>2. CASE j # c
      <4>1. /\ i \in Planned /\ j \in Planned
            /\ items'[i] = items[i] /\ items'[j] = items[j]
        BY SMTT(30), <1>1, <1>2, <1>4, <1>5, <2>6, <3>2
      <4> QED BY SMTT(30), <2>6, <4>1 DEF PatcherInv, PlansFollowed
    <3> QED BY SMTT(30), <3>1, <3>2
  <2> QED BY <2>5, <2>6 DEF PlansFollowed
<1> QED BY SMTT(30), <1>6, <1>7, <1>8, <1>9, <1>10, <1>11 DEF PatcherInv

\* A NOP was found: the 5 byte jump goes there.
LEMMA PlanNopStep ==
    ASSUME PatcherInv, PlanPatch, NEW p, p = items[patch_i],
           nop_found(p.syscall_addr),
           NEW q, q = [with_nop(p, nop_table[nop_stop(p.syscall_addr)])
                         EXCEPT !.asm_wrapper = next_asm_wrapper_space]
    PROVE  PlanStep(patch_i, q)
<1>1. /\ phase = "plan" /\ patch_i \in 1 .. Len(items)
      /\ next_asm_wrapper_space \in Nat /\ p \in patch_desc /\ TypeOK
      /\ nop_table \in Seq(range)
  <2>1. /\ phase = "plan" /\ patch_i <= Len(items)
    BY DEF PlanPatch
  <2>2. /\ items \in Seq(patch_desc) /\ patch_i \in 1 .. Len(items) + 1
        /\ next_asm_wrapper_space \in Nat /\ nop_table \in Seq(range)
        /\ TypeOK
    BY SMTT(30) DEF PatcherInv, TypeOK
  <2> QED BY SMTT(30), <2>1, <2>2
<1>2. PICK n : n = nop_stop(p.syscall_addr)
  OBVIOUS
<1>3. /\ n \in 1 .. Len(nop_table) /\ n > next_nop_i
      /\ n = nops_consumed(p.syscall_addr)
  BY <1>1, <1>2, NopsConsumed
<1>4. nop_table[n] \in range
  BY <1>1, <1>3
<1>5. next_nop_i' = n
  BY <1>3 DEF PlanPatch
<1>6. NopFields(p, nop_table[n], q)
  BY SMTT(30), <1>1, <1>2, <1>4, WithNop
<1>7. q.return_address # NULL
  BY SMTT(30), <1>1, <1>6 DEF patch_desc, SYSCALL_INS_SIZE, NULL, NopFields
<1>8. FinishPlan(q)
  <2>1. with_nop(p, nop_table[n]).uses_nop_trampoline = TRUE
    BY <1>1 DEF with_nop, patch_desc
  <2> QED BY <1>2, <2>1 DEF PlanPatch
<1>9. NopPlan(n, q)
  <2>1. n \in 1 .. n
    BY <1>1, <1>3
  <2>2. /\ q.uses_prev_ins = FALSE /\ q.uses_prev_ins_2 = FALSE
        /\ q.uses_next_ins = FALSE
        /\ q.nop_trampoline = nop_table[n]
        /\ q.dst_jmp_patch = nop_table[n].address + SHORT_JUMP_SIZE
        /\ q.return_address = q.syscall_addr + SYSCALL_INS_SIZE
    BY <1>6, Zenon DEF NopFields, SameSyscall
  <2> QED BY <2>1, <2>2, Zenon DEF NopPlan
<1>10. next_nop_i' \in next_nop_i .. Len(nop_table) /\ next_nop_i' > next_nop_i
  BY SMTT(30), <1>3, <1>5, <1>1 DEF TypeOK
<1>11. UNCHANGED <<text, symtab, relatab, nop_table, code, prevs, has_prevs,
                   items_space, uses_trampoline_table, trampolines, writable,
                   mem>>
  BY ZenonT(60) DEF PlanPatch
<1>12. /\ q \in patch_desc /\ q.uses_nop_trampoline = TRUE
       /\ q.nop_trampoline = nop_table[next_nop_i']
       /\ q.syscall_addr = items[patch_i].syscall_addr
       /\ q.preceding_ins_2 = items[patch_i].preceding_ins_2
       /\ q.preceding_ins = items[patch_i].preceding_ins
       /\ q.following_ins = items[patch_i].following_ins
  BY <1>5, <1>6 DEF NopFields, SameSyscall
<1>13. NopPlan(next_nop_i', q)
  BY SMTT(30), <1>5, <1>9
<1>14. phase = "plan" /\ patch_i <= Len(items)
  BY DEF PlanPatch
<1> QED BY SMTT(30), <1>7, <1>8, <1>10, <1>11, <1>12, <1>13, <1>14 DEF PlanStep

\* No NOP is near: the 5 byte jump covers the syscall and its neighbours.
LEMMA PlanSurroundingsStep ==
    ASSUME PatcherInv, PlanPatch, NEW p, p = items[patch_i],
           NEW q, q = [with_surroundings(p)
                         EXCEPT !.asm_wrapper = next_asm_wrapper_space],
           FinishPlan(q)
    PROVE  PlanStep(patch_i, q)
<1>1. /\ phase = "plan" /\ patch_i \in 1 .. Len(items)
      /\ next_asm_wrapper_space \in Nat /\ p \in patch_desc /\ TypeOK
  <2>1. /\ phase = "plan" /\ patch_i <= Len(items)
    BY DEF PlanPatch
  <2>2. /\ items \in Seq(patch_desc) /\ patch_i \in 1 .. Len(items) + 1
        /\ next_asm_wrapper_space \in Nat /\ TypeOK
    BY SMTT(30) DEF PatcherInv, TypeOK
  <2> QED BY SMTT(30), <2>1, <2>2
<1>2. SurroundingsFields(p, q)
  BY <1>1, WithSurroundings
<1>3. /\ p.syscall_addr \in Nat
      /\ p.preceding_ins.length \in Nat /\ p.following_ins.length \in Nat
  <2>1. \A ins \in intercept_disasm_result \cup {Unset} : ins.length \in Nat
    BY DEF intercept_disasm_result, Unset, MAX_INS_LENGTH
  <2> QED BY <1>1, <2>1 DEF patch_desc
<1>4. q.return_address # NULL
  BY <1>2, <1>3 DEF bytes_after, SYSCALL_INS_SIZE, NULL,
                    SurroundingsFields, SameSyscall
<1>5. /\ p.syscall_addr \in Int
      /\ p.syscall_addr - p.preceding_ins.length \in Int
      /\ p.syscall_addr + SYSCALL_INS_SIZE \in Int
  BY SMTT(30), <1>3 DEF SYSCALL_INS_SIZE
<1>6. SurroundingsPlan(patch_i, q)
  <2>1. q.uses_prev_ins => Movable(patch_i, q.preceding_ins, q.syscall_addr)
    BY SMTT(30), <1>1, <1>2, <1>5, UsableIsMovable DEF SurroundingsFields, SameSyscall
  <2>2. q.uses_prev_ins_2 =>
           Movable(patch_i, q.preceding_ins_2,
                   q.syscall_addr - q.preceding_ins.length)
    BY SMTT(30), <1>1, <1>2, <1>5, UsableIsMovable DEF SurroundingsFields, SameSyscall
  <2>3. q.uses_next_ins =>
           Movable(patch_i, q.following_ins, q.syscall_addr + SYSCALL_INS_SIZE)
    BY SMTT(30), <1>1, <1>2, <1>5, UsableIsMovable DEF SurroundingsFields, SameSyscall
  <2> QED BY SMTT(30), <1>2, <2>1, <2>2, <2>3 DEF SurroundingsPlan,
             SurroundingsFields, SameSyscall
<1>7. next_nop_i' \in next_nop_i .. Len(nop_table)
  BY ZenonT(60), <1>1, NopsConsumed DEF PlanPatch
<1>8. UNCHANGED <<text, symtab, relatab, nop_table, code, prevs, has_prevs,
                  items_space, uses_trampoline_table, trampolines, writable,
                  mem>>
  BY DEF PlanPatch
<1> QED BY SMTT(30), <1>1, <1>2, <1>4, <1>6, <1>7, <1>8
        DEF PlanStep, SurroundingsFields, SameSyscall

\* One iteration of create_patch_wrappers preserves the invariant, whichever
\* way the syscall is patched, and also when it gives up.
LEMMA PlanPatchInv ==
    ASSUME PatcherInv, PlanPatch
    PROVE  PatcherInv'
<1>1. PICK p : p = items[patch_i]
  OBVIOUS
<1>2. CASE nop_found(p.syscall_addr)
  <2>1. PICK q : q = [with_nop(p, nop_table[nop_stop(p.syscall_addr)])
                        EXCEPT !.asm_wrapper = next_asm_wrapper_space]
    BY Zenon
  <2>2. PlanStep(patch_i, q)
    BY SMTT(30), <1>1, <1>2, <2>1, PlanNopStep
  <2> QED BY <2>2, PlanStepInv
<1>3. CASE ~nop_found(p.syscall_addr)
  <2>1. PICK q : q = [with_surroundings(p)
                        EXCEPT !.asm_wrapper = next_asm_wrapper_space]
    BY Zenon
  <2>2. CASE FinishPlan(q)
    <3>1. PlanStep(patch_i, q)
      BY <1>1, <2>1, <2>2, PlanSurroundingsStep
    <3> QED BY <3>1, PlanStepInv
  <2>3. CASE /\ xabort("not enough space for patching around syscal")
             /\ UNCHANGED <<jump_table, wrappers, items, patch_i,
                            next_asm_wrapper_space>>
    <3>1. /\ phase = "plan" /\ phase' = "aborted" /\ items' = items
          /\ jump_table' = jump_table /\ text' = text /\ code' = code
          /\ nop_table' = nop_table /\ symtab' = symtab /\ relatab' = relatab
          /\ prevs' = prevs /\ patch_i' = patch_i
          /\ next_asm_wrapper_space' = next_asm_wrapper_space
          /\ has_prevs' = has_prevs /\ items_space' = items_space
          /\ uses_trampoline_table' = uses_trampoline_table
          /\ writable' = writable
      BY ZenonT(60), <2>3 DEF PlanPatch, xabort
    <3>2. next_nop_i' \in next_nop_i .. Len(nop_table)
      BY <1>1, NopsConsumed DEF PlanPatch, PatcherInv
    <3>3. next_nop_i \in Nat /\ next_nop_i' \in Nat
            /\ next_nop_i <= next_nop_i' /\ next_nop_i' <= Len(nop_table)
      BY <3>2 DEF PatcherInv, TypeOK
    <3>4. TypeOK'
      BY SMTT(30), <3>1, <3>3 DEF PatcherInv, TypeOK, Phases
    <3>5. PrevsDecoded' /\ ItemsDescribed' /\ NopsKnown'
      BY SMTT(30), <3>1 DEF PatcherInv, PrevsDecoded, ItemsDescribed, Described,
                  Decoded, NopsKnown
    <3>6. MarksComplete' /\ PlanFrontier'
      BY SMTT(30), <3>1 DEF PatcherInv, MarksComplete, PlanFrontier,
                  find_jumps_in_section_syms, find_jumps_in_section_rela
    <3>7. PlansFollowed'
      <4>1. AllDestinations' = AllDestinations /\ Planned' = Planned
        BY <3>1 DEF AllDestinations, find_jumps_in_section_syms,
                    find_jumps_in_section_rela, Planned
      <4>2. ASSUME NEW r
            PROVE  NopPlan(next_nop_i, r) => NopPlan(next_nop_i, r)'
        BY SMTT(30), <3>1, <3>3 DEF NopPlan
      <4>3. ASSUME NEW i, NEW r
            PROVE  SurroundingsPlan(i, r) => SurroundingsPlan(i, r)'
        BY <3>1, <4>1 DEF SurroundingsPlan, Movable, Unmarked
      <4> QED BY SMTT(30), <3>1, <4>1, <4>2, <4>3 DEF PatcherInv, PlansFollowed
    <3> QED BY SMTT(30), <3>4, <3>5, <3>6, <3>7 DEF PatcherInv
  <2> QED BY <1>1, <1>3, <2>1, <2>2, <2>3 DEF PlanPatch
<1> QED BY <1>2, <1>3

\* round_down_address stays among the addresses.
LEMMA RoundDown ==
    ASSUME NEW a \in Nat
    PROVE  round_down_address(a) \in Nat
<1>1. PageSize \in Nat \ {0}
  BY PatcherAssumption
<1>2. a \div PageSize \in Nat
  BY <1>1
<1>3. \A x, y \in Nat : x * y \in Nat
  OBVIOUS
<1> QED BY <1>1, <1>2, <1>3 DEF round_down_address

\* Planning is over: what it recorded does not change any more.
LEMMA ActivationInv ==
    ASSUME PatcherInv, phase \notin {"syms", "crawl"},
           phase' \in Phases \ {"syms", "crawl", "plan"},
           UNCHANGED <<crawlVars, next_nop_i, next_asm_wrapper_space,
                       uses_trampoline_table>>,
           patch_i' \in 1 .. Len(items) + 1, writable' \in Nat
    PROVE  PatcherInv'
<1>1. UNCHANGED crawlVars /\ UNCHANGED next_nop_i
  OBVIOUS
<1>2. PrevsDecoded' /\ ItemsDescribed' /\ NopsKnown' /\ PlansFollowed'
  BY <1>1, Untouched
<1>3. TypeOK'
  BY SMTT(30) DEF PatcherInv, TypeOK, crawlVars
<1>4. MarksComplete' /\ PlanFrontier'
  BY DEF PatcherInv, MarksComplete, PlanFrontier, crawlVars,
         find_jumps_in_section_syms, find_jumps_in_section_rela
<1> QED BY <1>2, <1>3, <1>4 DEF PatcherInv
=============================================================================
