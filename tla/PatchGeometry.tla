--------------------------- MODULE PatchGeometry ---------------------------
(***************************************************************************)
(* What Patcher's invariant says about the bytes of the patches: no two of *)
(* them share one, and no jump and no return lands inside of one.          *)
(***************************************************************************)
EXTENDS SweepProofs

-----------------------------------------------------------------------------
(***************************************************************************)
(* No two patches share a byte, and nobody jumps into the middle of one.   *)
(***************************************************************************)

\* The instruction k of the text is overwritten by the patch p.
Part(p, k) ==
    \/ text[k].address = p.syscall_addr
    \/ p.uses_prev_ins /\ text[k] = p.preceding_ins
    \/ p.uses_prev_ins_2 /\ text[k] = p.preceding_ins_2
    \/ p.uses_next_ins /\ text[k] = p.following_ins
    \/ p.uses_nop_trampoline /\ text[k].address = p.nop_trampoline.address

\* Where the instructions of a planned patch are.
Layout(p) ==
    /\ p.syscall_addr \in Nat /\ p.dst_jmp_patch \in Int
    /\ p.return_address \in Nat /\ p.nop_trampoline.address \in Nat
    /\ \E k \in 1 .. Len(text) :
          /\ text[k].address = p.syscall_addr /\ is_syscall(text[k])
          /\ End(text[k]) = p.syscall_addr + 2
    /\ p.following_ins.length \in Nat
    /\ p.preceding_ins.length \in Nat
    /\ p.preceding_ins_2.length \in Nat
    /\ \E k \in 1 .. Len(text) :
          /\ text[k] = p.following_ins
          /\ text[k].address = p.syscall_addr + 2
          /\ End(text[k]) = text[k].address + p.following_ins.length
    /\ p.uses_prev_ins =>
          \E k \in 1 .. Len(text) :
             /\ text[k] = p.preceding_ins
             /\ text[k].address = p.syscall_addr - p.preceding_ins.length
             /\ End(text[k]) = p.syscall_addr
    /\ p.uses_prev_ins_2 =>
          \E k \in 1 .. Len(text) :
             /\ text[k] = p.preceding_ins_2
             /\ text[k].address = p.syscall_addr - p.preceding_ins.length
                                    - p.preceding_ins_2.length
             /\ End(text[k]) = p.syscall_addr - p.preceding_ins.length
    /\ p.uses_nop_trampoline =>
          \E k \in 1 .. Len(text) :
             /\ is_overwritable_nop(text[k])
             /\ text[k].address = p.nop_trampoline.address
             /\ End(text[k]) \in Nat /\ End(text[k]) >= text[k].address + 7

\* A planned patch without undecodable bytes in it is made of instructions of
\* the text, next to each other.
LEMMA PatchLayout ==
    ASSUME PatcherInv, NEW i \in Planned, NEW p, p = items[i], Contiguous(p)
    PROVE  Layout(p)
<1>1. /\ items \in Seq(patch_desc) /\ i \in 1 .. Len(items)
      /\ text \in Seq(intercept_disasm_result) /\ TextOK(text)
      /\ Len(text) \in Nat /\ code \in 1 .. Len(text) + 1
      /\ next_nop_i \in 0 .. Len(nop_table)
  BY DEF PatcherInv, TypeOK, Planned
<1>2. p \in patch_desc
  BY <1>1
<1>3. Described(code, p)
  BY <1>1 DEF PatcherInv, ItemsDescribed
<1>4. IF p.uses_nop_trampoline
      THEN NopPlan(next_nop_i, p) ELSE SurroundingsPlan(i, p)
  BY DEF PatcherInv, PlansFollowed
<1>5. \A k \in 1 .. Len(text) :
         /\ InsOK(text[k])
         /\ text[k].address \in Nat /\ text[k].length \in Nat
         /\ text[k].length # 0 => End(text[k]) = text[k].address + text[k].length
         /\ is_syscall(text[k]) => End(text[k]) = text[k].address + 2
  <2> SUFFICES ASSUME NEW k \in 1 .. Len(text)
               PROVE  /\ InsOK(text[k])
                      /\ text[k].address \in Nat /\ text[k].length \in Nat
                      /\ text[k].length # 0
                            => End(text[k]) = text[k].address + text[k].length
                      /\ is_syscall(text[k])
                            => End(text[k]) = text[k].address + 2
    OBVIOUS
  <2>1. InsOK(text[k])
    BY <1>1, TextFacts
  <2> QED BY SMTT(30), <2>1, InsFacts DEF SYSCALL_INS_SIZE
<1>6. \A ins \in intercept_disasm_result \cup {Unset} : ins.length \in Nat
  BY DEF intercept_disasm_result, Unset, MAX_INS_LENGTH
<1>7. /\ p.syscall_addr \in Nat /\ p.dst_jmp_patch \in Int
      /\ p.return_address \in Nat /\ p.nop_trampoline.address \in Nat
      /\ p.following_ins.length \in Nat
      /\ p.preceding_ins.length \in Nat
      /\ p.preceding_ins_2.length \in Nat
  <2>1. /\ p.nop_trampoline \in range /\ p.syscall_addr \in Nat
        /\ p.dst_jmp_patch \in Int /\ p.return_address \in Nat
    BY <1>2 DEF patch_desc
  <2>2. /\ p.following_ins.length \in Nat
        /\ p.preceding_ins.length \in Nat
        /\ p.preceding_ins_2.length \in Nat
    BY <1>2, <1>6 DEF patch_desc
  <2> QED BY <2>1, <2>2 DEF range
<1>8. \E k \in 1 .. Len(text) :
         /\ text[k].address = p.syscall_addr /\ is_syscall(text[k])
         /\ End(text[k]) = p.syscall_addr + 2
  BY <1>5 DEF Contiguous
<1>9. \E k \in 1 .. Len(text) :
         /\ text[k] = p.following_ins
         /\ text[k].address = p.syscall_addr + 2
         /\ End(text[k]) = text[k].address + p.following_ins.length
  <2>1. PICK k \in 1 .. code - 1 : p.following_ins = text[k] /\ text[k].length # 0
    BY <1>3 DEF Described, Decoded
  <2>2. p.syscall_addr = text[k].address - 2
    BY <1>3, <2>1 DEF Described, SYSCALL_INS_SIZE
  <2>3. k \in 1 .. Len(text)
    BY <1>1
  <2> QED BY <1>5, <2>1, <2>2, <2>3
<1>10. \A ins : is_set(ins) => ins # Unset
  BY DEF is_set, Unset
<1>11. \A m, ins, next : Movable(m, ins, next) => is_set(ins)
  BY DEF Movable, is_copiable_after_syscall, is_lea_rip, is_set
<1>12. ASSUME p.uses_prev_ins
       PROVE  \E k \in 1 .. Len(text) :
                 /\ text[k] = p.preceding_ins
                 /\ text[k].address = p.syscall_addr - p.preceding_ins.length
                 /\ End(text[k]) = p.syscall_addr
  <2>1. is_set(p.preceding_ins)
    BY <1>4, <1>11, <1>12 DEF NopPlan, SurroundingsPlan
  <2>2. PICK k \in 1 .. code - 1 : p.preceding_ins = text[k] /\ text[k].length # 0
    BY <1>3, <1>10, <2>1 DEF Described, Decoded
  <2>3. End(text[k]) = p.syscall_addr
    BY SMTT(30), <2>1, <2>2 DEF Contiguous
  <2>4. k \in 1 .. Len(text)
    BY <1>1
  <2>5. End(text[k]) = text[k].address + text[k].length
    BY <1>5, <2>2, <2>4
  <2>6. text[k].address = p.syscall_addr - p.preceding_ins.length
    BY SMTT(30), <1>5, <1>7, <2>2, <2>3, <2>4, <2>5
  <2> QED BY <2>2, <2>3, <2>4, <2>6
<1>13. ASSUME p.uses_prev_ins_2
       PROVE  \E k \in 1 .. Len(text) :
                 /\ text[k] = p.preceding_ins_2
                 /\ text[k].address = p.syscall_addr - p.preceding_ins.length
                                        - p.preceding_ins_2.length
                 /\ End(text[k]) = p.syscall_addr - p.preceding_ins.length
  <2>1. is_set(p.preceding_ins_2) /\ p.uses_prev_ins
    BY <1>4, <1>11, <1>13 DEF NopPlan, SurroundingsPlan
  <2>2. PICK k \in 1 .. code - 1 :
           p.preceding_ins_2 = text[k] /\ text[k].length # 0
    BY <1>3, <1>10, <2>1 DEF Described, Decoded
  <2>3. PICK b \in 1 .. Len(text) :
           /\ text[b] = p.preceding_ins
           /\ text[b].address = p.syscall_addr - p.preceding_ins.length
    BY <1>12, <2>1
  <2>4. End(text[k]) = text[b].address
    BY <2>1, <2>2, <2>3 DEF Contiguous
  <2>5. k \in 1 .. Len(text)
    BY <1>1
  <2>6. End(text[k]) = text[k].address + text[k].length
    BY SMTT(30), <1>5, <2>2, <2>5
  <2>7. text[k].address = p.syscall_addr - p.preceding_ins.length
                            - p.preceding_ins_2.length
    BY SMTT(30), <1>5, <1>7, <2>2, <2>3, <2>4, <2>5, <2>6
  <2> QED BY <2>2, <2>3, <2>4, <2>5, <2>7
<1>14. ASSUME p.uses_nop_trampoline
       PROVE  \E k \in 1 .. Len(text) :
                 /\ is_overwritable_nop(text[k])
                 /\ text[k].address = p.nop_trampoline.address
                 /\ End(text[k]) \in Nat /\ End(text[k]) >= text[k].address + 7
  <2>1. PICK n \in 1 .. next_nop_i : p.nop_trampoline = nop_table[n]
    BY <1>4, <1>14 DEF NopPlan
  <2>2. n \in 1 .. Len(nop_table)
    BY <1>1
  <2>3. PICK k \in 1 .. code - 1 :
           /\ is_overwritable_nop(text[k])
           /\ nop_table[n].address = text[k].address
    BY <2>2 DEF PatcherInv, NopsKnown
  <2>4. k \in 1 .. Len(text) /\ text[k].length >= 7
    BY SMTT(30), <1>1, <2>3 DEF is_overwritable_nop, SHORT_JUMP_SIZE, JUMP_INS_SIZE
  <2>5. End(text[k]) \in Nat /\ End(text[k]) >= text[k].address + 7
    BY SMTT(30), <1>5, <2>4
  <2> QED BY <2>1, <2>3, <2>4, <2>5
<1> QED BY <1>7, <1>8, <1>9, <1>12, <1>13, <1>14, Zenon DEF Layout

\* From where to where a patch reaches.
Extent(p) ==
    IF p.uses_nop_trampoline
    THEN /\ ~p.uses_prev_ins /\ ~p.uses_prev_ins_2 /\ ~p.uses_next_ins
         /\ p.dst_jmp_patch = p.nop_trampoline.address + 2
         /\ p.return_address = p.syscall_addr + 2
    ELSE /\ p.uses_prev_ins_2 => p.uses_prev_ins
         /\ p.dst_jmp_patch =
              IF p.uses_prev_ins_2
              THEN p.syscall_addr - p.preceding_ins.length
                     - p.preceding_ins_2.length
              ELSE IF p.uses_prev_ins
                   THEN p.syscall_addr - p.preceding_ins.length
                   ELSE p.syscall_addr
         /\ p.return_address =
              IF p.uses_next_ins
              THEN p.syscall_addr + 2 + p.following_ins.length
              ELSE p.syscall_addr + 2

\* Where the jump of such a patch starts and where its wrapper returns to.
LEMMA PatchExtent ==
    ASSUME PatcherInv, NEW i \in Planned, NEW p, p = items[i], Layout(p)
    PROVE  Extent(p)
<1>1. IF p.uses_nop_trampoline
      THEN NopPlan(next_nop_i, p) ELSE SurroundingsPlan(i, p)
  BY DEF PatcherInv, PlansFollowed
<1>2. CASE p.uses_nop_trampoline
  BY <1>1, <1>2 DEF Extent, NopPlan, SHORT_JUMP_SIZE, SYSCALL_INS_SIZE
<1>3. CASE ~p.uses_nop_trampoline
  <2>1. /\ p.syscall_addr \in Nat /\ p.following_ins.length \in Nat
        /\ p.preceding_ins.length \in Nat /\ p.preceding_ins_2.length \in Nat
    BY DEF Layout
  <2>2. /\ p.uses_prev_ins_2 => p.uses_prev_ins
        /\ p.dst_jmp_patch = p.syscall_addr - bytes_before(p)
        /\ p.return_address = p.syscall_addr + 2 + bytes_after(p)
    BY <1>1, <1>3 DEF SurroundingsPlan, SYSCALL_INS_SIZE
  <2> QED BY SMTT(30), <1>3, <2>1, <2>2 DEF Extent, bytes_before, bytes_after
<1> QED BY <1>2, <1>3

\* Every byte that a patch changes belongs to one of its instructions.
LEMMA Covered ==
    ASSUME NEW p, Layout(p), Extent(p), NEW a \in Written(p)
    PROVE  \E k \in 1 .. Len(text) :
              Part(p, k) /\ text[k].address <= a /\ a < End(text[k])
<1>1. PICK s \in 1 .. Len(text) :
         /\ text[s].address = p.syscall_addr
         /\ End(text[s]) = p.syscall_addr + 2
  BY DEF Layout
<1>2. Part(p, s)
  BY <1>1 DEF Part
<1>3. CASE p.uses_nop_trampoline
  <2>1. PICK n \in 1 .. Len(text) :
           /\ text[n].address = p.nop_trampoline.address
           /\ End(text[n]) \in Nat /\ End(text[n]) >= text[n].address + 7
    BY <1>3 DEF Layout
  <2>2. Part(p, n)
    BY <1>3, <2>1 DEF Part
  <2>3. \/ a \in p.syscall_addr .. p.syscall_addr + 1
        \/ a \in p.nop_trampoline.address .. p.nop_trampoline.address + 6
    <3>1. p.dst_jmp_patch = p.nop_trampoline.address + 2
      BY <1>3 DEF Extent
    <3>2. a \in (p.syscall_addr .. p.syscall_addr + 2 - 1)
                  \cup (p.nop_trampoline.address .. p.dst_jmp_patch + 5 - 1)
      BY SMTT(30), <1>3 DEF Written, SYSCALL_INS_SIZE, JUMP_INS_SIZE
    <3>3. p.syscall_addr \in Nat /\ p.nop_trampoline.address \in Nat
      BY DEF Layout
    <3>4. /\ p.syscall_addr + 2 - 1 = p.syscall_addr + 1
          /\ p.dst_jmp_patch + 5 - 1 = p.nop_trampoline.address + 6
      BY SMTT(30), <3>1, <3>3
    <3> QED BY <3>2, <3>4
  <2>4. p.syscall_addr \in Nat /\ p.nop_trampoline.address \in Nat
    BY DEF Layout
  <2>5. CASE a \in p.syscall_addr .. p.syscall_addr + 1
    <3>1. text[s].address <= a /\ a < End(text[s])
      BY <1>1, <2>4, <2>5
    <3> QED BY <1>2, <3>1
  <2>6. CASE a \in p.nop_trampoline.address .. p.nop_trampoline.address + 6
    <3>1. text[n].address <= a /\ a < End(text[n])
      BY SMTT(30), <2>1, <2>4, <2>6
    <3> QED BY <2>2, <3>1
  <2> QED BY SMTT(30), <2>3, <2>5, <2>6
<1>4. CASE ~p.uses_nop_trampoline
  <2>1. a \in p.dst_jmp_patch .. p.return_address - 1
    BY <1>4 DEF Written
  <2>2. /\ p.syscall_addr \in Nat /\ p.following_ins.length \in Nat
        /\ p.preceding_ins.length \in Nat /\ p.preceding_ins_2.length \in Nat
        /\ a \in Int
    BY <2>1 DEF Layout
  <2>3. CASE a >= p.syscall_addr /\ a < p.syscall_addr + 2
    BY <1>1, <1>2, <2>3
  <2>4. CASE a >= p.syscall_addr + 2
    <3>1. p.uses_next_ins
      BY <1>4, <2>1, <2>2, <2>4 DEF Extent
    <3>2. PICK f \in 1 .. Len(text) :
             /\ text[f] = p.following_ins
             /\ text[f].address = p.syscall_addr + 2
             /\ End(text[f]) = text[f].address + p.following_ins.length
      BY Zenon DEF Layout
    <3>3. Part(p, f)
      BY <3>1, <3>2 DEF Part
    <3>4. a < End(text[f])
      BY SMTT(30), <1>4, <2>1, <2>2, <3>1, <3>2 DEF Extent
    <3> QED BY <2>4, <3>2, <3>3, <3>4
  <2>5. CASE a < p.syscall_addr
    <3>1. p.uses_prev_ins
      BY SMTT(30), <1>4, <2>1, <2>2, <2>5 DEF Extent
    <3>2. PICK b \in 1 .. Len(text) :
             /\ text[b] = p.preceding_ins
             /\ text[b].address = p.syscall_addr - p.preceding_ins.length
             /\ End(text[b]) = p.syscall_addr
      BY <3>1 DEF Layout
    <3>3. Part(p, b)
      BY <3>1, <3>2 DEF Part
    <3>4. CASE a >= text[b].address
      BY SMTT(30), <2>5, <3>2, <3>3, <3>4
    <3>5. CASE a < text[b].address
      <4>1. p.uses_prev_ins_2
        BY SMTT(30), <1>4, <2>1, <2>2, <3>1, <3>2, <3>5 DEF Extent
      <4>2. PICK c \in 1 .. Len(text) :
               /\ text[c] = p.preceding_ins_2
               /\ text[c].address = p.syscall_addr - p.preceding_ins.length
                                      - p.preceding_ins_2.length
               /\ End(text[c]) = p.syscall_addr - p.preceding_ins.length
        BY <4>1 DEF Layout
      <4>3. Part(p, c)
        BY SMTT(30), <4>1, <4>2 DEF Part
      <4>4. a >= text[c].address
        BY SMTT(30), <1>4, <2>1, <2>2, <4>1, <4>2 DEF Extent
      <4> QED BY SMTT(30), <3>2, <3>5, <4>2, <4>3, <4>4
    <3> QED BY SMTT(30), <2>2, <3>2, <3>4, <3>5
  <2> QED BY <2>2, <2>3, <2>4, <2>5
<1> QED BY <1>3, <1>4

\* Only the start of the syscall or of a merged neighbour is both inside of
\* a patch and the start of an instruction.
LEMMA Boundary ==
    ASSUME NEW q, Layout(q), Extent(q), NEW k \in 1 .. Len(text), Part(q, k),
           TypeOK, text[k].address \in Interior(q)
    PROVE  /\ ~q.uses_nop_trampoline
           /\ \/ q.uses_prev_ins /\ text[k].address = q.syscall_addr
              \/ /\ q.uses_prev_ins_2
                 /\ text[k].address = q.syscall_addr - q.preceding_ins.length
              \/ q.uses_next_ins /\ text[k].address = q.syscall_addr + 2
<1>0. PICK a : a = text[k].address
  OBVIOUS
<1>1. /\ text \in Seq(intercept_disasm_result) /\ TextOK(text)
      /\ a \in Nat /\ q.syscall_addr \in Nat
      /\ q.following_ins.length \in Nat
      /\ q.preceding_ins.length \in Nat /\ q.preceding_ins_2.length \in Nat
  BY <1>0, TextFacts, InsFacts, Zenon DEF TypeOK, Layout
<1>2. CASE q.uses_nop_trampoline
  <2>1. PICK n \in 1 .. Len(text) :
           /\ text[n].address = q.nop_trampoline.address
           /\ End(text[n]) >= text[n].address + 7
    BY SMTT(30), <1>2 DEF Layout
  <2>2. PICK s \in 1 .. Len(text) :
           /\ text[s].address = q.syscall_addr
           /\ End(text[s]) = q.syscall_addr + 2
    BY SMTT(30) DEF Layout
  <2>3. /\ text[n].address \in Nat /\ End(text[n]) \in Nat
        /\ End(text[k]) \in Nat /\ End(text[k]) > a
    BY <1>0, <1>1, TextFacts, InsFacts, Zenon
  <2>4. \/ a = q.syscall_addr + 1
        \/ a > text[n].address /\ a < text[n].address + 7
    <3>1. q.dst_jmp_patch = q.nop_trampoline.address + 2
      BY <1>2 DEF Extent
    <3>2. a \in {q.syscall_addr + 1}
                \cup (q.nop_trampoline.address + 1 .. q.dst_jmp_patch + 5 - 1)
      BY <1>0, <1>2 DEF Interior, JUMP_INS_SIZE
    <3>3. q.dst_jmp_patch + 5 - 1 = q.nop_trampoline.address + 6
      BY SMTT(30), <2>1, <2>3, <3>1
    <3>4. a = q.syscall_addr + 1
            \/ a \in q.nop_trampoline.address + 1 .. q.nop_trampoline.address + 6
      BY <3>2, <3>3
    <3>5. q.nop_trampoline.address \in Nat
      BY DEF Layout
    <3>6. ASSUME NEW x \in Nat, a \in x + 1 .. x + 6
          PROVE  a > x /\ a < x + 7
      BY <3>6
    <3> QED BY SMTT(30), <2>1, <3>4, <3>5, <3>6
  <2>5. k = n \/ End(text[k]) <= text[n].address \/ End(text[n]) <= a
    BY SMTT(30), <1>0, <1>1, Apart
  <2>6. k = s \/ End(text[k]) <= text[s].address \/ End(text[s]) <= a
    BY <1>0, <1>1, Apart
  <2>7. FALSE
    <3>1. k = n => a = text[n].address
      BY <1>0
    <3>2. k = s => a = q.syscall_addr
      BY <1>0, <2>2
    <3>3. CASE a = q.syscall_addr + 1
      <4>1. End(text[k]) > text[s].address /\ End(text[s]) > a
        BY SMTT(30), <1>1, <2>2, <2>3, <3>3
      <4> QED BY SMTT(30), <1>1, <2>2, <2>3, <2>6, <3>2, <3>3, <4>1
    <3>4. CASE a > text[n].address /\ a < text[n].address + 7
      <4>1. End(text[k]) > text[n].address /\ End(text[n]) > a
        BY SMTT(30), <1>1, <2>1, <2>3, <3>4
      <4> QED BY SMTT(30), <1>1, <2>3, <2>5, <3>1, <3>4, <4>1
    <3> QED BY <2>4, <3>3, <3>4
  <2> QED BY SMTT(30), <2>7
<1>3. CASE ~q.uses_nop_trampoline
  <2>1. a \in Int /\ a > q.dst_jmp_patch /\ q.dst_jmp_patch \in Int
    <3>1. q.dst_jmp_patch \in Int /\ q.return_address \in Nat
      BY DEF Layout
    <3>2. a \in q.dst_jmp_patch + 1 .. q.return_address - 1
      BY SMTT(30), <1>0, <1>3 DEF Interior
    <3> QED BY <3>1, <3>2
  <2>2. CASE a = q.syscall_addr
    BY SMTT(30), <1>0, <1>1, <1>3, <2>1, <2>2 DEF Extent
  <2>3. CASE q.uses_prev_ins /\ text[k] = q.preceding_ins
    <3>1. a = q.syscall_addr - q.preceding_ins.length
      BY <1>0, <1>1, <2>3 DEF Layout
    <3> QED BY SMTT(30), <1>0, <1>1, <1>3, <2>1, <2>3, <3>1 DEF Extent
  <2>4. CASE q.uses_prev_ins_2 /\ text[k] = q.preceding_ins_2
    <3>1. a = q.syscall_addr - q.preceding_ins.length
                - q.preceding_ins_2.length
      BY <1>0, <1>1, <2>4 DEF Layout
    <3> QED BY SMTT(30), <1>0, <1>1, <1>3, <2>1, <2>4, <3>1 DEF Extent
  <2>5. CASE q.uses_next_ins /\ text[k] = q.following_ins
    <3>1. a = q.syscall_addr + 2
      BY <1>0, <1>1, <2>5 DEF Layout
    <3> QED BY SMTT(30), <1>0, <1>3, <2>5, <3>1
  <2> QED BY <1>0, <1>3, <2>2, <2>3, <2>4, <2>5 DEF Part
<1> QED BY <1>2, <1>3

\* Two instructions that start at the same address are the same one.
LEMMA SameAddress ==
    ASSUME TypeOK, NEW j \in 1 .. Len(text), NEW k \in 1 .. Len(text),
           text[j].address = text[k].address
    PROVE  j = k
<1>1. text \in Seq(intercept_disasm_result) /\ TextOK(text)
  BY DEF TypeOK
<1>2. /\ text[j].address \in Nat /\ End(text[j]) \in Nat
      /\ End(text[k]) \in Nat
      /\ End(text[j]) > text[j].address /\ End(text[k]) > text[k].address
  BY SMTT(30), <1>1, TextFacts, InsFacts
<1> QED BY SMTT(30), <1>1, <1>2, Apart

\* All that is known of a planned patch.
Fits(i, p) ==
    /\ Layout(p)
    /\ Extent(p)
    /\ ~p.uses_nop_trampoline => SurroundingsPlan(i, p)

\* create_patch_wrappers leaves every patch like that.
LEMMA PatchFits ==
    ASSUME PatcherInv, NEW i \in Planned, NEW p, p = items[i], Contiguous(p)
    PROVE  Fits(i, p)
<1>1. Layout(p)
  BY PatchLayout
<1>2. Extent(p)
  BY <1>1, PatchExtent
<1>3. ~p.uses_nop_trampoline => SurroundingsPlan(i, p)
  BY DEF PatcherInv, PlansFollowed
<1> QED BY <1>1, <1>2, <1>3 DEF Fits

\* An instruction that a patch overwrites: the syscall, the NOP, or one that
\* the plan moves.
MovedPart(p, k) ==
    /\ ~p.uses_nop_trampoline
    /\ ~is_syscall(text[k]) /\ ~is_overwritable_nop(text[k])
    /\ \/ p.uses_prev_ins /\ End(text[k]) = p.syscall_addr
       \/ /\ p.uses_prev_ins_2
          /\ End(text[k]) = p.syscall_addr - p.preceding_ins.length
       \/ /\ p.uses_next_ins
          /\ text[k].address = p.syscall_addr + 2
          /\ End(text[k]) = p.return_address

\* An instruction that a patch overwrites is the syscall, the NOP, or a moved
\* one, and then which one it is determines its address.
LEMMA PartKinds ==
    ASSUME TypeOK, NEW i, NEW p, Fits(i, p), NEW k \in 1 .. Len(text),
           Part(p, k)
    PROVE  \/ is_syscall(text[k]) /\ text[k].address = p.syscall_addr
           \/ /\ p.uses_nop_trampoline /\ is_overwritable_nop(text[k])
              /\ text[k].address = p.nop_trampoline.address
           \/ MovedPart(p, k)
<1>1. Layout(p) /\ Extent(p)
  BY DEF Fits
<1>2. \A m, ins, next : Movable(m, ins, next)
         => ~is_syscall(ins) /\ ~is_overwritable_nop(ins)
  BY DEF Movable, is_copiable_after_syscall, is_lea_rip, is_syscall,
         is_overwritable_nop
<1>3. CASE text[k].address = p.syscall_addr
  <2>1. PICK s \in 1 .. Len(text) :
           text[s].address = p.syscall_addr /\ is_syscall(text[s])
    BY <1>1 DEF Layout
  <2>2. s = k
    BY <1>3, <2>1, SameAddress
  <2> QED BY SMTT(30), <1>3, <2>1, <2>2
<1>4. CASE p.uses_nop_trampoline /\ text[k].address = p.nop_trampoline.address
  <2>1. PICK n \in 1 .. Len(text) :
           /\ text[n].address = p.nop_trampoline.address
           /\ is_overwritable_nop(text[n])
    BY <1>1, <1>4 DEF Layout
  <2>2. n = k
    BY <1>4, <2>1, SameAddress
  <2> QED BY <1>4, <2>1, <2>2
<1>5. CASE p.uses_prev_ins /\ text[k] = p.preceding_ins
  <2>1. ~p.uses_nop_trampoline
    BY SMTT(30), <1>1, <1>5 DEF Extent
  <2>2. End(text[k]) = p.syscall_addr
    BY SMTT(30), <1>1, <1>5 DEF Layout
  <2>3. ~is_syscall(text[k]) /\ ~is_overwritable_nop(text[k])
    BY <1>2, <1>5, <2>1 DEF Fits, SurroundingsPlan
  <2> QED BY SMTT(30), <1>5, <2>1, <2>2, <2>3 DEF MovedPart
<1>6. CASE p.uses_prev_ins_2 /\ text[k] = p.preceding_ins_2
  <2>1. ~p.uses_nop_trampoline
    BY SMTT(30), <1>1, <1>6 DEF Extent
  <2>2. End(text[k]) = p.syscall_addr - p.preceding_ins.length
    BY SMTT(30), <1>1, <1>6 DEF Layout
  <2>3. ~is_syscall(text[k]) /\ ~is_overwritable_nop(text[k])
    BY <1>2, <1>6, <2>1 DEF Fits, SurroundingsPlan
  <2> QED BY <1>6, <2>1, <2>2, <2>3 DEF MovedPart
<1>7. CASE p.uses_next_ins /\ text[k] = p.following_ins
  <2>1. ~p.uses_nop_trampoline
    BY SMTT(30), <1>1, <1>7 DEF Extent
  <2>2. /\ text[k].address = p.syscall_addr + 2
        /\ End(text[k]) = p.syscall_addr + 2 + p.following_ins.length
    BY <1>1, <1>7 DEF Layout
  <2>3. p.return_address = p.syscall_addr + 2 + p.following_ins.length
    BY <1>1, <1>7, <2>1 DEF Extent
  <2>4. ~is_syscall(text[k]) /\ ~is_overwritable_nop(text[k])
    BY <1>2, <1>7, <2>1 DEF Fits, SurroundingsPlan
  <2> QED BY <1>7, <2>1, <2>2, <2>3, <2>4 DEF MovedPart
<1> QED BY <1>3, <1>4, <1>5, <1>6, <1>7 DEF Part

\* An instruction merged with the one before it, unless that one is a
\* RIP-relative LEA, starts where no earlier patch returns to.
LEMMA NoReturnInto ==
    ASSUME NEW i \in Nat, NEW j \in Nat, i >= 1, i < j, NEW ins, NEW next,
           Movable(j, ins, next), ~is_lea_rip(ins), InText(text, next)
    PROVE  items[i].return_address # next
BY DEF Movable, Unmarked

\* Two patches have no instruction in common.
LEMMA NoShare ==
    ASSUME PatcherInv, NEW i \in Planned, NEW j \in Planned, i < j,
           NEW p, p = items[i], Fits(i, p),
           NEW q, q = items[j], Fits(j, q), ~MovesLeaBefore(q),
           NEW k \in 1 .. Len(text), Part(p, k), Part(q, k)
    PROVE  FALSE
<1>1. /\ TypeOK /\ text \in Seq(intercept_disasm_result) /\ TextOK(text)
      /\ i \in 1 .. Len(items) /\ j \in 1 .. Len(items) /\ i \in Nat
      /\ j \in Nat /\ i >= 1
  BY SMTT(30) DEF PatcherInv, TypeOK, Planned
<1>2. /\ Layout(p) /\ Layout(q) /\ Extent(p) /\ Extent(q)
  BY DEF Fits
<1>3. p.syscall_addr < q.syscall_addr
  BY <1>1 DEF PatcherInv, ItemsDescribed
<1>4. /\ p.syscall_addr \in Nat /\ q.syscall_addr \in Nat
      /\ p.return_address \in Nat
      /\ p.preceding_ins.length \in Nat /\ q.preceding_ins.length \in Nat
  BY <1>2, Zenon DEF Layout
<1>5. /\ text[k].address \in Nat /\ End(text[k]) \in Nat
      /\ text[k].address < End(text[k])
  BY <1>1, TextFacts, InsFacts
<1>6. CASE is_syscall(text[k])
  <2>1. ~is_overwritable_nop(text[k])
    BY SMTT(30), <1>6 DEF is_syscall, is_overwritable_nop
  <2>2. text[k].address = p.syscall_addr /\ text[k].address = q.syscall_addr
    BY <1>1, <1>6, <2>1, PartKinds DEF MovedPart
  <2> QED BY <1>3, <1>4, <2>2
<1>7. CASE is_overwritable_nop(text[k])
  <2>1. ~is_syscall(text[k])
    BY SMTT(30), <1>7 DEF is_syscall, is_overwritable_nop
  <2>2. /\ p.uses_nop_trampoline /\ q.uses_nop_trampoline
        /\ text[k].address = p.nop_trampoline.address
        /\ text[k].address = q.nop_trampoline.address
    BY <1>1, <1>7, <2>1, PartKinds DEF MovedPart
  <2>3. p.nop_trampoline.address < q.nop_trampoline.address
    BY <2>2, Zenon DEF PatcherInv, PlansFollowed
  <2> QED BY <1>5, <2>2, <2>3
<1>8. CASE ~is_syscall(text[k]) /\ ~is_overwritable_nop(text[k])
  <2>1. MovedPart(p, k) /\ MovedPart(q, k)
    BY SMTT(30), <1>1, <1>8, PartKinds
  <2>2. SurroundingsPlan(j, q)
    BY SMTT(30), <2>1 DEF Fits, MovedPart
  <2>3. \/ End(text[k]) <= p.syscall_addr
        \/ /\ text[k].address = p.syscall_addr + 2
           /\ End(text[k]) = p.return_address
    BY SMTT(30), <1>4, <2>1 DEF MovedPart
  <2>4. CASE q.uses_prev_ins /\ End(text[k]) = q.syscall_addr
    <3>1. End(text[k]) = p.return_address
      BY SMTT(30), <1>3, <1>4, <2>3, <2>4
    <3>2. InText(text, q.syscall_addr)
      BY ZenonT(60), <1>1, <1>2, TextFacts DEF Layout
    <3>3. Movable(j, q.preceding_ins, q.syscall_addr)
      BY <2>2, <2>4 DEF SurroundingsPlan
    <3>4. ~is_lea_rip(q.preceding_ins)
      BY SMTT(30), <2>4 DEF MovesLeaBefore
    <3> QED BY <1>1, <2>4, <3>1, <3>2, <3>3, <3>4, NoReturnInto
  <2>5. CASE /\ q.uses_prev_ins_2
             /\ End(text[k]) = q.syscall_addr - q.preceding_ins.length
    <3>1. q.uses_prev_ins
      BY SMTT(30), <2>2, <2>5 DEF SurroundingsPlan
    <3>2. PICK b \in 1 .. Len(text) :
             /\ text[b] = q.preceding_ins
             /\ text[b].address = q.syscall_addr - q.preceding_ins.length
             /\ End(text[b]) = q.syscall_addr
      BY <1>2, <3>1 DEF Layout
    <3>3. End(text[k]) = text[b].address
      BY SMTT(30), <2>5, <3>2
    <3>4. CASE End(text[k]) = p.return_address
      <4>1. InText(text, text[b].address)
        BY SMTT(30), <1>1, TextFacts
      <4>2. Movable(j, q.preceding_ins_2,
                    q.syscall_addr - q.preceding_ins.length)
        BY <2>2, <2>5 DEF SurroundingsPlan
      <4>3. ~is_lea_rip(q.preceding_ins_2)
        BY <2>5 DEF MovesLeaBefore
      <4> QED BY SMTT(30), <1>1, <3>2, <3>3, <3>4, <4>1, <4>2, <4>3, NoReturnInto
    <3>5. CASE p.uses_prev_ins /\ End(text[k]) = p.syscall_addr
      <4>1. PICK s \in 1 .. Len(text) :
               text[s].address = p.syscall_addr /\ is_syscall(text[s])
        BY <1>2, Zenon DEF Layout
      <4>2. s = b
        BY <1>1, <3>3, <3>5, <4>1, SameAddress, Zenon
      <4>3. Movable(j, q.preceding_ins, q.syscall_addr)
        BY <2>2, <3>1 DEF SurroundingsPlan
      <4> QED BY <3>2, <4>1, <4>2, <4>3 DEF Movable, is_syscall, is_lea_rip,
                 is_copiable_after_syscall
    <3>6. CASE /\ p.uses_prev_ins_2
               /\ End(text[k]) = p.syscall_addr - p.preceding_ins.length
      <4>1. p.uses_prev_ins
        BY <1>2, <2>1, <3>6, ZenonT(40) DEF Extent, MovedPart
      <4>2. PICK c \in 1 .. Len(text) :
               /\ text[c].address = p.syscall_addr - p.preceding_ins.length
               /\ End(text[c]) = p.syscall_addr
        BY <1>2, <4>1 DEF Layout
      <4>3. c = b
        BY <1>1, <3>3, <3>6, <4>2, SameAddress, Zenon
      <4> QED BY SMTT(30), <1>3, <1>4, <3>2, <4>2, <4>3
    <3> QED BY <2>1, <3>4, <3>5, <3>6 DEF MovedPart
  <2>6. CASE text[k].address = q.syscall_addr + 2
    BY SMTT(30), <1>3, <1>4, <1>5, <2>3, <2>6
  <2> QED BY <2>1, <2>4, <2>5, <2>6 DEF MovedPart
<1> QED BY <1>6, <1>7, <1>8

\* PatchesDisjoint follows from the invariant.
LEMMA DisjointByInv == PatcherInv => PatchesDisjoint
<1> SUFFICES ASSUME PatcherInv, NEW i \in Planned, NEW j \in Planned, i < j,
                    Contiguous(items[i]), Contiguous(items[j]),
                    ~MovesLeaBefore(items[j]),
                    NEW a \in Written(items[i]), a \in Written(items[j])
             PROVE  FALSE
  BY DEF PatchesDisjoint
<1>1. PICK p : p = items[i]
  OBVIOUS
<1>2. PICK q : q = items[j]
  OBVIOUS
<1>3. Fits(i, p) /\ Fits(j, q)
  BY SMTT(30), <1>1, <1>2, PatchFits
<1>4. PICK k \in 1 .. Len(text) :
         Part(p, k) /\ text[k].address <= a /\ a < End(text[k])
  BY SMTT(30), <1>1, <1>3, Covered DEF Fits
<1>5. PICK l \in 1 .. Len(text) :
         Part(q, l) /\ text[l].address <= a /\ a < End(text[l])
  BY <1>2, <1>3, Covered DEF Fits
<1>6. text \in Seq(intercept_disasm_result) /\ TextOK(text)
  BY SMTT(30) DEF PatcherInv, TypeOK
<1>7. /\ text[k].address \in Nat /\ End(text[k]) \in Nat
      /\ text[l].address \in Nat /\ End(text[l]) \in Nat
  BY SMTT(30), <1>6, TextFacts, InsFacts
<1>8. a \in Int
  <2>1. /\ p.syscall_addr \in Nat /\ p.dst_jmp_patch \in Int
        /\ p.return_address \in Nat /\ p.nop_trampoline.address \in Nat
    BY <1>3, Zenon DEF Fits, Layout
  <2>2. a \in Written(p)
    BY SMTT(30), <1>1
  <2> QED BY <2>1, <2>2 DEF Written, SYSCALL_INS_SIZE, JUMP_INS_SIZE
<1>9. k = l
  BY SMTT(30), <1>4, <1>5, <1>6, <1>7, <1>8, Apart
<1> QED BY <1>1, <1>2, <1>3, <1>4, <1>5, <1>9, NoShare

\* The inside of a patch is overwritten, and made of numbers.
LEMMA InteriorWritten ==
    ASSUME NEW p, Layout(p), Extent(p), NEW a \in Interior(p)
    PROVE  a \in Written(p) /\ a \in Int
<1>1. /\ p.syscall_addr \in Nat /\ p.nop_trampoline.address \in Nat
      /\ p.dst_jmp_patch \in Int /\ p.return_address \in Nat
  BY DEF Layout
<1>2. CASE p.uses_nop_trampoline
  <2>1. a \in {p.syscall_addr + 1}
              \cup (p.nop_trampoline.address + 1 .. p.dst_jmp_patch + 5 - 1)
    BY <1>2 DEF Interior, JUMP_INS_SIZE
  <2>2. Written(p) = (p.syscall_addr .. p.syscall_addr + 2 - 1)
              \cup (p.nop_trampoline.address .. p.dst_jmp_patch + 5 - 1)
    BY <1>2 DEF Written, JUMP_INS_SIZE, SYSCALL_INS_SIZE
  <2>3. CASE a = p.syscall_addr + 1
    BY <1>1, <2>2, <2>3
  <2>4. CASE a \in p.nop_trampoline.address + 1 .. p.dst_jmp_patch + 5 - 1
    BY <1>1, <2>2, <2>4
  <2> QED BY <2>1, <2>3, <2>4
<1>3. CASE ~p.uses_nop_trampoline
  BY SMTT(30), <1>1, <1>3 DEF Interior, Written
<1> QED BY <1>2, <1>3

\* An address inside of a patch at which an instruction starts is the start of
\* the syscall or of a moved instruction behind another one.
LEMMA InteriorStart ==
    ASSUME TypeOK, NEW j, NEW q, Fits(j, q),
           NEW k \in 1 .. Len(text), text[k].address \in Interior(q)
    PROVE  /\ ~q.uses_nop_trampoline
           /\ \/ q.uses_prev_ins /\ text[k].address = q.syscall_addr
              \/ /\ q.uses_prev_ins_2
                 /\ text[k].address = q.syscall_addr - q.preceding_ins.length
              \/ q.uses_next_ins /\ text[k].address = q.syscall_addr + 2
<1>1. PICK a : a = text[k].address
  OBVIOUS
<1>2. Layout(q) /\ Extent(q)
  BY DEF Fits
<1>3. a \in Written(q)
  BY SMTT(30), <1>1, <1>2, InteriorWritten
<1>4. PICK l \in 1 .. Len(text) :
         Part(q, l) /\ text[l].address <= a /\ a < End(text[l])
  BY <1>2, <1>3, Covered
<1>5. text \in Seq(intercept_disasm_result) /\ TextOK(text)
  BY SMTT(30) DEF TypeOK
<1>6. /\ a \in Nat /\ End(text[k]) \in Nat /\ End(text[k]) > a
      /\ text[l].address \in Nat /\ End(text[l]) \in Nat
  BY SMTT(30), <1>1, <1>5, TextFacts, InsFacts
<1>7. k = l
  BY SMTT(30), <1>1, <1>4, <1>5, <1>6, Apart
<1> QED BY <1>2, <1>4, <1>7, Boundary

\* What such an address can not be, when no RIP-relative LEA is moved.
LEMMA InteriorUnmarked ==
    ASSUME TypeOK, NEW j, NEW q, Fits(j, q), ~MovesLea(q),
           NEW k \in 1 .. Len(text), text[k].address \in Interior(q)
    PROVE  Unmarked(j, text[k].address)
<1>1. ~q.uses_nop_trampoline /\ SurroundingsPlan(j, q)
  BY InteriorStart, Zenon DEF Fits
<1>2. CASE q.uses_prev_ins /\ text[k].address = q.syscall_addr
  BY SMTT(30), <1>1, <1>2 DEF SurroundingsPlan, Movable, MovesLea, MovesLeaBefore
<1>3. CASE /\ q.uses_prev_ins_2
           /\ text[k].address = q.syscall_addr - q.preceding_ins.length
  BY SMTT(30), <1>1, <1>3 DEF SurroundingsPlan, Movable, MovesLea, MovesLeaBefore
<1>4. CASE q.uses_next_ins /\ text[k].address = q.syscall_addr + 2
  BY <1>1, <1>4 DEF SurroundingsPlan, Movable, MovesLea, SYSCALL_INS_SIZE
<1> QED BY <1>2, <1>3, <1>4, InteriorStart

\* JumpDestinationsIntact follows from the invariant.
LEMMA DestinationsByInv == PatcherInv => JumpDestinationsIntact
<1> SUFFICES ASSUME PatcherInv, NEW j \in Planned, Contiguous(items[j]),
                    ~MovesLea(items[j]), NEW d \in JumpDestinations,
                    d \in Interior(items[j])
             PROVE  FALSE
  BY DEF JumpDestinationsIntact
<1>1. PICK q : q = items[j]
  OBVIOUS
<1>2. Fits(j, q) /\ TypeOK
  BY <1>1, PatchFits DEF PatcherInv
<1>3. PICK k \in 1 .. Len(text) : d = text[k].address
  BY DEF JumpDestinations
<1>4. Unmarked(j, d)
  BY SMTT(30), <1>1, <1>2, <1>3, InteriorUnmarked
<1>5. InText(text, d)
  BY <1>2, <1>3, TextFacts DEF TypeOK
<1> QED BY <1>4, <1>5 DEF Unmarked, JumpDestinations

\* The return address of a patch follows an instruction of the text.
LEMMA ReturnFollows ==
    ASSUME NEW p, Layout(p), Extent(p)
    PROVE  /\ \E m \in 1 .. Len(text) : End(text[m]) = p.return_address
           /\ p.return_address >= p.syscall_addr + 2
<1>1. p.syscall_addr \in Nat /\ p.following_ins.length \in Nat
  BY DEF Layout
<1>2. \/ p.return_address = p.syscall_addr + 2
      \/ p.return_address = p.syscall_addr + 2 + p.following_ins.length
  BY SMTT(30) DEF Extent
<1>3. \E m \in 1 .. Len(text) : End(text[m]) = p.syscall_addr + 2
  BY SMTT(30) DEF Layout
<1>4. \E m \in 1 .. Len(text) :
         End(text[m]) = p.syscall_addr + 2 + p.following_ins.length
  BY DEF Layout
<1> QED BY SMTT(30), <1>1, <1>2, <1>3, <1>4

\* ReturnsIntact follows from the invariant.
LEMMA ReturnsByInv == PatcherInv => ReturnsIntact
<1> SUFFICES ASSUME PatcherInv, NEW i \in Planned, NEW j \in Planned,
                    Contiguous(items[i]), Contiguous(items[j]),
                    ~MovesLea(items[j]),
                    items[i].return_address \in Interior(items[j])
             PROVE  FALSE
  BY DEF ReturnsIntact
<1>1. PICK p : p = items[i]
  OBVIOUS
<1>2. PICK q : q = items[j]
  OBVIOUS
<1>3. PICK r : r = p.return_address
  OBVIOUS
<1>4. Fits(i, p) /\ Fits(j, q) /\ TypeOK
  BY <1>1, <1>2, PatchFits DEF PatcherInv
<1>5. Layout(p) /\ Extent(p) /\ Layout(q) /\ Extent(q)
  BY SMTT(30), <1>4 DEF Fits
<1>6. r \in Written(q) /\ r \in Interior(q) /\ r \in Nat
  BY ZenonT(60), <1>1, <1>2, <1>3, <1>5, InteriorWritten DEF Layout
<1>7. PICK l \in 1 .. Len(text) :
         Part(q, l) /\ text[l].address <= r /\ r < End(text[l])
  BY <1>5, <1>6, Covered
<1>8. PICK m \in 1 .. Len(text) : End(text[m]) = r
  BY <1>3, <1>5, ReturnFollows
<1>9. text \in Seq(intercept_disasm_result) /\ TextOK(text)
  BY SMTT(30), <1>4 DEF TypeOK
<1>10. /\ text[m].address \in Nat /\ text[m].address < r
       /\ text[l].address \in Nat /\ End(text[l]) \in Nat
  BY SMTT(30), <1>8, <1>9, TextFacts, InsFacts
<1>11. text[l].address = r
  BY SMTT(30), <1>6, <1>7, <1>8, <1>9, <1>10, Apart
<1>12. InText(text, r)
  BY SMTT(30), <1>9, <1>11, TextFacts
<1>13. Unmarked(j, r)
  BY SMTT(30), <1>2, <1>4, <1>6, <1>11, InteriorUnmarked
<1>14. /\ i \in 1 .. Len(items) /\ j \in 1 .. Len(items)
       /\ p.syscall_addr \in Nat /\ q.syscall_addr \in Nat
       /\ q.preceding_ins.length \in Nat
  BY <1>5 DEF Planned, Layout
<1>15. CASE i < j
  BY <1>1, <1>3, <1>12, <1>13, <1>14, <1>15 DEF Unmarked
<1>16. CASE i = j
  <2>1. ~q.uses_nop_trampoline
    BY SMTT(30), <1>4, <1>6, <1>11, InteriorStart
  <2>2. r \in q.dst_jmp_patch + 1 .. r - 1 /\ q.dst_jmp_patch \in Int
    BY ZenonT(60), <1>1, <1>2, <1>3, <1>5, <1>6, <1>16, <2>1 DEF Interior, Layout
  <2> QED BY SMTT(30), <1>6, <2>2
<1>17. CASE j < i
  <2>1. q.syscall_addr < p.syscall_addr
    BY <1>1, <1>2, <1>14, <1>17 DEF PatcherInv, ItemsDescribed
  <2>2. r >= p.syscall_addr + 2
    BY SMTT(30), <1>3, <1>5, ReturnFollows
  <2>3. r <= q.syscall_addr + 2
    <3>1. \/ r = q.syscall_addr
          \/ r = q.syscall_addr - q.preceding_ins.length
          \/ r = q.syscall_addr + 2
      BY <1>4, <1>6, <1>11, InteriorStart
    <3> QED BY SMTT(30), <1>14, <3>1
  <2> QED BY SMTT(30), <1>6, <1>14, <2>1, <2>2, <2>3
<1> QED BY <1>14, <1>15, <1>16, <1>17
=============================================================================
