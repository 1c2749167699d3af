---------------------------- MODULE SweepProofs ----------------------------
(***************************************************************************)
(* The geometry of a text section, and the proof that the sweep of         *)
(* crawl_text preserves Patcher's inductive invariant.                     *)
(***************************************************************************)
EXTENDS PatcherInvariant, TLAPS

-----------------------------------------------------------------------------
(***************************************************************************)
(* The geometry of a text section.                                         *)
(***************************************************************************)

\* The fields of an instruction are numbers; it has at least one byte.
LEMMA InsFacts ==
    ASSUME NEW ins, InsOK(ins)
    PROVE  /\ ins.address \in Nat /\ ins.length \in Nat /\ ins.ref \in Nat
           /\ Step(ins) \in Nat /\ Step(ins) >= 1
           /\ End(ins) \in Nat /\ End(ins) > ins.address
           /\ ins.length # 0 => End(ins) = ins.address + ins.length
           /\ is_syscall(ins) => ins.length = SYSCALL_INS_SIZE
BY DEF InsOK, intercept_disasm_result, Step, End, is_syscall,
       SYSCALL_INS_SIZE, MAX_INS_LENGTH

\* The instructions that the sweep of crawl_text meets follow one another, all
\* of them between text_start and text_end.
LEMMA TextFacts ==
    ASSUME NEW t \in Seq(intercept_disasm_result), TextOK(t)
    PROVE  /\ Len(t) \in Nat /\ Len(t) > 0
           /\ text_start(t) \in Nat /\ text_start(t) > 0
           /\ text_end(t) \in Nat
           /\ \A k \in 1 .. Len(t) :
                 /\ InsOK(t[k]) /\ t[k] \in intercept_disasm_result
                 /\ text_start(t) <= t[k].address
                 /\ End(t[k]) - 1 <= text_end(t)
                 /\ InText(t, t[k].address)
           /\ \A j, k \in 1 .. Len(t) : j < k => End(t[j]) <= t[k].address
<1>1. Len(t) \in Nat /\ Len(t) > 0 /\ 1 \in 1 .. Len(t)
        /\ Len(t) \in 1 .. Len(t)
  BY DEF TextOK
<1>2. \A k \in 1 .. Len(t) : InsOK(t[k])
  BY DEF TextOK
<1>3. \A k \in 1 .. Len(t) :
         /\ t[k].address \in Nat /\ End(t[k]) \in Nat
         /\ End(t[k]) > t[k].address
  BY <1>2, InsFacts
<1>4. \A j, k \in 1 .. Len(t) : j < k => End(t[j]) <= t[k].address
  BY DEF TextOK
<1>5. /\ text_start(t) \in Nat /\ text_start(t) > 0
      /\ text_end(t) \in Nat
  BY SMTT(30), <1>1, <1>3 DEF text_start, text_end, TextOK
<1>6. ASSUME NEW k \in 1 .. Len(t)
      PROVE  /\ text_start(t) <= t[k].address
             /\ End(t[k]) - 1 <= text_end(t)
  <2>1. k = 1 \/ End(t[1]) <= t[k].address
    BY <1>1, <1>4
  <2>2. k = Len(t) \/ End(t[k]) <= t[Len(t)].address
    BY <1>1, <1>4
  <2> QED BY SMTT(30), <2>1, <2>2, <1>1, <1>3 DEF text_start, text_end
<1>7. \A k \in 1 .. Len(t) : InText(t, t[k].address)
  BY <1>3, <1>5, <1>6 DEF InText
<1> QED BY <1>1, <1>2, <1>4, <1>5, <1>6, <1>7 DEF InsOK

\* Two instructions of a text section are the same or have no byte in common.
LEMMA Apart ==
    ASSUME NEW t \in Seq(intercept_disasm_result), TextOK(t),
           NEW j \in 1 .. Len(t), NEW k \in 1 .. Len(t)
    PROVE  \/ j = k
           \/ End(t[j]) <= t[k].address
           \/ End(t[k]) <= t[j].address
BY TextFacts

-----------------------------------------------------------------------------
(***************************************************************************)
(* The invariant holds initially, and every step preserves it.             *)
(***************************************************************************)

\* The set of destinations in the tables consists of addresses.
LEMMA TableAddresses ==
    ASSUME symtab \subseteq Elf64_Sym, relatab \subseteq Elf64_Rela
    PROVE  /\ find_jumps_in_section_syms \subseteq Nat
           /\ find_jumps_in_section_rela \subseteq Nat
BY DEF find_jumps_in_section_syms, find_jumps_in_section_rela, Elf64_Sym,
       Elf64_Rela

\* Marking addresses keeps the bitmap inside of the text and loses no mark.
LEMMA MarkJump ==
    ASSUME NEW addrs, addrs \subseteq Nat,
           jump_table \subseteq {a \in Nat : InText(text, a)}
    PROVE  /\ mark_jump(addrs) \subseteq {a \in Nat : InText(text, a)}
           /\ jump_table \subseteq mark_jump(addrs)
           /\ \A a \in addrs : InText(text, a) => a \in mark_jump(addrs)
BY Zenon DEF mark_jump

\* An object that was not looked at yet satisfies the invariant.
LEMMA InitInv == PatcherInit => PatcherInv
<1> SUFFICES ASSUME PatcherInit PROVE PatcherInv
  OBVIOUS
<1> USE DEF PatcherInit, Init
<1>1. /\ text \in Seq(intercept_disasm_result) /\ TextOK(text)
      /\ symtab \subseteq Elf64_Sym /\ relatab \subseteq Elf64_Rela
  BY ProgramsAssumption
<1>2. Len(text) \in Nat /\ Len(text) > 0
  BY <1>1, TextFacts
<1>3. Unset \in intercept_disasm_result \cup {Unset}
  OBVIOUS
<1>4. prevs \in Seq(intercept_disasm_result \cup {Unset}) /\ Len(prevs) = 3
  BY <1>3
<1>5. TypeOK
  BY <1>1, <1>2, <1>4, PatcherAssumption DEF TypeOK, Phases
<1>6. PrevsDecoded
  BY DEF PrevsDecoded
<1>7. ItemsDescribed /\ NopsKnown
  BY DEF ItemsDescribed, NopsKnown
<1>8. MarksComplete
  BY DEF MarksComplete
<1>9. Planned = {}
  BY DEF Planned
<1>10. PlanFrontier /\ PlansFollowed
  BY <1>9 DEF PlanFrontier, PlansFollowed
<1> QED BY <1>5, <1>6, <1>7, <1>8, <1>10 DEF PatcherInv

\* Steps that leave what the sweep and the plan recorded alone.
LEMMA Untouched ==
    ASSUME PatcherInv, UNCHANGED crawlVars, UNCHANGED next_nop_i
    PROVE  /\ PrevsDecoded' /\ ItemsDescribed' /\ NopsKnown' /\ PlansFollowed'
           /\ Planned' = Planned
<1> USE DEF crawlVars, PatcherInv
<1>1. PrevsDecoded'
  BY DEF PrevsDecoded, Decoded
<1>2. ItemsDescribed'
  BY DEF ItemsDescribed, Described, Decoded
<1>3. NopsKnown'
  BY DEF NopsKnown
<1>4. Planned' = Planned
  BY DEF Planned
<1>5. AllDestinations' = AllDestinations
  BY SMTT(30) DEF AllDestinations, find_jumps_in_section_syms,
         find_jumps_in_section_rela
<1>6. PlansFollowed'
  <2>1. /\ PlansFollowed /\ text' = text /\ items' = items
        /\ jump_table' = jump_table /\ nop_table' = nop_table
        /\ next_nop_i' = next_nop_i
    OBVIOUS
  <2> HIDE DEF crawlVars, PatcherInv
  <2>2. \A p : NopPlan(next_nop_i, p)' <=> NopPlan(next_nop_i, p)
    BY SMTT(30), <2>1 DEF NopPlan
  <2>3. \A i, p : SurroundingsPlan(i, p)' <=> SurroundingsPlan(i, p)
    BY <1>5, <2>1 DEF SurroundingsPlan, Movable, Unmarked
  <2> QED BY SMTT(30), <1>4, <2>1, <2>2, <2>3 DEF PlansFollowed
<1> QED BY <1>1, <1>2, <1>3, <1>4, <1>6

\* The text of an object does not change while its jumps are looked for.
LEMMA FindJumpsInv ==
    ASSUME PatcherInv, FindJumps, UNCHANGED patchVars
    PROVE  PatcherInv'
<1> USE DEF PatcherInv, FindJumps, patchVars
<1> DEFINE D == find_jumps_in_section_syms \cup find_jumps_in_section_rela
<1>1. D \subseteq Nat
  <2>1. symtab \subseteq Elf64_Sym /\ relatab \subseteq Elf64_Rela
    BY DEF TypeOK
  <2> HIDE DEF PatcherInv, FindJumps, patchVars
  <2> QED BY <2>1, TableAddresses
<1>2. jump_table \subseteq {a \in Nat : InText(text, a)}
  BY DEF TypeOK
<1>3. /\ jump_table' \subseteq {a \in Nat : InText(text, a)}
      /\ jump_table \subseteq jump_table'
      /\ \A a \in D : InText(text, a) => a \in jump_table'
  <2> HIDE DEF D
  <2>1. jump_table' = mark_jump(D)
    BY DEF D
  <2> QED BY <1>1, <1>2, <2>1, MarkJump, Zenon
<1>4. TypeOK'
  BY <1>3, Zenon DEF TypeOK, Phases
<1>5. PrevsDecoded' /\ ItemsDescribed' /\ NopsKnown'
  BY SMTT(30) DEF PrevsDecoded, Decoded, ItemsDescribed, Described, NopsKnown
<1>6. D' = D
  BY DEF find_jumps_in_section_syms, find_jumps_in_section_rela
<1>7. MarksComplete'
  BY <1>3, <1>6, Zenon DEF MarksComplete
<1>8. Planned = {} /\ Planned' = {}
  BY SMTT(30) DEF PlanFrontier, Planned
<1>9. PlanFrontier' /\ PlansFollowed'
  BY <1>8 DEF PlanFrontier, PlansFollowed
<1> QED BY SMTT(30), <1>4, <1>5, <1>7, <1>9

\* Stepping over a byte that can not be decoded preserves the invariant.
LEMMA CrawlUndecodableInv ==
    ASSUME PatcherInv, CrawlUndecodable, UNCHANGED patchVars
    PROVE  PatcherInv'
<1> USE DEF PatcherInv, CrawlUndecodable, patchVars
<1>1. /\ code \in 1 .. Len(text) /\ code' = code + 1 /\ Len(text) \in Nat
      /\ text \in Seq(intercept_disasm_result) /\ TextOK(text)
  BY DEF TypeOK
<1>2. TypeOK'
  BY SMTT(30), <1>1 DEF TypeOK
<1>3. \A ins : Decoded(code, ins) => Decoded(code + 1, ins)
  BY SMTT(30), <1>1 DEF Decoded
<1>4. PrevsDecoded'
  BY SMTT(30), <1>1, <1>3 DEF PrevsDecoded, Decoded
<1>5. ItemsDescribed'
  BY SMTT(30), <1>1, <1>3 DEF ItemsDescribed, Described, Decoded
<1>6. NopsKnown'
  BY SMTT(30), <1>1 DEF NopsKnown
<1>7. InsOK(text[code]) /\ text[code].ref = NULL
  BY ZenonT(60), <1>1, TextFacts DEF InsOK
<1>8. ~InText(text, text[code].ref)
  <2> HIDE DEF PatcherInv, CrawlUndecodable, patchVars
  <2>1. text_start(text) \in Nat /\ text_start(text) > 0
    BY <1>1, TextFacts, Zenon
  <2> QED BY <1>7, <2>1 DEF InText, NULL
<1>9. MarksComplete'
  BY <1>1, <1>8 DEF MarksComplete, find_jumps_in_section_syms,
                    find_jumps_in_section_rela
<1>10. Planned = {} /\ Planned' = {}
  BY SMTT(30) DEF PlanFrontier, Planned
<1>11. PlanFrontier' /\ PlansFollowed'
  BY <1>10 DEF PlanFrontier, PlansFollowed
<1> QED BY <1>2, <1>4, <1>5, <1>6, <1>9, <1>11

\* Shifting an instruction into the three that crawl_text remembers.
LEMMA ShiftPrevs ==
    ASSUME NEW S, NEW s \in Seq(S), Len(s) = 3, NEW x \in S,
           NEW t, t = <<s[2], s[3], x>>
    PROVE  /\ s[1] \in S /\ s[2] \in S /\ s[3] \in S
           /\ t \in Seq(S) /\ Len(t) = 3
           /\ t[1] = s[2] /\ t[2] = s[3] /\ t[3] = x
BY SMTT(30)

\* So does sweeping over one instruction: the marks, the NOP and the patch
\* description it adds extend what is known up to code.
LEMMA CrawlInstructionInv ==
    ASSUME PatcherInv, CrawlInstruction, UNCHANGED patchVars
    PROVE  PatcherInv'
<1>0. PICK result : result = text[code]
  BY SMTT(30)
<1>1. /\ code \in 1 .. Len(text) /\ code' = code + 1 /\ Len(text) \in Nat
      /\ text \in Seq(intercept_disasm_result) /\ TextOK(text)
      /\ text' = text /\ symtab' = symtab /\ relatab' = relatab
      /\ phase = "crawl" /\ phase' = "crawl" /\ result.length # 0
  BY SMTT(30), <1>0 DEF CrawlInstruction, PatcherInv, TypeOK
<1>2. /\ InsOK(result) /\ result \in intercept_disasm_result
      /\ result.address \in Nat /\ result.ref \in Nat /\ result.length \in Nat
  BY SMTT(30), <1>0, <1>1, TextFacts, InsFacts
<1>3. \A ins : Decoded(code, ins) => Decoded(code + 1, ins)
  BY <1>1 DEF Decoded
<1>4. Decoded(code + 1, result)
  BY <1>0, <1>1 DEF Decoded
<1>5. prevs' = <<prevs[2], prevs[3], result>>
  BY <1>0 DEF CrawlInstruction
<1>6. /\ prevs[1] \in intercept_disasm_result \cup {Unset}
      /\ prevs[2] \in intercept_disasm_result \cup {Unset}
      /\ prevs' \in Seq(intercept_disasm_result \cup {Unset})
      /\ Len(prevs') = 3
      /\ prevs'[1] = prevs[2] /\ prevs'[2] = prevs[3] /\ prevs'[3] = result
  <2>1. prevs \in Seq(intercept_disasm_result \cup {Unset}) /\ Len(prevs) = 3
    BY DEF PatcherInv, TypeOK
  <2>2. result \in intercept_disasm_result \cup {Unset}
    BY <1>2
  <2> QED BY <1>5, <2>1, <2>2, ShiftPrevs
<1>7. PrevsDecoded'
  <2>1. \A m \in 1 .. 3 : prevs[m] = Unset \/ Decoded(code, prevs[m])
    BY DEF PatcherInv, PrevsDecoded
  <2>2. \A m \in 1 .. 3 : prevs'[m] = Unset \/ Decoded(code + 1, prevs'[m])
    BY <1>3, <1>4, <1>6, <2>1
  <2> QED BY <1>1, <2>2 DEF PrevsDecoded, Decoded
<1>8. /\ jump_table' \subseteq {a \in Nat : InText(text, a)}
      /\ jump_table \subseteq jump_table'
      /\ InText(text, result.ref) => result.ref \in jump_table'
  <2>1. jump_table \subseteq {a \in Nat : InText(text, a)}
    BY DEF PatcherInv, TypeOK
  <2>2. CASE has_ip_relative_opr(result)
    <3>1. jump_table' = mark_jump({result.ref})
      BY <1>0, <2>2 DEF CrawlInstruction
    <3> QED BY SMTT(30), <1>2, <2>1, <3>1, MarkJump
  <2>3. CASE ~has_ip_relative_opr(result)
    <3>1. jump_table' = jump_table
      BY SMTT(30), <1>0, <2>3 DEF CrawlInstruction
    <3>2. ~InText(text, result.ref)
      BY SMTT(30), <1>1, <2>3, TextFacts DEF InText, NULL, has_ip_relative_opr
    <3> QED BY SMTT(30), <2>1, <3>1, <3>2
  <2> QED BY <2>2, <2>3
<1>9. MarksComplete'
  <2>1. \A k \in 1 .. code' - 1 :
           InText(text, text[k].ref) => text[k].ref \in jump_table'
    <3> SUFFICES ASSUME NEW k \in 1 .. code' - 1, InText(text, text[k].ref)
                 PROVE  text[k].ref \in jump_table'
      OBVIOUS
    <3>1. CASE k \in 1 .. code - 1
      BY <1>8, <3>1, Zenon DEF PatcherInv, MarksComplete
    <3>2. CASE k = code
      BY <1>0, <1>8, <3>2
    <3> QED BY <1>1, <3>1, <3>2
  <2>2. \A a \in find_jumps_in_section_syms \cup find_jumps_in_section_rela :
           InText(text, a) => a \in jump_table'
    BY <1>1, <1>8, Zenon DEF PatcherInv, MarksComplete
  <2> QED BY <1>1, <2>1, <2>2 DEF MarksComplete, find_jumps_in_section_syms,
                                  find_jumps_in_section_rela
<1>10. nop_table' \in Seq(range) /\ NopsKnown' /\ Len(nop_table') >= Len(nop_table)
  <2>1. nop_table \in Seq(range) /\ NopsKnown
    BY SMTT(30) DEF PatcherInv, TypeOK
  <2>2. CASE nop_table' = nop_table
    BY SMTT(30), <1>1, <2>1, <2>2 DEF NopsKnown
  <2>3. CASE /\ is_overwritable_nop(result)
             /\ nop_table' = Append(nop_table,
                    [address |-> result.address, size |-> result.length])
    <3> DEFINE r == [address |-> result.address, size |-> result.length]
    <3>1. r \in range
      BY SMTT(30), <1>2 DEF range
    <3>2. /\ nop_table' \in Seq(range)
          /\ Len(nop_table') = Len(nop_table) + 1 /\ Len(nop_table) \in Nat
          /\ \A n \in 1 .. Len(nop_table) : nop_table'[n] = nop_table[n]
          /\ nop_table'[Len(nop_table) + 1] = r
      BY <2>1, <2>3, <3>1
    <3>3. /\ r.address = result.address /\ r.size = result.length
      OBVIOUS
    <3>4. \A n \in 1 .. Len(nop_table) : nop_table[n].address < r.address
      <4> SUFFICES ASSUME NEW n \in 1 .. Len(nop_table)
                   PROVE  nop_table[n].address < result.address
        BY <3>3
      <4>1. PICK k \in 1 .. code - 1 : nop_table[n].address = text[k].address
        BY <2>1 DEF NopsKnown
      <4>2. k \in 1 .. Len(text) /\ k < code
        BY SMTT(30), <1>1
      <4>3. End(text[k]) <= result.address
        BY SMTT(30), <1>0, <1>1, <4>2, TextFacts
      <4>4. text[k].address < End(text[k]) /\ text[k].address \in Nat
              /\ End(text[k]) \in Nat
        BY <1>1, <4>2, TextFacts, InsFacts, Zenon
      <4> QED BY <4>1, <4>3, <4>4, <1>2
    <3> HIDE DEF r
    <3>5. \A n \in 1 .. Len(nop_table') :
             \E k \in 1 .. code' - 1 :
                /\ is_overwritable_nop(text[k])
                /\ nop_table'[n].address = text[k].address
                /\ nop_table'[n].size = text[k].length
      <4> SUFFICES ASSUME NEW n \in 1 .. Len(nop_table')
                   PROVE  \E k \in 1 .. code' - 1 :
                             /\ is_overwritable_nop(text[k])
                             /\ nop_table'[n].address = text[k].address
                             /\ nop_table'[n].size = text[k].length
        BY SMTT(30)
      <4>1. CASE n \in 1 .. Len(nop_table)
        BY SMTT(30), <1>1, <2>1, <3>2, <4>1 DEF NopsKnown
      <4>2. CASE n = Len(nop_table) + 1
        BY SMTT(30), <1>0, <1>1, <2>3, <3>2, <3>3, <4>2
      <4> QED BY <3>2, <4>1, <4>2
    <3>6. \A n, m \in 1 .. Len(nop_table') :
             n < m => nop_table'[n].address < nop_table'[m].address
      BY SMTT(30), <2>1, <3>2, <3>4 DEF NopsKnown
    <3>7. text' = text
      BY <1>1
    <3>8. NopsKnown'
      BY SMTT(30), <3>5, <3>6, <3>7 DEF NopsKnown
    <3> QED BY <3>2, <3>8
  <2> QED BY <1>0, <2>2, <2>3 DEF CrawlInstruction, mark_nop
<1>11. /\ items' \in Seq(patch_desc) /\ items_space' \in Nat
       /\ ItemsDescribed' /\ Planned' = {}
       /\ Len(items') >= Len(items)
  <2>1. /\ items \in Seq(patch_desc) /\ items_space \in Nat
        /\ ItemsDescribed /\ Planned = {}
    BY SMTT(30), <1>1 DEF PatcherInv, TypeOK, PlanFrontier
  <2>2. CASE items' = items /\ items_space' = items_space
    BY <1>1, <1>3, <2>1, <2>2 DEF ItemsDescribed, Described, Decoded, Planned
  <2>3. CASE syscall_before_result /\ add_new_patch(described_patch(result))
    <3> DEFINE q == described_patch(result)
    <3>1. PICK k \in 1 .. code - 1 : prevs[3] = text[k]
      BY SMTT(30), <2>3 DEF syscall_before_result, PatcherInv, PrevsDecoded, Decoded,
                  is_syscall, Unset
    <3>2. /\ End(text[k]) \in Nat /\ End(text[k]) <= result.address
          /\ End(text[k]) >= SYSCALL_INS_SIZE
      <4>1. k \in 1 .. Len(text) /\ k < code
        BY SMTT(30), <1>1
      <4>2. End(text[k]) <= result.address /\ InsOK(text[k])
        <5>1. /\ text \in Seq(intercept_disasm_result) /\ TextOK(text)
              /\ code \in 1 .. Len(text)
          BY <1>1
        <5> QED BY <1>0, <4>1, <5>1, TextFacts, ZenonT(30)
      <4>3. is_syscall(text[k])
        BY <2>3, <3>1 DEF syscall_before_result
      <4> QED BY <4>2, <4>3, InsFacts DEF SYSCALL_INS_SIZE
    <3>3. result.address - SYSCALL_INS_SIZE \in Nat
      BY <1>2, <3>2 DEF SYSCALL_INS_SIZE
    <3>4. /\ q.preceding_ins_2 = prevs[1] /\ q.preceding_ins = prevs[2]
          /\ q.following_ins = result
          /\ q.syscall_addr = result.address - SYSCALL_INS_SIZE
          /\ q.return_address = NULL
      BY DEF described_patch, ZeroPatch
    <3>5. q \in patch_desc
      <4>1. ZeroPatch \in patch_desc
        BY DEF ZeroPatch, patch_desc, NoRange, range, NULL
      <4>2. /\ result \in intercept_disasm_result \cup {Unset}
            /\ result.address - SYSCALL_INS_SIZE \in Nat
        BY <1>2, <3>3
      <4> QED BY <1>6, <4>1, <4>2, Zenon DEF described_patch, patch_desc
    <3> HIDE DEF q
    <3>6. /\ items' \in Seq(patch_desc)
          /\ Len(items') = Len(items) + 1 /\ Len(items) \in Nat
          /\ \A i \in 1 .. Len(items) : items'[i] = items[i]
          /\ items'[Len(items) + 1] = q
      BY <2>1, <2>3, <3>5 DEF add_new_patch, q
    <3>7. items_space' \in Nat
      BY SMTT(30), <2>1, <2>3, <3>6 DEF add_new_patch, grown_space
    <3>8. Described(code + 1, q)
      BY <1>3, <1>4, <3>4 DEF Described, PatcherInv, PrevsDecoded
    <3>9. \A i \in 1 .. Len(items) : items[i].syscall_addr < q.syscall_addr
      <4> SUFFICES ASSUME NEW i \in 1 .. Len(items)
                   PROVE  items[i].syscall_addr < q.syscall_addr
        OBVIOUS
      <4>1. PICK m \in 1 .. code - 1 : items[i].following_ins = text[m]
        BY <2>1 DEF ItemsDescribed, Described, Decoded
      <4>2. m \in 1 .. Len(text) /\ m < code
        BY SMTT(30), <1>1
      <4>3. End(text[m]) <= result.address
        BY SMTT(30), <1>0, <1>1, <4>2, TextFacts
      <4>4. text[m].address < End(text[m]) /\ text[m].address \in Nat
              /\ End(text[m]) \in Nat
        BY <1>1, <4>2, TextFacts, InsFacts, Zenon
      <4>5. items[i].syscall_addr = text[m].address - SYSCALL_INS_SIZE
        BY <2>1, <4>1 DEF ItemsDescribed, Described
      <4> QED BY SMTT(30), <1>2, <3>4, <4>3, <4>4, <4>5 DEF SYSCALL_INS_SIZE
    <3>10. \A i \in 1 .. Len(items') : Described(code + 1, items'[i])
      <4>1. \A i \in 1 .. Len(items) : Described(code + 1, items[i])
        BY SMTT(30), <1>3, <2>1 DEF ItemsDescribed, Described
      <4> QED BY SMTT(30), <3>6, <3>8, <4>1
    <3>11. \A i, j \in 1 .. Len(items') :
              i < j => items'[i].syscall_addr < items'[j].syscall_addr
      BY SMTT(30), <2>1, <3>6, <3>9 DEF ItemsDescribed
    <3>12. ItemsDescribed'
      BY <1>1, <3>10, <3>11 DEF ItemsDescribed, Described, Decoded
    <3>13. Planned' = {}
      BY SMTT(30), <2>1, <3>4, <3>6 DEF Planned
    <3> QED BY SMTT(30), <3>6, <3>7, <3>12, <3>13
  <2> QED BY <1>0, <2>2, <2>3 DEF CrawlInstruction
<1>12. TypeOK'
  <2>1. has_prevs' \in 0 .. 2
    BY SMTT(30) DEF CrawlInstruction, PatcherInv, TypeOK
  <2>2. /\ patch_i \in 1 .. Len(items) + 1
        /\ next_nop_i \in 0 .. Len(nop_table)
        /\ Len(items) \in Nat /\ Len(items') \in Nat
        /\ Len(nop_table) \in Nat /\ Len(nop_table') \in Nat
    BY <1>10, <1>11 DEF PatcherInv, TypeOK
  <2>3. /\ patch_i' \in 1 .. Len(items') + 1
        /\ next_nop_i' \in 0 .. Len(nop_table')
    BY <1>10, <1>11, <2>2 DEF patchVars
  <2>4. /\ symtab \subseteq Elf64_Sym /\ relatab \subseteq Elf64_Rela
        /\ next_asm_wrapper_space \in Nat
        /\ uses_trampoline_table \in BOOLEAN /\ writable \in Nat
    BY DEF PatcherInv, TypeOK
  <2>5. /\ next_asm_wrapper_space' \in Nat
        /\ uses_trampoline_table' \in BOOLEAN /\ writable' \in Nat
    BY <2>4 DEF patchVars
  <2>6. /\ text' \in Seq(intercept_disasm_result) /\ TextOK(text')
        /\ symtab' \subseteq Elf64_Sym /\ relatab' \subseteq Elf64_Rela
        /\ phase' \in Phases
        /\ code' \in 1 .. Len(text') + 1
    BY <1>1, <2>4 DEF Phases
  <2>7. jump_table' \subseteq {a \in Nat : InText(text', a)}
    BY SMTT(30), <1>1, <1>8
  <2> QED BY ZenonT(60), <1>6, <1>10, <1>11, <2>1, <2>3, <2>5, <2>6, <2>7 DEF TypeOK
<1>13. PlanFrontier' /\ PlansFollowed'
  BY <1>1, <1>11 DEF PlanFrontier, PlansFollowed
<1> QED BY <1>7, <1>9, <1>10, <1>11, <1>12, <1>13 DEF PatcherInv

\* At the end of the sweep every destination inside of the text is marked.
LEMMA CrawlEndInv ==
    ASSUME PatcherInv, CrawlEnd, UNCHANGED patchVars
    PROVE  PatcherInv'
<1> USE DEF CrawlEnd, patchVars
<1>1. UNCHANGED crawlVars /\ UNCHANGED next_nop_i
  OBVIOUS
<1>2. /\ PrevsDecoded' /\ ItemsDescribed' /\ NopsKnown' /\ PlansFollowed'
      /\ Planned' = Planned
  BY <1>1, Untouched
<1>3. TypeOK'
  BY SMTT(30) DEF PatcherInv, TypeOK, Phases, crawlVars
<1>4. MarksComplete'
  BY DEF PatcherInv, TypeOK, MarksComplete, crawlVars,
         find_jumps_in_section_syms, find_jumps_in_section_rela
<1>5. PlanFrontier'
  <2>1. Planned = {}
    BY DEF PatcherInv, PlanFrontier
  <2>2. patch_i \in Nat \ {0} /\ patch_i' = patch_i /\ items' = items
    BY DEF PatcherInv, TypeOK, crawlVars
  <2> QED BY <2>1, <2>2 DEF PlanFrontier, Planned
<1> QED BY <1>2, <1>3, <1>4, <1>5 DEF PatcherInv

-----------------------------------------------------------------------------
=============================================================================
