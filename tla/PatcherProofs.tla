--------------------------- MODULE PatcherProofs ---------------------------
(***************************************************************************)
(* Theorems about Patcher, for every object file and every value of the    *)
(* constants.                                                              *)
(***************************************************************************)
EXTENDS PlanProofs, PatchGeometry

\* Every step of hot-patching preserves the invariant.
LEMMA NextInv == PatcherInv /\ [PatcherNext]_vars => PatcherInv'
<1> SUFFICES ASSUME PatcherInv, [PatcherNext]_vars
             PROVE  PatcherInv'
  BY SMTT(30)
<1>0. /\ Len(items) \in Nat /\ patch_i \in 1 .. Len(items) + 1
      /\ writable \in Nat /\ phase \in Phases
  BY DEF PatcherInv, TypeOK
<1>1. CASE FindSyscallsNext /\ UNCHANGED patchVars
  BY SMTT(30), <1>1, FindJumpsInv, CrawlUndecodableInv, CrawlInstructionInv,
     CrawlEndInv DEF FindSyscallsNext
<1>2. CASE PlanPatch
  BY SMTT(30), <1>2, PlanPatchInv
<1>3. CASE PlanEnd
  BY SMTT(30), <1>0, <1>3, ActivationInv DEF PlanEnd, patchVars, Phases
<1>4. CASE ActivateBegin
  <2>1. writable' \in Nat
    <3>1. text_start(text) \in Nat /\ text_end(text) \in Nat
      BY SMTT(30), TextFacts DEF PatcherInv, TypeOK
    <3>2. mprotected_end(round_down_address(text_start(text)),
                         text_mprotect_size)
            = round_down_address(text_end(text) + PageSize - 1)
      <4>1. PICK f \in Nat : f = round_down_address(text_start(text))
        BY SMTT(30), <3>1, RoundDown
      <4>2. f + (text_end(text) - f) + PageSize - 1
              = text_end(text) + PageSize - 1
        BY SMTT(30), <3>1, PatcherAssumption
      <4> QED BY SMTT(30), <4>1, <4>2 DEF mprotected_end, text_mprotect_size
    <3>3. text_end(text) + PageSize - 1 \in Nat
      BY SMTT(30), <3>1, PatcherAssumption
    <3> QED BY ZenonT(60), <1>0, <1>4, <3>2, <3>3, RoundDown DEF ActivateBegin
  <2>2. /\ phase = "planned"
        /\ phase' \in {"done", "activate", "aborted"}
        /\ patch_i' = 1
        /\ UNCHANGED <<crawlVars, next_nop_i, next_asm_wrapper_space,
                       uses_trampoline_table>>
    BY SMTT(30), <1>4 DEF ActivateBegin, xabort
  <2>3. patch_i' \in 1 .. Len(items) + 1
    BY SMTT(30), <1>0, <2>2
  <2> QED BY SMTT(30), <2>1, <2>2, <2>3, ActivationInv DEF Phases
<1>5. CASE ActivatePatch
  <2>1. /\ phase = "activate"
        /\ phase' \in {"activate", "aborted", "fault"}
        /\ writable' = writable
        /\ UNCHANGED <<crawlVars, next_nop_i, next_asm_wrapper_space,
                       uses_trampoline_table>>
    BY SMTT(30), <1>5 DEF ActivatePatch, xabort
  <2>2. patch_i' \in 1 .. Len(items) + 1
    BY SMTT(30), <1>0, <1>5 DEF ActivatePatch
  <2> QED BY SMTT(30), <1>0, <2>1, <2>2, ActivationInv DEF Phases
<1>6. CASE ActivateEnd
  <2>1. /\ phase = "activate"
        /\ phase' \in {"done", "aborted"}
        /\ patch_i' = patch_i /\ writable' \in Nat
        /\ UNCHANGED <<crawlVars, next_nop_i, next_asm_wrapper_space,
                       uses_trampoline_table>>
    BY SMTT(30), <1>0, <1>6 DEF ActivateEnd, xabort
  <2> QED BY SMTT(30), <1>0, <2>1, ActivationInv DEF Phases
<1>7. CASE UNCHANGED vars
  <2>1. UNCHANGED crawlVars /\ UNCHANGED next_nop_i
    BY SMTT(30), <1>7 DEF vars, patchVars
  <2>2. PrevsDecoded' /\ ItemsDescribed' /\ NopsKnown' /\ PlansFollowed'
    BY SMTT(30), <2>1, Untouched
  <2>3. TypeOK'
    BY SMTT(30), <1>7 DEF PatcherInv, TypeOK, vars, patchVars, crawlVars
  <2>4. MarksComplete' /\ PlanFrontier'
    BY SMTT(30), <1>7 DEF PatcherInv, MarksComplete, PlanFrontier, Planned, vars,
                patchVars, crawlVars, find_jumps_in_section_syms,
                find_jumps_in_section_rela
  <2> QED BY SMTT(30), <2>2, <2>3, <2>4 DEF PatcherInv
<1> QED BY SMTT(30), <1>1, <1>2, <1>3, <1>4, <1>5, <1>6, <1>7 DEF PatcherNext

\* The invariant holds throughout hot-patching of an object.
THEOREM Invariance == Spec => []PatcherInv
BY InitInv, NextInv, PTL DEF Spec

\* Every variable of hot-patching always has a value of its type: for one,
\* no mark of the bitmap is outside of the text section.
THEOREM TypeCorrect == Spec => []TypeOK
<1>1. PatcherInv => TypeOK
  BY SMTT(30) DEF PatcherInv
<1> QED BY <1>1, Invariance, PTL

\* assign_nop_trampoline gives every NOP to one syscall at most.
THEOREM NopsOnce == Spec => []NopsAssignedOnce
<1>1. PatcherInv => NopsAssignedOnce
  <2> SUFFICES ASSUME PatcherInv, NEW i \in Planned, NEW j \in Planned,
                      i # j, items[i].uses_nop_trampoline,
                      items[j].uses_nop_trampoline,
                      items[i].nop_trampoline = items[j].nop_trampoline
               PROVE  FALSE
    BY DEF NopsAssignedOnce
  <2>1. i \in Nat /\ j \in Nat /\ items[i].nop_trampoline.address \in Nat
    <3>1. /\ items \in Seq(patch_desc)
          /\ i \in 1 .. Len(items) /\ j \in 1 .. Len(items)
      BY DEF PatcherInv, TypeOK, Planned
    <3>2. PICK p \in patch_desc : p = items[i]
      BY <3>1
    <3>3. p.nop_trampoline \in range
      BY DEF patch_desc
    <3>4. p.nop_trampoline.address \in Nat
      BY SMTT(30), <3>3 DEF range
    <3>5. i \in Nat /\ j \in Nat
      BY <3>1
    <3> QED BY SMTT(30), <3>2, <3>4, <3>5
  <2>2. i < j \/ j < i
    BY <2>1
  <2> QED BY SMTT(30), <2>1, <2>2 DEF PatcherInv, PlansFollowed
<1> QED BY <1>1, Invariance, PTL

\* No two patches overwrite the same byte, however close their syscalls are:
\* marking return addresses in create_patch_wrappers is enough for that.
THEOREM Disjointness == Spec => []PatchesDisjoint
BY Invariance, DisjointByInv, PTL

\* A jump never lands in the middle of a patch.
THEOREM DestinationsSafe == Spec => []JumpDestinationsIntact
BY Invariance, DestinationsByInv, PTL

\* A wrapper never returns into the middle of a patch.
THEOREM ReturnsSafe == Spec => []ReturnsIntact
BY Invariance, ReturnsByInv, PTL
=============================================================================
