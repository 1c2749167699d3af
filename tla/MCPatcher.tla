----------------------------- MODULE MCPatcher -----------------------------
(* Instances of Patcher for TLC. *)
EXTENDS PatcherInvariant, SmallObjects

PlainPalette ==
    {<<"plain", 1>>, <<"plain", 3>>, <<"syscall", 2>>, <<"nop", 7>>,
     <<"ret", 1>>}
JumpPalette ==
    {<<"plain", 3>>, <<"syscall", 2>>, <<"lea_rip", 7>>, <<"jump", 2>>,
     <<"bad", 0>>}

\* Texts of five instructions, and shorter ones that jump or whose tables name
\* an instruction.
MCPrograms ==
    Objects(PlainPalette, 5, {"none"})
      \cup Objects(PlainPalette, 4, {"end", "rela"})
      \cup Objects(JumpPalette, 4, {"none"})
=============================================================================
