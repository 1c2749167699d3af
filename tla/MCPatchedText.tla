--------------------------- MODULE MCPatchedText ---------------------------
(* Instances of PatchedText for TLC. *)
EXTENDS PatchedText, SmallObjects

\* A RIP-relative LEA is only combined with a single syscall, and with no
\* destination that is a syscall or the instruction behind it.
LeaSafe(p) ==
    LET t == p.text
        syscalls == {k \in DOMAIN t : t[k].kind = "syscall"}
        named == {t[k].ref : k \in DOMAIN t}
                    \cup {s.st_value : s \in p.symtab}
    IN  (\E k \in DOMAIN t : t[k].kind = "lea_rip") =>
            /\ Cardinality(syscalls) = 1
            /\ \A k \in syscalls, d \in {-1, 0, 1} :
                  k + d \in DOMAIN t => t[k + d].address \notin named

ExecPalette ==
    {<<"plain", 1>>, <<"plain", 3>>, <<"syscall", 2>>, <<"nop", 7>>,
     <<"ret", 1>>, <<"jump", 2>>}
LeaPalette ==
    {<<"plain", 1>>, <<"plain", 3>>, <<"syscall", 2>>, <<"lea_rip", 7>>,
     <<"rip", 4>>, <<"endbr", 4>>}

MCExecPrograms ==
    {p \in Objects(ExecPalette, 4, {"none"})
             \cup Objects(ExecPalette, 3, {"start"})
             \cup Objects(LeaPalette, 4, {"none"})
             \cup Objects(LeaPalette, 3, {"start"}) : LeaSafe(p)}
=============================================================================
