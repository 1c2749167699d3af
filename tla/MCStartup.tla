----------------------------- MODULE MCStartup -----------------------------
(***************************************************************************)
(* Processes with up to MaxObjects loaded objects, of every kind that the  *)
(* constructor tells apart.                                                *)
(***************************************************************************)
EXTENDS Startup

CONSTANTS MaxObjects, Big

Plain ==
    [addr |-> "other", path_vdso |-> FALSE, name |-> "other",
     dlpi_name |-> TRUE, used_vaddr |-> TRUE, in_maps |-> TRUE,
     path_size |-> LineSize, sizes |-> <<TmplSize + 1>>,
     text_section |-> TRUE, symbol_tables |-> MaxHeaders, rela_tables |-> 1]

Program == [Plain EXCEPT !.dlpi_name = FALSE]

Libc == [Plain EXCEPT !.name = "libc",
                      !.sizes = <<TmplSize + Slack, TmplSize>>]

BigLibc == [Libc EXCEPT !.sizes = [i \in 1 .. 5 |-> TmplSize + 1]]

Objects ==
    {Plain, Program, Libc,
     [Program EXCEPT !.path_size = 1],
     [Program EXCEPT !.used_vaddr = FALSE],
     [Program EXCEPT !.in_maps = FALSE],
     [Plain EXCEPT !.name = "libpthread", !.sizes = <<>>],
     [Plain EXCEPT !.name = "libpthread"],
     [Plain EXCEPT !.name = "libcapstone"],
     [Plain EXCEPT !.text_section = FALSE],
     [Plain EXCEPT !.rela_tables = MaxHeaders + 1],
     [Plain EXCEPT !.name = ""],
     [Plain EXCEPT !.path_vdso = TRUE],
     [Plain EXCEPT !.addr = "self"],
     [Program EXCEPT !.addr = "vdso", !.in_maps = FALSE]}
    \cup IF Big THEN {BigLibc} ELSE {}

\* There is one vdso, and the library is loaded once.
Loaded ==
    {os \in UNION {[1 .. n -> Objects] : n \in 1 .. MaxObjects} :
        \A i, j \in DOMAIN os :
            i # j /\ os[i].addr # "other" => os[i].addr # os[j].addr}

MCProcesses ==
    [allowed : BOOLEAN, patch_all_objs : BOOLEAN, objects : Loaded]
=============================================================================
