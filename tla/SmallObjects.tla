---------------------------- MODULE SmallObjects ----------------------------
(***************************************************************************)
(* Small shared objects to model-check the patcher on: every sequence of   *)
(* instructions of a given length over a palette of instruction shapes,    *)
(* with the symbols or relocations that may name one of the instructions.  *)
(***************************************************************************)
EXTENDS Disasm

CONSTANT Base     \* address of the first byte of text

\* A shape is <<kind, length, target>>; target is the position of the
\* instruction that a RIP-relative operand names, 0 for none.
RelativeKinds == {"jump", "call", "lea_rip", "rip"}

\* What an instruction of this shape at code looks like to capstone.
Insn(kind, length, code, target) ==
    [id |-> CASE kind = "lea_rip" -> "lea"
              [] kind \in {"rip", "plain"} -> "other"
              [] OTHER -> kind,
     length |-> length,
     op |-> CASE kind \in {"jump", "call"} ->
                   [type |-> "imm", rip |-> FALSE, value |-> target]
              [] kind \in {"lea_rip", "rip"} ->
                   [type |-> "mem", rip |-> TRUE, value |-> target - (code + length)]
              [] OTHER -> NoOperand]

\* The shapes of n instructions, whose <<kind, length>> are in palette.
Shapes(palette, n) ==
    {<<s[1], s[2], t>> :
        s \in {p \in palette : p[1] \in RelativeKinds}, t \in 1 .. n}
      \cup {<<s[1], s[2], 0>> :
              s \in {p \in palette : p[1] \notin RelativeKinds}}

\* Where the instructions of these shapes start: an undecodable one is a byte.
RECURSIVE Addresses(_, _)
Addresses(shapes, done) ==
    LET k == Len(done) + 1
        last == shapes[k - 1][2]
        next == IF k = 1 THEN Base
                ELSE done[k - 1] + IF last = 0 THEN 1 ELSE last
    IN  IF k > Len(shapes) THEN done
        ELSE Addresses(shapes, Append(done, next))

Layout(shapes) ==
    LET at == Addresses(shapes, <<>>)
        target(k) == IF shapes[k][3] = 0 THEN NULL ELSE at[shapes[k][3]]
    IN  [k \in DOMAIN shapes |->
           intercept_disasm_next_instruction(
               Insn(shapes[k][1], shapes[k][2], at[k], target(k)), at[k])]

\* Either no table entry, or one that names the instruction k: a function
\* that starts there, one that ends there, a data symbol, a relocation.
func(a, size) ==
    [st_type |-> "FUNC", in_text |-> TRUE, st_value |-> a, st_size |-> size]
data(a) ==
    [st_type |-> "OBJECT", in_text |-> TRUE, st_value |-> a, st_size |-> 0]

SymtabOf(t, v) ==
    CASE v[1] = "none" -> {}
      [] v[1] = "start" -> {func(t[v[2]].address, 0)}
      [] v[1] = "end" -> {func(Base, t[v[2]].address - Base),
                          data(t[v[2]].address)}
      [] v[1] = "rela" -> {data(t[v[2]].address)}

RelatabOf(t, v) ==
    IF v[1] = "rela"
    THEN {[r_type |-> "RELATIVE", r_addend |-> t[v[2]].address]}
    ELSE {}

Variants(kinds, n) == {v \in kinds \X (1 .. n) : v[1] = "none" => v[2] = 1}

Texts(palette, n) ==
    {Layout(s) : s \in {f \in [1 .. n -> Shapes(palette, n)] :
                          \E k \in 1 .. n : f[k][1] = "syscall"}}

\* Texts of n instructions over palette, with symbol and relocation tables of
\* the given kinds.
Objects(palette, n, kinds) ==
    {[text |-> t, symtab |-> SymtabOf(t, v), relatab |-> RelatabOf(t, v)] :
        t \in Texts(palette, n), v \in Variants(kinds, n)}
=============================================================================
