---------------------------- MODULE PatchedText ----------------------------
(***************************************************************************)
(* Running the text section after hot-patching: through the bytes that     *)
(* activate_patches left behind, the trampolines and the generated         *)
(* wrappers.  It implements InterceptedText.                               *)
(***************************************************************************)
EXTENDS Patcher

VARIABLES
    pc,      \* <<where, index or address, position>> of the next instruction
    effect   \* as in InterceptedText

execVars == <<pc, effect>>
allVars == <<vars, execVars>>

Outside == <<"outside", 0, 0>>
Crashed == <<"crashed", 0, 0>>
InTextAt(a) == <<"text", a, 0>>

\* Other code enters at the start of the text or where the tables or an
\* instruction say so.
Entries == {text_start(text)} \cup JumpDestinations

-----------------------------------------------------------------------------
(***************************************************************************)
(* Fetching: the byte at an address and the ones behind it must still be   *)
(* those of a single instruction, compiled or generated.                   *)
(***************************************************************************)
GeneratedLength(op) ==
    CASE op = "jmp" -> JUMP_INS_SIZE
      [] op = "short" -> SHORT_JUMP_SIZE
      [] op = "int3" -> 1

IsGenerated(a) ==
    /\ a \in DOMAIN mem
    /\ mem[a].at = a
    /\ \A b \in a .. a + GeneratedLength(mem[a].op) - 1 :
          b \in DOMAIN mem /\ mem[b] = mem[a]

IsCompiled(k) ==
    \A b \in text[k].address .. End(text[k]) - 1 : b \notin DOMAIN mem

CompiledAt(a) == {k \in 1 .. Len(text) : text[k].address = a /\ IsCompiled(k)}

WrapperAt(a) == CHOOSE w \in 1 .. Len(wrappers) : wrappers[w].address = a

Goto(a) ==
    IF a >= WrapperSpace
    THEN <<"wrapper", WrapperAt(a), 1>>
    ELSE IF a >= TrampolineTable
         THEN <<"trampoline", (a - TrampolineTable) \div TRAMPOLINE_SIZE + 1, 0>>
         ELSE InTextAt(a)

\* The code of a wrapper: moved instructions around the call of the hook.
Body(w) ==
    wrappers[w].before
      \o <<[kind |-> "hook", length |-> 0, ref |-> NULL,
            address |-> wrappers[w].syscall_addr]>>
      \o wrappers[w].after

-----------------------------------------------------------------------------
ExecInit ==
    /\ PatcherInit
    /\ pc = Outside
    /\ effect = <<"none", NULL>>

Enter ==
    /\ phase = "done"
    /\ pc = Outside
    /\ \E a \in Entries : pc' = InTextAt(a)
    /\ UNCHANGED <<vars, effect>>

RunCompiled ==
    /\ pc[1] = "text"
    /\ \E k \in CompiledAt(pc[2]) :
          LET ins == text[k]
          IN  /\ CASE ins.kind = "ret" -> pc' = Outside
                   [] ins.kind \in {"jump", "call"} ->
                        \E a \in {ins.ref, End(ins)} : pc' = InTextAt(a)
                   [] OTHER -> pc' = InTextAt(End(ins))
              /\ effect' = CASE ins.kind = "nop" -> effect
                             [] ins.kind = "syscall"
                                  -> <<"kernel", ins.address>>
                             [] OTHER -> <<"ins", ins.address>>
    /\ UNCHANGED vars

\* Bytes that belong to no single instruction any more crash the program.
RunOverwritten ==
    /\ pc[1] = "text"
    /\ InText(text, pc[2])
    /\ CompiledAt(pc[2]) = {}
    /\ pc' = IF IsGenerated(pc[2]) /\ mem[pc[2]].op # "int3"
             THEN Goto(mem[pc[2]].to) ELSE Crashed
    /\ UNCHANGED <<vars, effect>>

RunTrampoline ==
    /\ pc[1] = "trampoline"
    /\ pc' = Goto(trampolines[pc[2]])
    /\ UNCHANGED <<vars, effect>>

RunWrapper ==
    /\ pc[1] = "wrapper"
    /\ IF pc[3] <= Len(Body(pc[2]))
       THEN LET ins == Body(pc[2])[pc[3]]
            IN  /\ pc' = IF ins.kind = "ret" THEN Outside
                         ELSE [pc EXCEPT ![3] = @ + 1]
                /\ effect' = CASE ins.kind = "nop" -> effect
                               [] ins.kind = "hook" -> <<"hook", ins.address>>
                               [] OTHER -> <<"ins", ins.address>>
       ELSE /\ pc' = InTextAt(wrappers[pc[2]].return_address)
            /\ UNCHANGED effect
    /\ UNCHANGED vars

ExecNext ==
    \/ PatcherNext /\ UNCHANGED execVars
    \/ Enter
    \/ RunCompiled \/ RunOverwritten \/ RunTrampoline \/ RunWrapper

ExecSpec == ExecInit /\ [][ExecNext]_allVars

-----------------------------------------------------------------------------
(***************************************************************************)
(* The compiled instruction that the machine is about to run.              *)
(***************************************************************************)
FirstOf(w, pos) ==
    IF pos <= Len(Body(w)) THEN Body(w)[pos].address
    ELSE wrappers[w].return_address

CompiledPc ==
    CASE pc[1] = "outside" -> NULL
      [] pc[1] = "crashed" -> -1
      [] pc[1] = "wrapper" -> FirstOf(pc[2], pc[3])
      [] pc[1] = "trampoline" -> FirstOf(WrapperAt(trampolines[pc[2]]), 1)
      [] pc[1] = "text" ->
           IF pc[2] \in DOMAIN mem /\ mem[pc[2]].op = "jmp"
              /\ mem[pc[2]].at = pc[2]
           THEN LET dst == Goto(mem[pc[2]].to)
                IN  IF dst[1] = "trampoline"
                    THEN FirstOf(WrapperAt(trampolines[dst[2]]), 1)
                    ELSE FirstOf(dst[2], 1)
           ELSE pc[2]

Compiled == INSTANCE InterceptedText WITH
                entries <- Entries, pc <- CompiledPc

\* The patched text behaves as the compiled one with every syscall replaced
\* by the hook: each instruction runs once, in order, no jump lands inside of
\* generated code, and no syscall reaches the kernel behind the hook's back.
ImplementsInterceptedText == Compiled!Spec
=============================================================================
