------------------------------ MODULE Startup ------------------------------
(***************************************************************************)
(* intercept() of intercept.c, the constructor of the library: decide      *)
(* whether this process is to be intercepted, pick the objects to patch,   *)
(* generate the wrappers of all their syscalls into asm_wrapper_space,     *)
(* make these executable, and only then overwrite text.                    *)
(***************************************************************************)
EXTENDS Integers, Sequences, FiniteSets

CONSTANTS
    Processes,     \* the processes: their environment and loaded objects
    SpaceBases,    \* addresses that asm_wrapper_space may have
    SpaceSize,     \* sizeof(asm_wrapper_space)
    PageSize,      \* PAGE_SIZE
    TmplSize,      \* asm_wrapper_tmpl_size
    Slack,         \* 256: room for what a wrapper adds to the template
    PathsSize,     \* sizeof(paths)
    LineSize,      \* sizeof(line)
    MaxHeaders     \* 0x10: the tables that a section_list can hold

Names == {"libc", "libpthread", "libcapstone", "other", ""}

\* An object as dl_iterate_phdr reports it.  The name is the file name up to
\* the first '-' or '.'; sizes are those of the wrappers its syscalls need.
dl_phdr_info ==
    [addr : {"vdso", "self", "other"},
     path_vdso : BOOLEAN,         \* the path contains "vdso"
     name : Names,
     dlpi_name : BOOLEAN,         \* the loader knows the path
     used_vaddr : BOOLEAN,        \* there is a segment in memory
     in_maps : BOOLEAN,           \* /proc/self/maps names its file
     path_size : 1 .. LineSize,   \* of the path and its terminating zero
     text_section : BOOLEAN,      \* its file has a .text
     symbol_tables : Nat,         \* how many tables of each kind it has
     rela_tables : Nat,
     sizes : Seq(TmplSize .. TmplSize + Slack)]

ProcessOK(p) ==
    /\ p.allowed \in BOOLEAN
    /\ p.patch_all_objs \in BOOLEAN
    /\ p.objects \in Seq(dl_phdr_info)

ASSUME StartupAssumption ==
    /\ PageSize \in Nat \ {0} /\ SpaceSize \in Nat /\ PageSize <= SpaceSize
    /\ TmplSize \in Nat \ {0} /\ Slack \in Nat
    /\ LineSize \in Nat \ {0} /\ PathsSize \in Nat /\ LineSize <= PathsSize
    /\ SpaceBases \subseteq Nat /\ MaxHeaders \in Nat
    /\ \A p \in Processes : ProcessOK(p)

VARIABLES
    process,
    asm_wrapper_space,        \* its address
    pc,                       \* the next statement of intercept()
    next_object,              \* the object dl_iterate_phdr reports next
    next_path,                \* used bytes of paths
    objs,                     \* the objects to patch
    libc_found,
    next_wrapper,             \* object and patch to generate a wrapper for
    next_asm_wrapper_space,
    wrappers,                 \* the wrappers generated so far
    executable,               \* the pages made executable
    active,                   \* positions in objs of the patched objects
    failure

vars == <<process, asm_wrapper_space, pc, next_object, next_path, objs,
          libc_found, next_wrapper, next_asm_wrapper_space, wrappers,
          executable, active, failure>>

space_end == asm_wrapper_space + SpaceSize

NoPages == [start |-> 0, end |-> 0]

-----------------------------------------------------------------------------
(***************************************************************************)
(* Which objects are patched.                                              *)
(***************************************************************************)
path_in_maps_unbounded(o) == o.used_vaddr /\ o.in_maps

\* get_name_from_proc_maps finds a path if there is space for the longest one.
path_in_maps(o) ==
    /\ o.used_vaddr
    /\ next_path < PathsSize - LineSize
    /\ o.in_maps

get_object_path(o) == o.dlpi_name \/ path_in_maps(o)

path_bytes(o) ==
    IF ~o.dlpi_name /\ path_in_maps(o) THEN o.path_size ELSE 0

is_vdso(o) == o.addr = "vdso" \/ o.path_vdso

is_libc(o) ==
    /\ ~is_vdso(o)
    /\ o.addr # "self"
    /\ o.name = "libc"

should_patch_object(o) ==
    /\ ~is_vdso(o)
    /\ o.name # ""
    /\ o.addr # "self"
    /\ o.name # "libcapstone"
    /\ o.name = "libc" \/ process.patch_all_objs \/ o.name = "libpthread"

-----------------------------------------------------------------------------
Init ==
    /\ process \in Processes
    /\ asm_wrapper_space \in SpaceBases
    /\ pc = "filter"
    /\ next_object = 1
    /\ next_path = 0
    /\ objs = <<>>
    /\ libc_found = FALSE
    /\ next_wrapper = <<1, 1>>
    /\ next_asm_wrapper_space = asm_wrapper_space + PageSize
    /\ wrappers = {}
    /\ executable = NoPages
    /\ active = {}
    /\ failure = "none"

xabort(message) == pc' = "aborted" /\ failure' = message

\* The command line filter, then the log: opening its file may fail.
Setup ==
    /\ pc = "filter"
    /\ \/ ~process.allowed /\ pc' = "off" /\ UNCHANGED failure
       \/ process.allowed /\ pc' = "objects" /\ UNCHANGED failure
       \/ process.allowed /\ xabort("opening log")
    /\ UNCHANGED <<process, asm_wrapper_space, next_object, next_path, objs,
                   libc_found, next_wrapper, next_asm_wrapper_space, wrappers,
                   executable, active>>

\* What find_sections makes of the section headers of an object's file.
find_sections(o) ==
    CASE o.symbol_tables > MaxHeaders \/ o.rela_tables > MaxHeaders ->
             "allocated section_list exhausted"
      [] o.symbol_tables <= MaxHeaders /\ o.rela_tables <= MaxHeaders
            /\ ~o.text_section -> "text section not found"
      [] OTHER -> "found"

\* The callback of dl_iterate_phdr.  Opening and reading the file of an object,
\* in find_syscalls, may fail too.
analyze_object ==
    /\ pc = "objects"
    /\ next_object <= Len(process.objects)
    /\ next_object' = next_object + 1
    /\ LET o == process.objects[next_object]
       IN  /\ next_path' = next_path + path_bytes(o)
           /\ \/ /\ ~(get_object_path(o) /\ should_patch_object(o))
                 /\ UNCHANGED <<pc, objs, libc_found, failure>>
              \/ /\ get_object_path(o) /\ should_patch_object(o)
                 /\ libc_found' = (libc_found \/ is_libc(o))
                 /\ objs' = Append(objs, o)
                 /\ \/ xabort("open_orig_file")
                    \/ /\ find_sections(o) # "found"
                       /\ xabort(find_sections(o))
                    \/ /\ find_sections(o) = "found"
                       /\ UNCHANGED <<pc, failure>>
    /\ UNCHANGED <<process, asm_wrapper_space, next_wrapper,
                   next_asm_wrapper_space, wrappers, executable, active>>

ObjectsEnd ==
    /\ pc = "objects"
    /\ next_object > Len(process.objects)
    /\ \/ ~libc_found /\ xabort("libc not found")
       \/ libc_found /\ pc' = "wrappers" /\ UNCHANGED failure
    /\ UNCHANGED <<process, asm_wrapper_space, next_object, next_path, objs,
                   libc_found, next_wrapper, next_asm_wrapper_space, wrappers,
                   executable, active>>

is_asm_wrapper_space_full ==
    next_asm_wrapper_space + TmplSize + Slack > space_end

\* The loop over objs: before the first wrapper of an object, the space that
\* is left is checked and the trampoline table of the object allocated.
BeginObject ==
    /\ pc = "wrappers"
    /\ next_wrapper[1] <= Len(objs)
    /\ next_wrapper[2] = 1
    /\ \/ /\ objs[next_wrapper[1]].sizes # <<>>
          /\ is_asm_wrapper_space_full
          /\ xabort("not enough space in asm_wrapper_space")
       \/ /\ ~(objs[next_wrapper[1]].sizes # <<>> /\ is_asm_wrapper_space_full)
          /\ \/ pc' = "create" /\ UNCHANGED failure
             \/ xabort("unable to find place for trampoline table")
    /\ UNCHANGED <<process, asm_wrapper_space, next_object, next_path, objs,
                   libc_found, next_wrapper, next_asm_wrapper_space, wrappers,
                   executable, active>>

\* One round of the loop of create_patch_wrappers.
create_wrapper ==
    /\ pc = "create"
    /\ next_wrapper[2] <= Len(objs[next_wrapper[1]].sizes)
    /\ \/ LET end == next_asm_wrapper_space
                       + objs[next_wrapper[1]].sizes[next_wrapper[2]]
          IN  /\ wrappers' = wrappers \cup
                    {[obj |-> next_wrapper[1], patch |-> next_wrapper[2],
                      start |-> next_asm_wrapper_space, end |-> end]}
              /\ next_asm_wrapper_space' = end
              /\ next_wrapper' = [next_wrapper EXCEPT ![2] = @ + 1]
              /\ UNCHANGED <<pc, failure>>
       \/ /\ xabort("not enough space for patching")
          /\ UNCHANGED <<wrappers, next_asm_wrapper_space, next_wrapper>>
    /\ UNCHANGED <<process, asm_wrapper_space, next_object, next_path, objs,
                   libc_found, executable, active>>

EndObject ==
    /\ pc = "create"
    /\ next_wrapper[2] > Len(objs[next_wrapper[1]].sizes)
    /\ next_wrapper' = <<next_wrapper[1] + 1, 1>>
    /\ pc' = "wrappers"
    /\ UNCHANGED <<process, asm_wrapper_space, next_object, next_path, objs,
                   libc_found, next_asm_wrapper_space, wrappers, executable,
                   active, failure>>

round_down_address(a) == (a \div PageSize) * PageSize

\* The kernel applies mprotect to whole pages.
mprotect_asm_wrappers_first_page ==
    /\ pc = "wrappers"
    /\ next_wrapper[1] > Len(objs)
    /\ executable' = [start |-> round_down_address(asm_wrapper_space),
                      end |-> round_down_address(asm_wrapper_space)
                                + SpaceSize - PageSize]
    /\ pc' = "activate"
    /\ UNCHANGED <<process, asm_wrapper_space, next_object, next_path, objs,
                   libc_found, next_wrapper, next_asm_wrapper_space, wrappers,
                   active, failure>>

mprotect_asm_wrappers_early ==
    /\ pc = "wrappers"
    /\ LET first == round_down_address(asm_wrapper_space + PageSize)
       IN  executable' = [start |-> first, end |-> first + SpaceSize - PageSize]
    /\ pc' = "activate"
    /\ UNCHANGED <<process, asm_wrapper_space, next_object, next_path, objs,
                   libc_found, next_wrapper, next_asm_wrapper_space, wrappers,
                   active, failure>>

mprotect_asm_wrappers ==
    /\ pc = "wrappers"
    /\ next_wrapper[1] > Len(objs)
    /\ \/ LET first == round_down_address(asm_wrapper_space + PageSize)
          IN  /\ executable' = [start |-> first,
                                end |-> first + SpaceSize - PageSize]
              /\ pc' = "activate"
              /\ UNCHANGED failure
       \/ xabort("mprotect_asm_wrappers") /\ UNCHANGED executable
    /\ UNCHANGED <<process, asm_wrapper_space, next_object, next_path, objs,
                   libc_found, next_wrapper, next_asm_wrapper_space, wrappers,
                   active>>

\* The last loop over objs.
activate_patches ==
    /\ pc = "activate"
    /\ Cardinality(active) < Len(objs)
    /\ \/ /\ active' = active \cup {Cardinality(active) + 1}
          /\ UNCHANGED <<pc, failure>>
       \/ xabort("mprotect") /\ UNCHANGED active
    /\ UNCHANGED <<process, asm_wrapper_space, next_object, next_path, objs,
                   libc_found, next_wrapper, next_asm_wrapper_space, wrappers,
                   executable>>

ActivateEnd ==
    /\ pc = "activate"
    /\ Cardinality(active) = Len(objs)
    /\ pc' = "done"
    /\ UNCHANGED <<process, asm_wrapper_space, next_object, next_path, objs,
                   libc_found, next_wrapper, next_asm_wrapper_space, wrappers,
                   executable, active, failure>>

Next ==
    \/ Setup \/ analyze_object \/ ObjectsEnd
    \/ BeginObject \/ create_wrapper \/ EndObject
    \/ mprotect_asm_wrappers \/ activate_patches \/ ActivateEnd

Spec == Init /\ [][Next]_vars
-----------------------------------------------------------------------------
(***************************************************************************)
(* Properties.                                                             *)
(***************************************************************************)
\* However many objects have no name, the paths get_name_from_proc_maps reads
\* from /proc/self/maps do not go beyond its buffer.
PathsFit == next_path <= PathsSize

\* When an object is patched, the wrappers of all its syscalls, and of all
\* other objects, have been generated.  The code that handles an intercepted
\* syscall is never patched itself: this library, the disassembler it calls,
\* the vdso.
PatchedLast ==
    /\ active # {} =>
          \A i \in 1 .. Len(objs) : \A j \in 1 .. Len(objs[i].sizes) :
              \E w \in wrappers : w.obj = i /\ w.patch = j
    /\ \A i \in active :
          /\ objs[i].addr = "other"
          /\ ~objs[i].path_vdso
          /\ objs[i].name # "libcapstone"

\* A patched syscall jumps to a wrapper that is executable, as long as the space
\* was not used up: mprotect_asm_wrappers leaves out the bytes of its last page,
\* if the array does not start at a page.
PatchedExecutable ==
    next_asm_wrapper_space <= space_end - (asm_wrapper_space % PageSize) =>
        \A w \in wrappers : w.obj \in active =>
            executable.start <= w.start /\ w.end <= executable.end

\* All wrappers are in asm_wrapper_space; otherwise the constructor ends with
\* "not enough space in asm_wrapper_space".
WrappersInSpace == \A w \in wrappers : w.end <= space_end
=============================================================================
