--------------------------- MODULE StartupProofs ---------------------------
(***************************************************************************)
(* Theorems about Startup, for every list of loaded objects and every size *)
(* of the space for wrappers.                                              *)
(***************************************************************************)
EXTENDS Startup, FiniteSetTheorems, TLAPS

Before == {"filter", "objects"}
Pcs == Before \cup {"wrappers", "create", "activate", "done", "aborted", "off"}

TypeOK ==
    /\ process \in Processes
    /\ asm_wrapper_space \in Nat
    /\ pc \in Pcs
    /\ next_object \in Nat \ {0}
    /\ next_path \in Nat
    /\ objs \in Seq(dl_phdr_info)
    /\ next_wrapper \in (Nat \ {0}) \X (Nat \ {0})
    /\ next_asm_wrapper_space \in Nat
    /\ wrappers \subseteq [obj : Nat, patch : Nat, start : Nat, end : Nat]

\* The objects whose wrappers are generated are to be patched.
ObjectsOK ==
    \A i \in 1 .. Len(objs) :
        /\ objs[i].addr = "other"
        /\ ~objs[i].path_vdso
        /\ objs[i].name # "libcapstone"

\* The wrappers before next_wrapper exist, in the space used so far.
WrappersOK ==
    /\ \A i \in 1 .. Len(objs) : \A j \in 1 .. Len(objs[i].sizes) :
          i < next_wrapper[1] \/ (i = next_wrapper[1] /\ j < next_wrapper[2])
              => \E w \in wrappers : w.obj = i /\ w.patch = j
    /\ \A w \in wrappers : /\ asm_wrapper_space + PageSize <= w.start
                           /\ w.end <= next_asm_wrapper_space
    /\ asm_wrapper_space + PageSize <= next_asm_wrapper_space

\* What mprotect_asm_wrappers makes executable.
WholePages ==
    LET first == round_down_address(asm_wrapper_space + PageSize)
    IN  executable = [start |-> first, end |-> first + SpaceSize - PageSize]

\* The objects are patched one after the other, after all else is done.
StartupInv ==
    /\ TypeOK
    /\ PathsFit
    /\ ObjectsOK
    /\ WrappersOK
    /\ pc \in Before => next_wrapper = <<1, 1>>
    /\ pc = "create" => next_wrapper[1] <= Len(objs)
    /\ pc = "wrappers" => next_wrapper[2] = 1
    /\ pc = "activate" => next_wrapper[1] > Len(objs) /\ WholePages
    /\ \E k \in 0 .. Len(objs) : active = 1 .. k
    /\ active # {} => /\ pc \in {"activate", "done", "aborted"}
                      /\ next_wrapper[1] > Len(objs)
                      /\ WholePages

LEMMA QuotientUnique ==
    ASSUME NEW p \in Nat \ {0}, NEW q \in Nat, NEW s \in Nat,
           NEW r \in 0 .. p - 1, NEW u \in 0 .. p - 1, p * q + r = p * s + u
    PROVE  q <= s
<1>1. SUFFICES ASSUME q >= s + 1 PROVE FALSE
  OBVIOUS
<1>2. PICK d \in Nat : q = s + 1 + d
  <2>1. q - (s + 1) \in Nat
    BY <1>1
  <2> QED BY <2>1
<1>3. p * q = p * s + p + p * d
  BY <1>2
<1>4. p * d \in Nat /\ p * s \in Nat
  OBVIOUS
<1> QED BY <1>3, <1>4

\* The first page that starts in the space, as mprotect_asm_wrappers rounds it.
LEMMA RoundedNext ==
    ASSUME NEW a \in Nat, NEW p \in Nat \ {0}
    PROVE  ((a + p) \div p) * p = a + p - (a % p)
<1> DEFINE q == a \div p
           s == (a + p) \div p
           r == a % p
           u == (a + p) % p
<1>1. a = p * q + r /\ q \in Nat /\ r \in 0 .. p - 1
  OBVIOUS
<1>2. a + p = p * s + u /\ s \in Nat /\ u \in 0 .. p - 1
  OBVIOUS
<1> HIDE DEF q, r, s, u
<1>3. p * (q + 1) + r = p * s + u /\ q + 1 \in Nat
  <2>1. p * (q + 1) = p * q + p /\ p * q \in Nat /\ p * s \in Nat
    BY <1>1, <1>2
  <2> QED BY <1>1, <1>2, <2>1
<1>4. q + 1 <= s
  BY <1>1, <1>2, <1>3, QuotientUnique
<1>5. s <= q + 1
  <2>1. p * s + u = p * (q + 1) + r
    BY <1>3
  <2> QED BY <1>1, <1>2, <1>3, <2>1, QuotientUnique
<1>6. s = q + 1
  BY <1>1, <1>2, <1>4, <1>5
<1>7. s * p = p * q + p
  BY <1>1, <1>6
<1>8. s * p = a + p - r
  BY <1>1, <1>7
<1> QED BY <1>8 DEF s, r

LEMMA SizesOK ==
    ASSUME TypeOK, NEW i \in 1 .. Len(objs)
    PROVE  /\ objs[i] \in dl_phdr_info
           /\ objs[i].sizes \in Seq(TmplSize .. TmplSize + Slack)
<1>1. objs[i] \in dl_phdr_info
  BY DEF TypeOK
<1> QED BY <1>1 DEF dl_phdr_info

LEMMA InitInv == Init => StartupInv
<1> SUFFICES ASSUME Init PROVE StartupInv
  OBVIOUS
<1>1. TypeOK
  BY StartupAssumption DEF Init, TypeOK, Pcs, Before
<1>2. PathsFit
  BY StartupAssumption DEF Init, PathsFit
<1>3. objs = <<>> /\ wrappers = {} /\ active = {} /\ pc = "filter"
      /\ next_wrapper = <<1, 1>>
  BY DEF Init
<1>4. active = 1 .. 0 /\ 0 \in 0 .. Len(objs)
  BY <1>3
<1>5. asm_wrapper_space + PageSize <= next_asm_wrapper_space
  BY StartupAssumption DEF Init, TypeOK
<1> QED BY <1>1, <1>2, <1>3, <1>4, <1>5
    DEF StartupInv, ObjectsOK, WrappersOK, Before
\* Steps that only move pc, or end the process.
LEMMA PcMoves ==
    ASSUME StartupInv, pc' \in Pcs,
           \/ pc' \in {"aborted", "off"}
           \/ <<pc, pc'>> \in {<<"filter", "objects">>, <<"objects", "wrappers">>,
                               <<"activate", "done">>}
           \/ pc = "wrappers" /\ pc' = "create" /\ next_wrapper[1] <= Len(objs),
           pc' = "off" => active = {},
           UNCHANGED <<process, asm_wrapper_space, next_object, next_path, objs,
                       libc_found, next_wrapper, next_asm_wrapper_space,
                       wrappers, executable, active>>
    PROVE  StartupInv'
<1>1. TypeOK'
  BY DEF StartupInv, TypeOK
<1>2. PathsFit' /\ ObjectsOK' /\ WrappersOK' /\ (WholePages' <=> WholePages)
  BY DEF StartupInv, PathsFit, ObjectsOK, WrappersOK, WholePages,
         round_down_address
<1> QED BY <1>1, <1>2 DEF StartupInv, Before

\* An object is added before any wrapper is generated.
LEMMA AnalyzeKeeps ==
    ASSUME StartupInv, analyze_object
    PROVE  StartupInv'
<1> DEFINE o == process.objects[next_object]
<1>1. /\ pc = "objects" /\ next_object <= Len(process.objects)
      /\ next_object' = next_object + 1
      /\ next_path' = next_path + path_bytes(o)
      /\ UNCHANGED <<process, asm_wrapper_space, next_wrapper,
                     next_asm_wrapper_space, wrappers, executable, active>>
  BY DEF analyze_object
<1>2. o \in dl_phdr_info
  <2>1. process.objects \in Seq(dl_phdr_info) /\ next_object \in Nat \ {0}
    BY StartupAssumption DEF StartupInv, TypeOK, ProcessOK
  <2> QED BY <1>1, <2>1
<1>3. o.path_size \in Nat /\ o.path_size <= LineSize /\ LineSize \in Nat
  BY SMTT(30), <1>2, StartupAssumption DEF dl_phdr_info
<1>4. active = {} /\ next_wrapper = <<1, 1>>
  BY <1>1 DEF StartupInv, Before
<1>5. next_path' \in Nat /\ PathsFit'
  <2>1. path_bytes(o) \in {0, o.path_size}
        /\ (path_bytes(o) # 0 => next_path < PathsSize - LineSize)
    BY DEF path_bytes, path_in_maps
  <2> QED BY SMTT(30), <1>1, <1>3, <2>1, StartupAssumption DEF StartupInv, TypeOK, PathsFit
<1>6. pc' \in {"objects", "aborted"}
  BY <1>1 DEF analyze_object, xabort
<1>7. \/ objs' = objs
      \/ should_patch_object(o) /\ objs' = Append(objs, o)
  BY DEF analyze_object
<1> HIDE DEF o
<1>8. objs' \in Seq(dl_phdr_info) /\ ObjectsOK'
  <2>1. objs \in Seq(dl_phdr_info) /\ ObjectsOK
    BY DEF StartupInv, TypeOK
  <2>2. CASE objs' = objs
    BY <2>1, <2>2 DEF ObjectsOK
  <2>3. CASE should_patch_object(o) /\ objs' = Append(objs, o)
    <3>1. /\ objs' \in Seq(dl_phdr_info) /\ Len(objs) \in Nat
          /\ Len(objs') = Len(objs) + 1 /\ objs'[Len(objs) + 1] = o
          /\ \A i \in 1 .. Len(objs) : objs'[i] = objs[i]
      BY <1>2, <2>1, <2>3
    <3>2. o.addr = "other" /\ ~o.path_vdso /\ o.name # "libcapstone"
      BY <1>2, <2>3 DEF should_patch_object, is_vdso, dl_phdr_info
    <3> QED BY <2>1, <3>1, <3>2 DEF ObjectsOK
  <2> QED BY <1>7, <2>2, <2>3
<1>9. TypeOK'
  BY <1>1, <1>5, <1>6, <1>8 DEF StartupInv, TypeOK, Pcs, Before
<1>10. WrappersOK'
  <2>1. next_wrapper'[1] = 1 /\ next_wrapper'[2] = 1
    BY <1>1, <1>4
  <2>2. \A w \in wrappers' : /\ asm_wrapper_space' + PageSize <= w.start
                             /\ w.end <= next_asm_wrapper_space'
    BY <1>1 DEF StartupInv, WrappersOK
  <2>3. Len(objs') \in Nat /\ \A i \in 1 .. Len(objs') : Len(objs'[i].sizes) \in Nat
    <3>1. \A i \in 1 .. Len(objs') : objs'[i] \in dl_phdr_info
      BY <1>8
    <3> QED BY SMTT(30), <1>8, <3>1 DEF dl_phdr_info
  <2>4. asm_wrapper_space' + PageSize <= next_asm_wrapper_space'
    BY <1>1 DEF StartupInv, WrappersOK
  <2> QED BY <2>1, <2>2, <2>3, <2>4 DEF WrappersOK
<1>11. \E k \in 0 .. Len(objs') : active' = 1 .. k
  <2>1. Len(objs') \in Nat
    BY <1>8
  <2>2. active' = 1 .. 0 /\ 0 \in 0 .. Len(objs')
    BY <1>1, <1>4, <2>1
  <2> QED BY <2>2
<1> QED BY SMTT(30), <1>1, <1>4, <1>5, <1>6, <1>8, <1>9, <1>10, <1>11 DEF StartupInv
\* A wrapper is added at the end of the space used so far.
LEMMA CreateKeeps ==
    ASSUME StartupInv, create_wrapper, pc' # "aborted"
    PROVE  StartupInv'
<1> DEFINE n == next_wrapper[1]
           m == next_wrapper[2]
           size == objs[n].sizes[m]
           new == [obj |-> n, patch |-> m, start |-> next_asm_wrapper_space,
                   end |-> next_asm_wrapper_space + size]
<1>1. /\ n \in Nat \ {0} /\ m \in Nat \ {0}
      /\ next_wrapper = <<n, m>> /\ next_asm_wrapper_space \in Nat
  BY DEF StartupInv, TypeOK
<1>2. /\ pc = "create" /\ pc' = pc /\ n <= Len(objs) /\ m <= Len(objs[n].sizes)
      /\ wrappers' = wrappers \cup {new}
      /\ next_asm_wrapper_space' = next_asm_wrapper_space + size
      /\ next_wrapper' = [next_wrapper EXCEPT ![2] = @ + 1]
      /\ UNCHANGED <<process, asm_wrapper_space, next_object, next_path, objs,
                     libc_found, executable, active>>
  BY DEF create_wrapper, xabort, StartupInv
<1>3. size \in Nat
  <2>1. objs \in Seq(dl_phdr_info) /\ n \in 1 .. Len(objs)
    BY <1>1, <1>2 DEF StartupInv, TypeOK
  <2>2. objs[n].sizes \in Seq(TmplSize .. TmplSize + Slack)
    BY SMTT(30), <2>1, SizesOK DEF StartupInv
  <2>3. m \in 1 .. Len(objs[n].sizes)
    BY SMTT(30), <1>1, <1>2, <2>2
  <2>4. size \in TmplSize .. TmplSize + Slack
    <3> DEFINE sizes == objs[n].sizes
               Sizes == TmplSize .. TmplSize + Slack
    <3>1. sizes \in Seq(Sizes) /\ m \in 1 .. Len(sizes)
      BY <2>2, <2>3
    <3> HIDE DEF sizes, Sizes, m
    <3>2. sizes[m] \in Sizes
      BY <3>1
    <3> QED BY <3>2 DEF sizes, Sizes
  <2> QED BY SMTT(30), <2>4, StartupAssumption
<1>4. next_wrapper' = <<n, m + 1>>
  BY SMTT(30), <1>1, <1>2
<1>5. /\ new \in [obj : Nat, patch : Nat, start : Nat, end : Nat]
      /\ new.obj = n /\ new.patch = m
      /\ new.start = next_asm_wrapper_space
      /\ new.end = next_asm_wrapper_space + size
  BY <1>1, <1>3
<1> HIDE DEF n, m, size, new
<1>6. TypeOK'
  BY SMTT(30), <1>1, <1>2, <1>3, <1>4, <1>5 DEF StartupInv, TypeOK
<1>7. WrappersOK'
  <2>1. \A i \in 1 .. Len(objs) : \A j \in 1 .. Len(objs[i].sizes) :
           i < n \/ (i = n /\ j < m + 1)
               => \E w \in wrappers' : w.obj = i /\ w.patch = j
    <3> SUFFICES ASSUME NEW i \in 1 .. Len(objs),
                        NEW j \in 1 .. Len(objs[i].sizes),
                        i < n \/ (i = n /\ j < m + 1)
                 PROVE  \E w \in wrappers' : w.obj = i /\ w.patch = j
      OBVIOUS
    <3>1. CASE i = n /\ j = m
      BY <1>2, <1>5, <3>1
    <3>2. CASE i < n \/ (i = n /\ j < m)
      <4>1. i < next_wrapper[1] \/ (i = next_wrapper[1] /\ j < next_wrapper[2])
        BY <1>1, <3>2
      <4>2. \E w \in wrappers : w.obj = i /\ w.patch = j
        BY <4>1 DEF StartupInv, WrappersOK
      <4> QED BY <1>2, <4>2
    <3>3. (i = n /\ j = m) \/ i < n \/ (i = n /\ j < m)
      BY <1>1
    <3> QED BY <3>1, <3>2, <3>3
  <2>2. \A w \in wrappers' : /\ asm_wrapper_space + PageSize <= w.start
                             /\ w.end <= next_asm_wrapper_space + size
    <3>1. asm_wrapper_space + PageSize <= next_asm_wrapper_space
      BY DEF StartupInv, WrappersOK
    <3>2. \A w \in wrappers : w.end \in Nat
      BY DEF StartupInv, TypeOK
    <3> QED BY SMTT(30), <1>1, <1>2, <1>3, <1>5, <3>1, <3>2 DEF StartupInv, WrappersOK
  <2>3. next_wrapper'[1] = n /\ next_wrapper'[2] = m + 1
    BY <1>4
  <2>4. asm_wrapper_space + PageSize <= next_asm_wrapper_space + size
    BY <1>1, <1>3, StartupAssumption DEF StartupInv, TypeOK, WrappersOK
  <2> QED BY <1>2, <2>1, <2>2, <2>3, <2>4 DEF WrappersOK
<1>8. active = {}
  BY <1>2 DEF StartupInv
<1>9. PathsFit' /\ ObjectsOK'
  BY <1>2 DEF StartupInv, PathsFit, ObjectsOK
<1>10. next_wrapper'[1] <= Len(objs')
  BY <1>2, <1>4
<1> QED BY <1>2, <1>6, <1>7, <1>8, <1>9, <1>10 DEF StartupInv, Before

LEMMA EndObjectKeeps ==
    ASSUME StartupInv, EndObject
    PROVE  StartupInv'
<1> DEFINE n == next_wrapper[1]
           m == next_wrapper[2]
<1>1. n \in Nat \ {0} /\ m \in Nat \ {0}
  BY DEF StartupInv, TypeOK
<1>2. /\ pc = "create" /\ pc' = "wrappers" /\ next_wrapper' = <<n + 1, 1>>
      /\ m > Len(objs[n].sizes)
      /\ UNCHANGED <<process, asm_wrapper_space, next_object, next_path, objs,
                     libc_found, next_asm_wrapper_space, wrappers, executable,
                     active, failure>>
  BY DEF EndObject
<1>3. next_wrapper'[1] = n + 1 /\ next_wrapper'[2] = 1
  BY <1>2
<1>4. TypeOK'
  BY SMTT(30), <1>1, <1>2 DEF StartupInv, TypeOK, Pcs
<1>5. WrappersOK'
  <2>1. \A i \in 1 .. Len(objs) : \A j \in 1 .. Len(objs[i].sizes) :
           i < n + 1 \/ (i = n + 1 /\ j < 1)
               => \E w \in wrappers : w.obj = i /\ w.patch = j
    <3> SUFFICES ASSUME NEW i \in 1 .. Len(objs),
                        NEW j \in 1 .. Len(objs[i].sizes),
                        i < n + 1 \/ (i = n + 1 /\ j < 1)
                 PROVE  i < n \/ (i = n /\ j < m)
      BY DEF StartupInv, WrappersOK
    <3>1. Len(objs[i].sizes) \in Nat /\ Len(objs) \in Nat
      <4>1. objs[i].sizes \in Seq(TmplSize .. TmplSize + Slack)
        BY SizesOK DEF StartupInv
      <4> QED BY SMTT(30), <4>1 DEF StartupInv, TypeOK
    <3>2. CASE i = n
      BY <1>1, <1>2, <3>1, <3>2
    <3>3. CASE i # n
      BY SMTT(30), <1>1, <3>1, <3>3
    <3> QED BY <3>2, <3>3
  <2> QED BY <1>2, <1>3, <2>1 DEF StartupInv, WrappersOK
<1>6. active = {}
  BY SMTT(30), <1>2 DEF StartupInv
<1>7. PathsFit' /\ ObjectsOK'
  BY <1>2 DEF StartupInv, PathsFit, ObjectsOK
<1> QED BY <1>2, <1>3, <1>4, <1>5, <1>6, <1>7 DEF StartupInv, Before

LEMMA MprotectKeeps ==
    ASSUME StartupInv, mprotect_asm_wrappers, pc' # "aborted"
    PROVE  StartupInv'
<1>1. /\ pc = "wrappers" /\ pc' = "activate" /\ next_wrapper[1] > Len(objs)
      /\ UNCHANGED <<process, asm_wrapper_space, next_object, next_path, objs,
                     libc_found, next_wrapper, next_asm_wrapper_space,
                     wrappers, active>>
  BY DEF mprotect_asm_wrappers, xabort
<1>2. WholePages'
  BY <1>1 DEF mprotect_asm_wrappers, xabort, WholePages, round_down_address
<1>3. TypeOK'
  BY <1>1 DEF StartupInv, TypeOK, Pcs
<1>4. PathsFit' /\ ObjectsOK' /\ WrappersOK'
  BY <1>1 DEF StartupInv, PathsFit, ObjectsOK, WrappersOK
<1> QED BY <1>1, <1>2, <1>3, <1>4 DEF StartupInv, Before

LEMMA ActivateKeeps ==
    ASSUME StartupInv, activate_patches, pc' # "aborted"
    PROVE  StartupInv'
<1>1. /\ pc = "activate" /\ pc' = pc /\ Cardinality(active) < Len(objs)
      /\ active' = active \cup {Cardinality(active) + 1}
      /\ UNCHANGED <<process, asm_wrapper_space, next_object, next_path, objs,
                     libc_found, next_wrapper, next_asm_wrapper_space, wrappers,
                     executable>>
  BY DEF activate_patches, xabort
<1>2. Len(objs) \in Nat
  BY DEF StartupInv, TypeOK
<1>3. PICK k \in 0 .. Len(objs) : active = 1 .. k
  BY DEF StartupInv
<1>4. Cardinality(active) = k
  <2>1. Cardinality(1 .. k) = IF 1 > k THEN 0 ELSE k - 1 + 1
    BY <1>2, <1>3, FS_Interval
  <2> QED BY <1>2, <1>3, <2>1
<1>5. active' = 1 .. k + 1 /\ k + 1 \in 0 .. Len(objs)
  BY <1>1, <1>2, <1>3, <1>4
<1>6. \E l \in 0 .. Len(objs') : active' = 1 .. l
  BY <1>1, <1>5
<1>7. TypeOK'
  BY SMTT(30), <1>1 DEF StartupInv, TypeOK
<1>8. PathsFit' /\ ObjectsOK' /\ WrappersOK' /\ (WholePages' <=> WholePages)
  BY <1>1 DEF StartupInv, PathsFit, ObjectsOK, WrappersOK, WholePages,
              round_down_address
<1> QED BY <1>1, <1>6, <1>7, <1>8 DEF StartupInv, Before

LEMMA StepInv == StartupInv /\ [Next]_vars => StartupInv'
<1> SUFFICES ASSUME StartupInv, [Next]_vars PROVE StartupInv'
  BY SMTT(30)
<1>1. CASE UNCHANGED vars
  BY <1>1 DEF vars, StartupInv, TypeOK, PathsFit, ObjectsOK, WrappersOK,
              WholePages, round_down_address
<1>2. CASE Setup
  <2>1. active = {}
    BY <1>2 DEF Setup, StartupInv
  <2>2. pc = "filter" /\ pc' \in {"off", "objects", "aborted"}
    BY <1>2 DEF Setup, xabort
  <2> QED BY <1>2, <2>1, <2>2, PcMoves DEF Setup, Pcs, Before
<1>3. CASE analyze_object
  BY <1>3, AnalyzeKeeps
<1>4. CASE ObjectsEnd
  <2>1. pc = "objects" /\ pc' \in {"wrappers", "aborted"}
    BY ZenonT(60), <1>4 DEF ObjectsEnd, xabort
  <2> QED BY <1>4, <2>1, PcMoves DEF ObjectsEnd, Pcs
<1>5. CASE BeginObject
  <2>1. pc = "wrappers" /\ pc' \in {"create", "aborted"}
    BY <1>5 DEF BeginObject, xabort
  <2> QED BY ZenonT(60), <1>5, <2>1, PcMoves DEF BeginObject, Pcs
<1>6. CASE create_wrapper
  <2>1. CASE pc' = "aborted"
    <3>1. pc = "create"
      BY ZenonT(60), <1>6 DEF create_wrapper
    <3>2. UNCHANGED <<process, asm_wrapper_space, next_object, next_path, objs,
                      libc_found, next_wrapper, next_asm_wrapper_space,
                      wrappers, executable, active>>
      BY ZenonT(60), <1>6, <2>1, <3>1 DEF create_wrapper
    <3> QED BY SMTT(30), <2>1, <3>2, PcMoves DEF Pcs
  <2> QED BY <1>6, <2>1, CreateKeeps
<1>7. CASE EndObject
  BY <1>7, EndObjectKeeps
<1>8. CASE mprotect_asm_wrappers
  <2>1. CASE pc' = "aborted"
    <3>1. UNCHANGED <<process, asm_wrapper_space, next_object, next_path, objs,
                      libc_found, next_wrapper, next_asm_wrapper_space,
                      wrappers, executable, active>>
      BY SMTT(30), <1>8, <2>1 DEF mprotect_asm_wrappers
    <3> QED BY <2>1, <3>1, PcMoves DEF Pcs
  <2> QED BY <1>8, <2>1, MprotectKeeps
<1>9. CASE activate_patches
  <2>1. CASE pc' = "aborted"
    <3>1. pc = "activate"
      BY <1>9 DEF activate_patches
    <3>2. UNCHANGED <<process, asm_wrapper_space, next_object, next_path, objs,
                      libc_found, next_wrapper, next_asm_wrapper_space,
                      wrappers, executable, active>>
      BY <1>9, <2>1, <3>1 DEF activate_patches
    <3> QED BY <2>1, <3>2, PcMoves DEF Pcs
  <2> QED BY <1>9, <2>1, ActivateKeeps
<1>10. CASE ActivateEnd
  BY <1>10, PcMoves DEF ActivateEnd, Pcs
<1> QED BY SMTT(30), <1>1, <1>2, <1>3, <1>4, <1>5, <1>6, <1>7, <1>8, <1>9, <1>10 DEF Next

\* get_name_from_proc_maps stays in its buffer however many objects are loaded.
THEOREM PathsInBuffer == Spec => []PathsFit
<1>1. StartupInv => PathsFit
  BY DEF StartupInv
<1> QED BY <1>1, InitInv, StepInv, PTL DEF Spec

\* For every list of objects, none is patched before all wrappers exist, and
\* none that takes part in handling an intercepted syscall is patched at all.
THEOREM PatchingComesLast == Spec => []PatchedLast
<1>1. ASSUME StartupInv PROVE PatchedLast
  <2>1. PICK k \in 0 .. Len(objs) : active = 1 .. k
    BY <1>1 DEF StartupInv
  <2>2. Len(objs) \in Nat
    BY <1>1 DEF StartupInv, TypeOK
  <2>3. \A i \in active : i \in 1 .. Len(objs)
    BY <2>1, <2>2
  <2>4. active # {} => \A i \in 1 .. Len(objs) : i < next_wrapper[1]
    BY <1>1, <2>2 DEF StartupInv, TypeOK
  <2> QED BY SMTT(30), <1>1, <2>3, <2>4 DEF StartupInv, PatchedLast, ObjectsOK, WrappersOK
<1> QED BY <1>1, InitInv, StepInv, PTL DEF Spec

\* A patched syscall never jumps to a page that is not executable, wherever the
\* space lies, unless its last page was used.
THEOREM PatchedIsExecutable == Spec => []PatchedExecutable
<1>1. ASSUME StartupInv PROVE PatchedExecutable
  <2> DEFINE r == asm_wrapper_space % PageSize
             first == round_down_address(asm_wrapper_space + PageSize)
  <2>1. /\ asm_wrapper_space \in Nat /\ PageSize \in Nat \ {0} /\ SpaceSize \in Nat
        /\ next_asm_wrapper_space \in Nat
    BY <1>1, StartupAssumption DEF StartupInv, TypeOK
  <2>2. first = asm_wrapper_space + PageSize - r /\ r \in Nat
    <3>1. asm_wrapper_space % PageSize \in Nat
      BY <2>1
    <3>2. ((asm_wrapper_space + PageSize) \div PageSize) * PageSize
            = asm_wrapper_space + PageSize - (asm_wrapper_space % PageSize)
      BY <2>1, RoundedNext
    <3> QED BY <3>1, <3>2, Zenon DEF round_down_address
  <2> HIDE DEF r, first
  <2>3. SUFFICES ASSUME next_asm_wrapper_space <= space_end - r,
                        NEW w \in wrappers, w.obj \in active
                 PROVE  executable.start <= w.start /\ w.end <= executable.end
    BY DEF PatchedExecutable, r
  <2>4. executable = [start |-> first, end |-> first + SpaceSize - PageSize]
    BY <1>1, <2>3 DEF StartupInv, WholePages, first
  <2>5. /\ w.start \in Nat /\ w.end \in Nat
        /\ asm_wrapper_space + PageSize <= w.start
        /\ w.end <= next_asm_wrapper_space
    BY <1>1, <2>3 DEF StartupInv, TypeOK, WrappersOK
  <2>6. executable.start = first /\ executable.end = first + SpaceSize - PageSize
    BY <2>4
  <2> QED BY SMTT(30), <2>1, <2>2, <2>3, <2>5, <2>6 DEF space_end
<1> QED BY <1>1, InitInv, StepInv, PTL DEF Spec
=============================================================================
