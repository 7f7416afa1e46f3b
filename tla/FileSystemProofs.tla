--------------------------- MODULE FileSystemProofs ---------------------------
(***************************************************************************)
(* Proofs about FileSystem, for every number of inodes, every set of names *)
(* and every way of cutting names.                                         *)
(***************************************************************************)
EXTENDS FileSystem, FiniteSetTheorems, TLAPS

\* The inductive invariant.
TreeInv == TypeOK /\ NoOrphan /\ CwdLive /\ Acyclic

\* What a step does to the table: it makes a new inode in a free slot of the
\* current directory, rewrites the text of a file of the current directory,
\* frees a file or an empty directory of the current directory, or moves to
\* another directory.
Created(slot, type, name) ==
    slot \in Idx /\ slot \notin Live /\ NewEntry(slot, type, name)

Written(i, data) ==
    /\ i \in Live /\ fs_table[i].parent = fs_cwd
    /\ fs_table[i].type = FS_TYPE_FILE
    /\ fs_table' = [fs_table EXCEPT ![i] =
                      [@ EXCEPT !.content = data, !.size = Length[data]]]
    /\ UNCHANGED fs_cwd

Freed(i) ==
    /\ i \in Live /\ fs_table[i].parent = fs_cwd
    /\ fs_table[i].type = FS_TYPE_FILE \/ fs_dir_empty(i)
    /\ Release(i)

Moved(t) ==
    /\ t \in Idx
    /\ t = FS_ROOT_IDX \/ fs_table[t].type = FS_TYPE_DIR
    /\ fs_cwd' = t
    /\ UNCHANGED fs_table

\* Every command is one of these four; this is the only lemma that looks at the
\* code's searches.
LEMMA StepCases ==
    ASSUME TypeOK, Next
    PROVE  \/ \E slot \in Idx, type \in {FS_TYPE_FILE, FS_TYPE_DIR}, name \in Names :
                Created(slot, type, name) /\ Matches(name, fs_cwd) = {}
           \/ \E i \in Idx, data \in Data : Written(i, data)
           \/ \E i \in Idx : Freed(i)
           \/ \E t \in Idx : Moved(t)
<1>0. FS_ROOT_IDX \in Idx
  BY EntriesAssumption DEF FS_ROOT_IDX, Idx
<1>1. CASE cmd_mkdir
  <2>1. PICK n \in Names : fs_mkdir(n)
    BY <1>1 DEF cmd_mkdir
  <2>2. PICK slot \in Idx : fs_alloc(slot) /\ NewEntry(slot, FS_TYPE_DIR, n)
    BY <2>1 DEF fs_mkdir
  <2>3. Created(slot, FS_TYPE_DIR, n) /\ Matches(n, fs_cwd) = {}
    BY <2>1, <2>2 DEF Created, fs_alloc, First, fs_mkdir
  <2> QED BY <2>3
<1>2. CASE cmd_touch
  <2>1. PICK n \in Names : fs_create_file(n)
    BY <1>2 DEF cmd_touch
  <2>2. PICK slot \in Idx : fs_alloc(slot) /\ NewEntry(slot, FS_TYPE_FILE, n)
    BY <2>1 DEF fs_create_file
  <2>3. Created(slot, FS_TYPE_FILE, n) /\ Matches(n, fs_cwd) = {}
    BY <2>1, <2>2 DEF Created, fs_alloc, First, fs_create_file
  <2> QED BY <2>3
<1>3. CASE cmd_write
  <2>1. PICK n \in Names, d \in Data : fs_write_file(TypedName[n], WriteText[<<n, d>>])
    BY <1>3 DEF cmd_write
  <2>2. WriteText[<<n, d>>] \in Data
    BY DataAssumption
  <2>3. \E i \in Idx : Written(i, WriteText[<<n, d>>])
    BY <2>1 DEF fs_write_file, fs_find_in, First, Matches, Written
  <2> QED BY <2>2, <2>3
<1>4. CASE cmd_rm
  BY <1>4 DEF cmd_rm, fs_rm, fs_find_in, First, Matches, Freed
<1>5. CASE cmd_rmdir
  BY <1>5 DEF cmd_rmdir, fs_rmdir, fs_find_in, First, Matches, Freed
<1>6. CASE cmd_cd
  BY <1>6, <1>0 DEF cmd_cd, fs_cd, Moved
<1> QED BY <1>1, <1>2, <1>3, <1>4, <1>5, <1>6 DEF Next

-------------------------------------------------------------------------------
\* The table fs_init leaves has the types of the C structure.
LEMMA TypeInit == Init => TypeOK
<1> SUFFICES ASSUME Init PROVE TypeOK
  OBVIOUS
<1>1. ASSUME NEW i \in Idx PROVE fs_table[i] \in fs_entry_t
  BY DEF Init, fs_init, fs_entry_t
<1>2. fs_cwd \in Idx
  BY EntriesAssumption DEF Init, fs_init, Idx, FS_ROOT_IDX
<1> QED BY <1>1, <1>2 DEF Init, fs_init, TypeOK

\* Every command keeps the types.
LEMMA TypeStep == TypeOK /\ [Next]_vars => TypeOK'
<1> SUFFICES ASSUME TypeOK, [Next]_vars PROVE TypeOK'
  OBVIOUS
<1>0. CASE UNCHANGED vars
  BY <1>0 DEF TypeOK, vars
<1>1. ASSUME NEW slot \in Idx, NEW type \in {FS_TYPE_FILE, FS_TYPE_DIR},
             NEW name \in Names, Created(slot, type, name)
      PROVE  TypeOK'
  <2>1. StoredName[name] \in Names
    BY NamesAssumption
  <2> QED BY <1>1, <2>1 DEF Created, NewEntry, TypeOK, fs_entry_t
<1>2. ASSUME NEW i \in Idx, NEW data \in Data, Written(i, data)
      PROVE  TypeOK'
  <2>1. Length[data] \in Nat
    BY DataAssumption
  <2> QED BY <1>2, <2>1, ZenonT(60) DEF Written, TypeOK, fs_entry_t
<1>3. ASSUME NEW i \in Idx, Freed(i)
      PROVE  TypeOK'
  BY <1>3 DEF Freed, Release, TypeOK, fs_entry_t
<1>4. ASSUME NEW t \in Idx, Moved(t)
      PROVE  TypeOK'
  BY <1>4 DEF Moved, TypeOK
<1> QED BY <1>0, <1>1, <1>2, <1>3, <1>4, StepCases

\* Inodes and fs_cwd keep their types in every reachable state, in particular
\* fs_cwd is never FS_NULL_IDX.
THEOREM Typing == Spec => []TypeOK
  BY TypeInit, TypeStep, PTL DEF Spec

-------------------------------------------------------------------------------
\* The invariant holds of the table fs_init leaves: only the root is in use.
LEMMA TreeInit == Init => TreeInv
<1> SUFFICES ASSUME Init PROVE TreeInv
  OBVIOUS
<1>1. TypeOK
  BY TypeInit
<1>2. FS_ROOT_IDX \in Idx
  BY EntriesAssumption DEF FS_ROOT_IDX, Idx
<1>3. Live = {FS_ROOT_IDX}
  BY <1>2 DEF Init, fs_init, Live, FS_TYPE_NONE, FS_TYPE_DIR
<1>4. NoOrphan
  BY <1>2, <1>3 DEF Init, fs_init, NoOrphan
<1>5. CwdLive
  BY <1>2 DEF Init, fs_init, CwdLive
<1>6. Acyclic
  BY <1>3 DEF Acyclic
<1> QED BY <1>1, <1>4, <1>5, <1>6 DEF TreeInv

\* A new inode takes a free slot, which by NoOrphan is nobody's parent: it is a
\* leaf, and it hangs in the current directory, which is in use.
LEMMA CreatedKeepsTree ==
    ASSUME TreeInv, NEW slot \in Idx, NEW type \in {FS_TYPE_FILE, FS_TYPE_DIR},
           NEW name \in Names, Created(slot, type, name)
    PROVE  NoOrphan' /\ CwdLive' /\ Acyclic'
<1> USE DEF TreeInv
<1>0. FS_ROOT_IDX \in Live /\ fs_cwd \in Live /\ slot \notin Live
  BY EntriesAssumption
  DEF NoOrphan, CwdLive, Live, TypeOK, Created, Idx, FS_ROOT_IDX, FS_TYPE_DIR, FS_TYPE_NONE
<1>1. /\ \A i \in Idx \ {slot} : fs_table'[i] = fs_table[i]
      /\ fs_table'[slot].type = type
      /\ fs_table'[slot].parent = fs_cwd
      /\ fs_cwd' = fs_cwd
  BY DEF Created, NewEntry, TypeOK, fs_entry_t
<1>2. Live' = Live \cup {slot}
  BY <1>1 DEF Live, FS_TYPE_FILE, FS_TYPE_DIR, FS_TYPE_NONE
<1>3. \A i \in Live \ {FS_ROOT_IDX} : fs_table[i].parent # slot
  BY <1>0 DEF NoOrphan
<1>3a. Live \subseteq Idx
  BY DEF Live
<1>4. NoOrphan'
  <2>1. /\ fs_table'[FS_ROOT_IDX].type = FS_TYPE_DIR
        /\ fs_table'[FS_ROOT_IDX].parent = FS_NULL_IDX
    BY <1>0, <1>1, <1>3a DEF NoOrphan
  <2>2. ASSUME NEW i \in Live' \ {FS_ROOT_IDX}
        PROVE  /\ fs_table'[i].parent \in Live'
               /\ fs_table'[fs_table'[i].parent].type = FS_TYPE_DIR
    <3>1. CASE i = slot
      BY <3>1, <1>0, <1>1, <1>2, <1>3a DEF CwdLive
    <3>2. CASE i # slot
      <4>1. i \in Live \ {FS_ROOT_IDX} /\ fs_table'[i] = fs_table[i]
        BY <3>2, <1>1, <1>2, <1>3a
      <4>2. fs_table[i].parent \in Live /\ fs_table[i].parent # slot
        BY <4>1, <1>3 DEF NoOrphan
      <4> QED BY <4>1, <4>2, <1>1, <1>2, <1>3a DEF NoOrphan
    <3> QED BY <3>1, <3>2
  <2> QED BY <2>1, <2>2 DEF NoOrphan, FS_ROOT_IDX, FS_TYPE_DIR, FS_NULL_IDX
<1>5. CwdLive'
  BY <1>0, <1>1, <1>3a DEF CwdLive
<1>6. Acyclic'
  <2> SUFFICES ASSUME NEW S \in SUBSET (Live' \ {FS_ROOT_IDX}), S # {}
               PROVE  \E i \in S : fs_table'[i].parent \notin S
    BY DEF Acyclic
  <2> DEFINE T == S \ {slot}
  <2>1. T \in SUBSET (Live \ {FS_ROOT_IDX})
    BY <1>2
  <2>2. CASE T = {}
    BY <2>2, <1>0, <1>1
  <2>3. CASE T # {}
    <3>1. PICK i \in T : fs_table[i].parent \notin T
      BY <2>1, <2>3 DEF Acyclic
    <3>2. fs_table'[i].parent = fs_table[i].parent /\ fs_table[i].parent # slot
      BY <2>1, <1>1, <1>3, <1>3a
    <3> QED BY <3>1, <3>2
  <2> QED BY <2>2, <2>3
<1> QED BY <1>4, <1>5, <1>6

\* What is freed is a leaf other than the root and the current directory: a file,
\* which is nobody's parent, or a directory that fs_dir_empty found to have none.
LEMMA FreedKeepsTree ==
    ASSUME TreeInv, NEW i \in Idx, Freed(i)
    PROVE  NoOrphan' /\ CwdLive' /\ Acyclic'
<1> USE DEF TreeInv
<1>0. FS_ROOT_IDX \in Live /\ fs_cwd \in Live /\ Live \subseteq Idx
  BY EntriesAssumption
  DEF NoOrphan, CwdLive, Live, TypeOK, Idx, FS_ROOT_IDX, FS_TYPE_DIR, FS_TYPE_NONE
<1>1. /\ \A j \in Idx \ {i} : fs_table'[j] = fs_table[j]
      /\ fs_table'[i].type = FS_TYPE_NONE
      /\ fs_cwd' = fs_cwd
  BY DEF Freed, Release, TypeOK, fs_entry_t
<1>2. Live' = Live \ {i}
  BY <1>1 DEF Live
<1>3. \A j \in Live \ {FS_ROOT_IDX} : fs_table[j].parent # i
  BY DEF Freed, fs_dir_empty, NoOrphan, FS_TYPE_FILE, FS_TYPE_DIR
<1>4. i # FS_ROOT_IDX
  <2>1. fs_cwd # FS_NULL_IDX
    BY EntriesAssumption DEF TypeOK, Idx, FS_NULL_IDX
  <2> QED BY <2>1 DEF Freed, NoOrphan
<1>5. i # fs_cwd
  BY <1>3, <1>4 DEF Freed
<1>6. NoOrphan'
  <2>1. /\ fs_table'[FS_ROOT_IDX].type = FS_TYPE_DIR
        /\ fs_table'[FS_ROOT_IDX].parent = FS_NULL_IDX
    BY <1>0, <1>1, <1>4 DEF NoOrphan
  <2>2. ASSUME NEW j \in Live' \ {FS_ROOT_IDX}
        PROVE  /\ fs_table'[j].parent \in Live'
               /\ fs_table'[fs_table'[j].parent].type = FS_TYPE_DIR
    <3>1. j \in Live \ {FS_ROOT_IDX} /\ fs_table'[j] = fs_table[j]
      BY <1>0, <1>1, <1>2
    <3>2. fs_table[j].parent \in Live /\ fs_table[j].parent # i
      BY <3>1, <1>3 DEF NoOrphan
    <3> QED BY <3>1, <3>2, <1>0, <1>1, <1>2 DEF NoOrphan
  <2> QED BY <2>1, <2>2 DEF NoOrphan, FS_ROOT_IDX, FS_TYPE_DIR, FS_NULL_IDX
<1>7. CwdLive'
  BY <1>0, <1>1, <1>5 DEF CwdLive
<1>8. Acyclic'
  <2> SUFFICES ASSUME NEW S \in SUBSET (Live' \ {FS_ROOT_IDX}), S # {}
               PROVE  \E j \in S : fs_table'[j].parent \notin S
    BY DEF Acyclic
  <2>1. S \in SUBSET (Live \ {FS_ROOT_IDX})
    BY <1>2
  <2>2. PICK j \in S : fs_table[j].parent \notin S
    BY <2>1 DEF Acyclic
  <2>3. fs_table'[j] = fs_table[j]
    BY <1>0, <1>1, <1>2
  <2> QED BY <2>2, <2>3
<1> QED BY <1>6, <1>7, <1>8

\* Writing a file and changing directory leave every type and parent alone.
LEMMA WrittenKeepsTree ==
    ASSUME TreeInv, NEW i \in Idx, NEW data \in Data, Written(i, data)
    PROVE  NoOrphan' /\ CwdLive' /\ Acyclic'
<1> USE DEF TreeInv
<1>0. FS_ROOT_IDX \in Idx /\ fs_cwd \in Idx
  BY EntriesAssumption DEF TypeOK, Idx, FS_ROOT_IDX
<1>1. /\ \A j \in Idx : /\ fs_table'[j].type = fs_table[j].type
                        /\ fs_table'[j].parent = fs_table[j].parent
      /\ fs_cwd' = fs_cwd
  BY DEF Written, TypeOK, fs_entry_t
<1>2. Live' = Live /\ Live \subseteq Idx
  BY <1>1 DEF Live
<1>3. NoOrphan'
  BY <1>0, <1>1, <1>2 DEF NoOrphan
<1>4. CwdLive'
  BY <1>0, <1>1 DEF CwdLive
<1>5. Acyclic'
  <2> SUFFICES ASSUME NEW S \in SUBSET (Live \ {FS_ROOT_IDX}), S # {}
               PROVE  \E j \in S : fs_table'[j].parent \notin S
    BY <1>2 DEF Acyclic
  <2>1. PICK j \in S : fs_table[j].parent \notin S
    BY DEF Acyclic
  <2> QED BY <2>1, <1>1, <1>2
<1> QED BY <1>3, <1>4, <1>5

\* Every command keeps the invariant, by the three lemmas above.
LEMMA TreeStep == TreeInv /\ [Next]_vars => TreeInv'
<1> SUFFICES ASSUME TreeInv, [Next]_vars PROVE TreeInv'
  OBVIOUS
<1>0. TypeOK'
  BY TypeStep DEF TreeInv
<1>1. CASE UNCHANGED vars
  BY <1>1 DEF TreeInv, TypeOK, NoOrphan, CwdLive, Acyclic, Live, vars
<1>2. ASSUME NEW t \in Idx, Moved(t)
      PROVE  TreeInv'
  BY <1>0, <1>2 DEF TreeInv, Moved, NoOrphan, CwdLive, Acyclic, Live, FS_ROOT_IDX
<1> QED
  BY <1>0, <1>1, <1>2, StepCases, CreatedKeepsTree, FreedKeepsTree, WrittenKeepsTree
  DEF TreeInv

\* The inode table is a tree in every reachable state: no orphans, no cycles, the
\* root in slot 0, and fs_cwd on a directory of the tree.
THEOREM TreeInvariant == Spec => []TreeInv
  BY TreeInit, TreeStep, PTL DEF Spec

\* No sequence of commands orphans an inode.
THEOREM OrphanFreedom == Spec => []NoOrphan
  BY TreeInvariant, PTL DEF TreeInv

\* No sequence of commands removes the current directory.
THEOREM CwdSafety == Spec => []CwdLive
  BY TreeInvariant, PTL DEF TreeInv

\* No sequence of commands closes a cycle of parent links.
THEOREM Acyclicity == Spec => []Acyclic
  BY TreeInvariant, PTL DEF TreeInv

-------------------------------------------------------------------------------
(* The walk of pwd. *)

\* p is the walk from i up to the root, n steps long, through different inodes.
Path(i, n, p) ==
    /\ n \in Nat /\ p \in [0 .. n -> Live]
    /\ p[0] = i /\ p[n] = FS_ROOT_IDX
    /\ \A k \in 0 .. n - 1 : p[k] # FS_ROOT_IDX /\ p[k + 1] = fs_table[p[k]].parent
    /\ \A j, k \in 0 .. n : p[j] = p[k] => j = k

HasPath(i) == \E n \in Nat : \E p \in [0 .. n -> Live] : Path(i, n, p)

\* What lies on a walk has a walk, the rest of that one.
LEMMA PathRest ==
    ASSUME NEW i, NEW n \in Nat, NEW p, Path(i, n, p), NEW m \in 0 .. n
    PROVE  HasPath(p[m])
<1> DEFINE q == [k \in 0 .. n - m |-> p[k + m]]
<1>1. n - m \in Nat /\ p \in [0 .. n -> Live]
  BY DEF Path
<1>2. \A k \in 0 .. n - m : k + m \in 0 .. n
  OBVIOUS
<1>3. q \in [0 .. n - m -> Live]
  BY <1>1, <1>2
<1>4. q[0] = p[m] /\ q[n - m] = FS_ROOT_IDX
  <2>1. 0 \in 0 .. n - m /\ n - m \in 0 .. n - m /\ 0 + m = m /\ (n - m) + m = n
    BY <1>1
  <2> QED BY <2>1 DEF Path
<1>5. ASSUME NEW k \in 0 .. (n - m) - 1
      PROVE  q[k] # FS_ROOT_IDX /\ q[k + 1] = fs_table[q[k]].parent
  <2>1. k \in 0 .. n - m /\ k + 1 \in 0 .. n - m /\ k + m \in 0 .. n - 1 /\ (k + 1) + m = (k + m) + 1
    BY <1>1
  <2>2. q[k] = p[k + m] /\ q[k + 1] = p[(k + m) + 1]
    BY <2>1
  <2> QED BY <2>1, <2>2 DEF Path
<1>6. ASSUME NEW j \in 0 .. n - m, NEW k \in 0 .. n - m, q[j] = q[k]
      PROVE  j = k
  <2>1. p[j + m] = p[k + m] /\ j + m \in 0 .. n /\ k + m \in 0 .. n
    BY <1>2, <1>6
  <2>2. j + m = k + m
    BY <2>1 DEF Path
  <2> QED BY <2>2
<1> HIDE DEF q
<1>7. Path(p[m], n - m, q)
  BY <1>1, <1>3, <1>4, <1>5, <1>6 DEF Path
<1> QED BY <1>1, <1>3, <1>7 DEF HasPath

\* An inode whose parent has a walk has a walk: the parent's, unless that already
\* leads through the inode.
LEMMA PathMore ==
    ASSUME NEW i \in Live, i # FS_ROOT_IDX, HasPath(fs_table[i].parent)
    PROVE  HasPath(i)
<1>1. PICK n \in Nat : \E p \in [0 .. n -> Live] : Path(fs_table[i].parent, n, p)
  BY DEF HasPath
<1>2. PICK p \in [0 .. n -> Live] : Path(fs_table[i].parent, n, p)
  BY <1>1
<1>3. CASE \E m \in 0 .. n : p[m] = i
  BY <1>2, <1>3, PathRest
<1>4. CASE \A m \in 0 .. n : p[m] # i
  <2> DEFINE q == [k \in 0 .. n + 1 |-> IF k = 0 THEN i ELSE p[k - 1]]
  <2>1. \A k \in 1 .. n + 1 : k - 1 \in 0 .. n /\ k # 0 /\ k \in 0 .. n + 1
    OBVIOUS
  <2>2. q \in [0 .. n + 1 -> Live]
    OBVIOUS
  <2>3. q[0] = i /\ \A k \in 1 .. n + 1 : q[k] = p[k - 1]
    BY <2>1
  <2> HIDE DEF q
  <2>4. q[n + 1] = FS_ROOT_IDX
    BY <1>2, <2>3 DEF Path
  <2>5. ASSUME NEW k \in 0 .. (n + 1) - 1
        PROVE  q[k] # FS_ROOT_IDX /\ q[k + 1] = fs_table[q[k]].parent
    <3>1. CASE k = 0
      <4>1. 0 + 1 \in 1 .. n + 1 /\ (0 + 1) - 1 = 0
        OBVIOUS
      <4>2. q[0 + 1] = p[0]
        BY <2>3, <4>1
      <4> QED BY <1>2, <2>3, <3>1, <4>2 DEF Path
    <3>2. CASE k # 0
      <4>1. k \in 1 .. n + 1 /\ k + 1 \in 1 .. n + 1 /\ k - 1 \in 0 .. n - 1 /\ (k + 1) - 1 = (k - 1) + 1
        BY <3>2
      <4>2. q[k] = p[k - 1] /\ q[k + 1] = p[(k - 1) + 1]
        BY <2>3, <4>1
      <4> QED BY <1>2, <4>1, <4>2 DEF Path
    <3> QED BY <3>1, <3>2
  <2>6. ASSUME NEW j \in 0 .. n + 1, NEW k \in 0 .. n + 1, q[j] = q[k]
        PROVE  j = k
    <3>1. CASE j = 0 \/ k = 0
      BY <1>4, <2>1, <2>3, <2>6, <3>1
    <3>2. CASE j # 0 /\ k # 0
      <4>1. p[j - 1] = p[k - 1] /\ j - 1 \in 0 .. n /\ k - 1 \in 0 .. n
        BY <2>3, <2>6, <3>2
      <4>2. j - 1 = k - 1
        BY <1>2, <4>1 DEF Path
      <4> QED BY <4>2
    <3> QED BY <3>1, <3>2
  <2>7. Path(i, n + 1, q)
    BY <2>2, <2>3, <2>4, <2>5, <2>6 DEF Path
  <2> QED BY <2>2, <2>7 DEF HasPath
<1> QED BY <1>3, <1>4

\* In a tree every inode in use has a walk: by Acyclic one of those without would
\* have a parent with one.
LEMMA AllHavePaths ==
    ASSUME TreeInv
    PROVE  \A i \in Live : HasPath(i)
<1> DEFINE S == {i \in Live : ~HasPath(i)}
<1>0. FS_ROOT_IDX \in Live
  BY EntriesAssumption DEF TreeInv, NoOrphan, Live, FS_ROOT_IDX, Idx, FS_TYPE_DIR, FS_TYPE_NONE
<1>1. HasPath(FS_ROOT_IDX)
  <2> DEFINE p == [k \in 0 .. 0 |-> FS_ROOT_IDX]
  <2>1. p \in [0 .. 0 -> Live] /\ p[0] = FS_ROOT_IDX
    BY <1>0
  <2>2. Path(FS_ROOT_IDX, 0, p)
    BY <2>1 DEF Path
  <2> QED BY <2>1, <2>2 DEF HasPath
<1> SUFFICES ASSUME S # {} PROVE FALSE
  OBVIOUS
<1>2. S \in SUBSET (Live \ {FS_ROOT_IDX})
  BY <1>1
<1>3. PICK i \in S : fs_table[i].parent \notin S
  BY <1>2 DEF TreeInv, Acyclic
<1>4. fs_table[i].parent \in Live
  BY <1>2, <1>3 DEF TreeInv, NoOrphan
<1>5. HasPath(fs_table[i].parent)
  BY <1>3, <1>4
<1> QED BY <1>2, <1>3, <1>5, PathMore

\* A walk visits no inode twice, so it has fewer steps than the table has inodes.
LEMMA PathShort ==
    ASSUME NEW i, NEW n \in Nat, NEW p, Path(i, n, p)
    PROVE  n <= FS_MAX_ENTRIES - 1
<1> SUFFICES ASSUME ~(n <= FS_MAX_ENTRIES - 1) PROVE FALSE
  OBVIOUS
<1>1. FS_MAX_ENTRIES \in Nat /\ FS_MAX_ENTRIES > 0 /\ n >= FS_MAX_ENTRIES
  BY EntriesAssumption
<1>2. IsFiniteSet(0 .. n) /\ Cardinality(0 .. n) = n + 1
  <2>1. /\ IsFiniteSet(0 .. n)
        /\ Cardinality(0 .. n) = IF 0 > n THEN 0 ELSE n - 0 + 1
    BY FS_Interval
  <2> QED BY <2>1
<1>3. IsFiniteSet(Idx) /\ Cardinality(Idx) = FS_MAX_ENTRIES
  <2>1. 0 \in Int /\ FS_MAX_ENTRIES - 1 \in Int
    BY <1>1
  <2>2. /\ IsFiniteSet(0 .. FS_MAX_ENTRIES - 1)
        /\ Cardinality(0 .. FS_MAX_ENTRIES - 1)
             = IF 0 > FS_MAX_ENTRIES - 1 THEN 0 ELSE (FS_MAX_ENTRIES - 1) - 0 + 1
    BY <2>1, FS_Interval
  <2> QED BY <1>1, <2>2 DEF Idx
<1>4. p \in [0 .. n -> Idx]
  BY DEF Path, Live
<1>5. \E j, k \in 0 .. n : j # k /\ p[j] = p[k]
  <2>1. Cardinality(Idx) < Cardinality(0 .. n)
    BY <1>1, <1>2, <1>3
  <2> QED BY <1>2, <1>3, <1>4, <2>1, FS_PigeonHole
<1> QED BY <1>5 DEF Path

\* The loop of fs_print_path, as an equation between its values of cur.
Climb(w, i) ==
    [k \in 0 .. FS_MAX_ENTRIES - 1 |->
       IF k = 0 THEN i
       ELSE IF w[k - 1] \in {FS_ROOT_IDX, FS_NULL_IDX} THEN w[k - 1]
       ELSE fs_table[w[k - 1]].parent]

\* The equation has one solution at most.
LEMMA ClimbUnique ==
    ASSUME NEW i, NEW v, NEW w, v = Climb(v, i), w = Climb(w, i)
    PROVE  v = w
<1> DEFINE D == 0 .. FS_MAX_ENTRIES - 1
           S == {k \in D : v[k] # w[k]}
<1>0. v = [k \in D |-> v[k]] /\ w = [k \in D |-> w[k]]
  BY DEF Climb
<1> SUFFICES ASSUME S # {} PROVE FALSE
  BY <1>0
<1>1. PICK m \in S : \A j \in S : ~(<<j, m>> \in OpToRel(<, Nat))
  <2>1. S \subseteq Nat
    BY EntriesAssumption
  <2> QED BY <2>1, NatLessThanWellFounded, WFMin, Zenon
<1>2. m \in D /\ v[m] # w[m] /\ \A j \in S : ~(j < m)
  <2>1. S \subseteq Nat
    BY EntriesAssumption
  <2> QED BY <1>1, <2>1 DEF OpToRel
<1>3. m # 0
  <2>1. 0 \in D
    BY EntriesAssumption
  <2>2. v[0] = i /\ w[0] = i
    BY <2>1 DEF Climb
  <2> QED BY <1>2, <2>2
<1>4. m - 1 \in D /\ m - 1 < m
  BY <1>2, <1>3, EntriesAssumption
<1>5. v[m - 1] = w[m - 1]
  BY <1>2, <1>4
<1>6. v[m] = IF v[m - 1] \in {FS_ROOT_IDX, FS_NULL_IDX} THEN v[m - 1] ELSE fs_table[v[m - 1]].parent
  BY <1>2, <1>3 DEF Climb
<1>7. w[m] = IF w[m - 1] \in {FS_ROOT_IDX, FS_NULL_IDX} THEN w[m - 1] ELSE fs_table[w[m - 1]].parent
  BY <1>2, <1>3 DEF Climb
<1> QED BY <1>2, <1>5, <1>6, <1>7

\* A walk that ends at the root is what the loop of fs_print_path computes.
LEMMA PathIsClimb ==
    ASSUME NEW i, NEW n \in Nat, NEW p, Path(i, n, p)
    PROVE  fs_print_path(i) = FS_ROOT_IDX
<1> DEFINE D == 0 .. FS_MAX_ENTRIES - 1
           g == [k \in D |-> IF k <= n THEN p[k] ELSE FS_ROOT_IDX]
           w == CHOOSE f : f = Climb(f, i)
<1>0. FS_MAX_ENTRIES \in Nat /\ FS_MAX_ENTRIES > 0 /\ n <= FS_MAX_ENTRIES - 1
  BY PathShort, EntriesAssumption
<1>1. /\ \A k \in D : k <= n => g[k] = p[k]
      /\ \A k \in D : k >= n => g[k] = FS_ROOT_IDX
  BY DEF Path
<1>2. ASSUME NEW k \in D
      PROVE  g[k] = IF k = 0 THEN i
                    ELSE IF g[k - 1] \in {FS_ROOT_IDX, FS_NULL_IDX} THEN g[k - 1]
                    ELSE fs_table[g[k - 1]].parent
  <2>1. CASE k = 0
    BY <1>1, <2>1 DEF Path
  <2>2. CASE k # 0 /\ k <= n
    <3>1. k - 1 \in D /\ k - 1 <= n /\ k - 1 \in 0 .. n - 1 /\ (k - 1) + 1 = k /\ k - 1 \in 0 .. n
      BY <1>0, <2>2
    <3>2. g[k] = p[k] /\ g[k - 1] = p[k - 1]
      BY <1>1, <2>2, <3>1
    <3>3. p[k - 1] # FS_ROOT_IDX /\ p[k] = fs_table[p[k - 1]].parent
      BY <3>1 DEF Path
    <3>4. p[k - 1] # FS_NULL_IDX
      <4>1. p[k - 1] \in Live
        BY <3>1 DEF Path
      <4> QED BY <4>1 DEF Live, Idx, FS_NULL_IDX
    <3> QED BY <2>2, <3>2, <3>3, <3>4
  <2>3. CASE k > n
    <3>1. k - 1 \in D /\ k - 1 >= n /\ k # 0
      BY <1>0, <2>3
    <3>2. g[k] = FS_ROOT_IDX /\ g[k - 1] = FS_ROOT_IDX
      BY <1>1, <2>3, <3>1
    <3> QED BY <3>1, <3>2
  <2> QED BY <1>0, <2>1, <2>2, <2>3
<1>3. g = Climb(g, i)
  <2>1. g = [k \in D |-> g[k]]
    OBVIOUS
  <2> HIDE DEF g
  <2> QED BY <1>2, <2>1 DEF Climb
<1> HIDE DEF g
<1>4. w = Climb(w, i)
  BY <1>3
<1>5. fs_print_path(i) = w[FS_MAX_ENTRIES - 1]
  BY Zenon DEF fs_print_path, Climb
<1> HIDE DEF w
<1>6. w = g
  BY <1>3, <1>4, ClimbUnique
<1>7. FS_MAX_ENTRIES - 1 \in D /\ FS_MAX_ENTRIES - 1 >= n
  BY <1>0
<1> QED BY <1>1, <1>5, <1>6, <1>7

LEMMA TreeHasPaths == TreeInv => PathsReachRoot
<1> SUFFICES ASSUME TreeInv, NEW i \in Live PROVE fs_print_path(i) = FS_ROOT_IDX
  BY DEF PathsReachRoot
<1>1. PICK n \in Nat : \E p \in [0 .. n -> Live] : Path(i, n, p)
  BY AllHavePaths DEF HasPath
<1>2. PICK p \in [0 .. n -> Live] : Path(i, n, p)
  BY <1>1
<1> QED BY <1>2, PathIsClimb

\* pwd terminates and its stack never overflows: for every size of the table the walk
\* of fs_print_path is at the root before it has pushed FS_MAX_ENTRIES indices.
THEOREM PathsFit == Spec => []PathsReachRoot
  BY TreeInvariant, TreeHasPaths, PTL

-------------------------------------------------------------------------------
\* With names that fs_strncpy does not cut, the duplicate check is sound: it
\* compares the very name that is stored.
LEMMA UniqueStep ==
    ASSUME \A n \in Names : StoredName[n] = n
    PROVE  TypeOK /\ UniqueNames /\ [Next]_vars => UniqueNames'
<1> SUFFICES ASSUME TypeOK, UniqueNames, [Next]_vars PROVE UniqueNames'
  OBVIOUS
<1>1. CASE UNCHANGED vars
  BY <1>1 DEF UniqueNames, Live, vars
<1>2. ASSUME NEW slot \in Idx, NEW type \in {FS_TYPE_FILE, FS_TYPE_DIR},
             NEW name \in Names, Created(slot, type, name), Matches(name, fs_cwd) = {}
      PROVE  UniqueNames'
  <2>1. /\ \A i \in Idx \ {slot} : fs_table'[i] = fs_table[i]
        /\ fs_table'[slot].type = type
        /\ fs_table'[slot].parent = fs_cwd
        /\ fs_table'[slot].name = name
    BY <1>2 DEF Created, NewEntry, TypeOK, fs_entry_t
  <2>2. Live' = Live \cup {slot} /\ Live \subseteq Idx
    BY <2>1 DEF Live, FS_TYPE_FILE, FS_TYPE_DIR, FS_TYPE_NONE
  <2>3. \A i \in Live : fs_table[i].parent # fs_cwd \/ fs_table[i].name # name
    BY <1>2 DEF Matches
  <2> QED BY <2>1, <2>2, <2>3 DEF UniqueNames
<1>3. ASSUME NEW i \in Idx, NEW data \in Data, Written(i, data)
      PROVE  UniqueNames'
  <2>1. \A j \in Idx : /\ fs_table'[j].type = fs_table[j].type
                       /\ fs_table'[j].parent = fs_table[j].parent
                       /\ fs_table'[j].name = fs_table[j].name
    BY <1>3 DEF Written, TypeOK, fs_entry_t
  <2> QED BY <2>1 DEF UniqueNames, Live
<1>4. ASSUME NEW i \in Idx, Freed(i)
      PROVE  UniqueNames'
  <2>1. /\ \A j \in Idx \ {i} : fs_table'[j] = fs_table[j]
        /\ fs_table'[i].type = FS_TYPE_NONE
    BY <1>4 DEF Freed, Release, TypeOK, fs_entry_t
  <2>2. Live' = Live \ {i} /\ Live \subseteq Idx
    BY <2>1 DEF Live
  <2> QED BY <2>1, <2>2 DEF UniqueNames
<1>5. ASSUME NEW t \in Idx, Moved(t)
      PROVE  UniqueNames'
  BY <1>5 DEF Moved, UniqueNames, Live
<1> QED BY <1>1, <1>2, <1>3, <1>4, <1>5, StepCases

\* If no name the user types is longer than FS_MAX_NAME_LEN, no directory ever
\* holds two entries of one name. (Run FsLongNames shows that longer names break it.)
THEOREM NameUniqueness ==
    ASSUME \A n \in Names : StoredName[n] = n
    PROVE  Spec => []UniqueNames
<1>1. Init => UniqueNames
  <2> SUFFICES ASSUME Init PROVE UniqueNames
    OBVIOUS
  <2>1. Live \subseteq {FS_ROOT_IDX}
    BY DEF Init, fs_init, Live, FS_TYPE_NONE
  <2> QED BY <2>1 DEF UniqueNames
<1>2. TypeOK /\ UniqueNames /\ [Next]_vars => UniqueNames'
  BY UniqueStep
<1> QED BY <1>1, <1>2, Typing, PTL DEF Spec

\* Every command is confined to the current directory, touches one inode, and
\* never renames, retypes or moves an inode in use.
THEOREM Locality == Spec => LocalStep
<1>1. TypeOK /\ [Next]_vars =>
        [\A i \in Idx : fs_table'[i] # fs_table[i] =>
          /\ fs_table'[i].parent = fs_cwd
          /\ \A j \in Idx \ {i} : fs_table'[j] = fs_table[j]
          /\ (i \in Live /\ i \in Live') =>
                /\ fs_table'[i].type = fs_table[i].type
                /\ fs_table'[i].name = fs_table[i].name
                /\ fs_table'[i].parent = fs_table[i].parent]_vars
  <2> SUFFICES ASSUME TypeOK, Next, NEW k \in Idx, fs_table'[k] # fs_table[k]
               PROVE  /\ fs_table'[k].parent = fs_cwd
                      /\ \A j \in Idx \ {k} : fs_table'[j] = fs_table[j]
                      /\ (k \in Live /\ k \in Live') =>
                            /\ fs_table'[k].type = fs_table[k].type
                            /\ fs_table'[k].name = fs_table[k].name
                            /\ fs_table'[k].parent = fs_table[k].parent
    OBVIOUS
  <2>1. ASSUME NEW slot \in Idx, NEW type \in {FS_TYPE_FILE, FS_TYPE_DIR},
               NEW name \in Names, Created(slot, type, name)
        PROVE  /\ k = slot /\ k \notin Live
               /\ fs_table'[k].parent = fs_cwd
               /\ \A j \in Idx \ {k} : fs_table'[j] = fs_table[j]
    BY <2>1 DEF Created, NewEntry, TypeOK, fs_entry_t
  <2>2. ASSUME NEW i \in Idx, NEW data \in Data, Written(i, data)
        PROVE  /\ k = i
               /\ \A j \in Idx \ {k} : fs_table'[j] = fs_table[j]
               /\ fs_table'[k].type = fs_table[k].type
               /\ fs_table'[k].name = fs_table[k].name
               /\ fs_table'[k].parent = fs_table[k].parent
               /\ fs_table[k].parent = fs_cwd
    BY <2>2 DEF Written, TypeOK, fs_entry_t
  <2>3. ASSUME NEW i \in Idx, Freed(i)
        PROVE  /\ k = i /\ k \notin Live'
               /\ \A j \in Idx \ {k} : fs_table'[j] = fs_table[j]
               /\ fs_table'[k].parent = fs_cwd
    BY <2>3 DEF Freed, Release, TypeOK, fs_entry_t, Live
  <2>4. ASSUME NEW t \in Idx, Moved(t)
        PROVE  FALSE
    BY <2>4 DEF Moved
  <2> QED BY <2>1, <2>2, <2>3, <2>4, StepCases
<1> QED BY <1>1, Typing, PTL DEF Spec, LocalStep
===============================================================================
