------------------------ MODULE TecnicoFSLockedProofs ------------------------
(***************************************************************************)
(* Proofs about TecnicoFS of Projeto2 for any number of threads, tables of *)
(* any size and any interleaving of their calls: what g_library_mutex      *)
(* protects is consistent whenever it is free, no assertion fails, and the *)
(* calls do what AbstractFS promises.                                      *)
(***************************************************************************)
EXTENDS TecnicoFSLocked, FiniteSetTheorems, SequenceTheorems, TLAPS

(***************************************************************************)
(* The inductive invariant                                                 *)
(***************************************************************************)
Steps == {"idle", "open", "truncate", "inode_alloc", "inode_create", "entry",
          "undo", "slot", "close", "write", "block", "copy", "advance", "read",
          "deliver", "unlink", "delete", "clear", "unlock"}

Contents == Bytes \cup {Junk}
Delivered == UNION {[0 .. length - 1 -> Contents] : length \in 0 .. BLOCK_SIZE}

Call == [name : Names \cup {NoName}, mode : Modes, fhandle : Handles \cup {-1},
         buffer : Buffers, len : 0 .. MAX_LEN, inum : Inodes \cup {-1},
         count : 0 .. BLOCK_SIZE, offset : 0 .. BLOCK_SIZE, ret : Int,
         data : Delivered]

TablesType ==
    /\ freeinode_ts \in [Inodes -> {"FREE", "TAKEN"}]
    /\ inode_table \in [Inodes -> [i_size : 0 .. BLOCK_SIZE,
                                   i_data_block : Blocks \cup {-1}]]
    /\ free_blocks \in [Blocks -> {"FREE", "TAKEN"}]
    /\ fs_data \in [Blocks -> [Offsets -> Contents]]
    /\ dir \in [Slots -> [d_name : Names \cup {NoName}, d_inumber : Inodes \cup {-1}]]
    /\ open_file_table \in [Handles -> [of_inumber : Inodes \cup {-1},
                                        of_offset : 0 .. BLOCK_SIZE]]

CallsType == pc \in [Threads -> Steps] /\ call \in [Threads -> Call]

\* Only the holder of the mutex is inside a call.
MutexInv ==
    /\ g_library_mutex \in Threads \cup {NoThread}
    /\ \A t \in Threads : pc[t] = "idle" <=> g_library_mutex # t

\* Slots after an entry that was never used were not used either, so the first
\* entry with a name in use is the live one.
StaleEntriesLast ==
    \A s, u \in Slots : /\ s < u
                        /\ dir[s].d_inumber = -1
                        /\ dir[s].d_name # NoName
                        => dir[u].d_inumber = -1

Named(i) == \E s \in Slots : dir[s].d_inumber = i

DirInv ==
    /\ NamesUnique
    /\ StaleEntriesLast
    /\ \A s \in Slots : dir[s].d_inumber # -1 => dir[s].d_name \in Names

\* Every handle is on a named file, at or before its end.
HandlesInv ==
    \A h \in Handles :
        \/ open_file_table[h] = NoFile
        \/ /\ Named(open_file_table[h].of_inumber)
           /\ open_file_table[h].of_inumber # -1
           /\ open_file_table[h].of_offset
                 <= inode_table[open_file_table[h].of_inumber].i_size

\* The allocated inodes are the named ones, but for one that is being made and
\* one that is being removed.
InodesInv(made, gone) ==
    \A i \in Inodes : freeinode_ts[i] = "TAKEN" <=> i = made \/ (Named(i) /\ i # gone)

\* Inode i has a block: it is not empty, or its first write has not set its
\* size yet.  An inode that was just allocated still has what a deleted file
\* left in it.
Owner(i, raw, filling) == /\ freeinode_ts[i] = "TAKEN"
                          /\ i # raw
                          /\ inode_table[i].i_size > 0 \/ i = filling

\* The allocated blocks are those of the owners, one each.
BlocksInv(raw, filling) ==
    /\ \A i \in Inodes : Owner(i, raw, filling) =>
          /\ inode_table[i].i_data_block \in Blocks
          /\ free_blocks[inode_table[i].i_data_block] = "TAKEN"
    /\ \A b \in Blocks : free_blocks[b] = "TAKEN" =>
          \E i \in Inodes : Owner(i, raw, filling) /\ inode_table[i].i_data_block = b
    /\ \A i, j \in Inodes :
          /\ Owner(i, raw, filling) /\ Owner(j, raw, filling)
          /\ inode_table[i].i_data_block = inode_table[j].i_data_block
          => i = j

Rest == InodesInv(-1, -1) /\ BlocksInv(-1, -1)

Closed(i) == \A h \in Handles : open_file_table[h].of_inumber # i

\* A write or a read in progress, inside its file.
Transfer(t) ==
    LET file == open_file_table[call[t].fhandle]
    IN /\ call[t].fhandle \in Handles
       /\ file.of_inumber = call[t].inum
       /\ call[t].inum \in Inodes
       /\ call[t].count > 0

Writing(t) ==
    /\ Transfer(t)
    /\ open_file_table[call[t].fhandle].of_offset + call[t].count <= BLOCK_SIZE
    /\ call[t].count <= Cardinality(DOMAIN call[t].buffer)

Reading(t) ==
    /\ Transfer(t)
    /\ open_file_table[call[t].fhandle].of_offset + call[t].count
          <= inode_table[call[t].inum].i_size

\* What the holder t has done so far, and what it is about to rely on.
HolderInv(t) ==
    LET step == pc[t]
        n == call[t].name
        i == call[t].inum
    IN /\ step \in {"open", "truncate", "inode_alloc", "slot", "close", "write",
                    "block", "read", "deliver", "unlink", "delete", "unlock"} => Rest
       /\ step = "open" => /\ n \in Names /\ call[t].offset = 0
                           /\ "TFS_O_TRUNC" \in call[t].mode => ~IsOpen(n)
       /\ step \in {"truncate", "slot", "delete", "clear"} => i \in Inodes /\ Named(i)
       /\ step = "truncate" => ("TFS_O_TRUNC" \in call[t].mode => Closed(i))
       /\ step \in {"inode_alloc", "inode_create", "entry", "undo"} =>
             n \in Names /\ n \notin Malformed /\ Matches(n) = {} /\ call[t].offset = 0
       /\ step \in {"inode_create", "entry", "undo"} =>
             i \in Inodes /\ ~Named(i) /\ InodesInv(i, -1)
       /\ step = "inode_create" => BlocksInv(i, -1)
       /\ step \in {"entry", "undo"} => BlocksInv(-1, -1) /\ inode_table[i].i_size = 0
       /\ step = "slot" => call[t].offset <= inode_table[i].i_size
       /\ step \in {"close", "write", "read"} => call[t].fhandle \in Handles
       /\ step \in {"block", "copy", "advance"} => Writing(t)
       /\ step = "block" => inode_table[i].i_size = 0
       /\ step \in {"copy", "advance"} => InodesInv(-1, -1) /\ BlocksInv(-1, i)
       /\ step = "deliver" => Reading(t)
       /\ step = "unlink" => n \in Names /\ ~IsOpen(n)
       /\ step \in {"delete", "clear"} => /\ Closed(i)
                                          /\ \E s \in Slots : /\ dir[s].d_inumber = i
                                                              /\ dir[s].d_name = n
       /\ step = "clear" => InodesInv(-1, i) /\ BlocksInv(-1, -1)

\* What holds of the tables at every step.
TablesInv == TablesType /\ DirInv /\ HandlesInv

IInv ==
    /\ TablesInv
    /\ CallsType
    /\ MutexInv
    /\ g_library_mutex = NoThread => Rest
    /\ \A t \in Threads : g_library_mutex = t => HolderInv(t)

(***************************************************************************)
(* Control                                                                 *)
(***************************************************************************)
LEMMA Constants ==
    /\ MAX_INODES \in Nat \ {0} /\ MAX_BLOCKS \in Nat \ {0} /\ BLOCK_SIZE \in Nat \ {0}
    /\ MAX_OPEN_FILES \in Nat /\ MAX_DIR_ENTRIES \in Nat /\ MAX_LEN \in Nat
    /\ NoName \notin Names /\ NoThread \notin Threads
    /\ Handles \subseteq Nat /\ Slots \subseteq Nat /\ Offsets \subseteq Nat
    /\ Inodes \subseteq Nat \ {0} /\ Blocks \subseteq Nat \ {0}
    /\ -1 \notin Inodes /\ -1 \notin Handles
BY LockedAssumption DEF Handles, Slots, Offsets, Inodes, Blocks

LEMMA NoCallTyped == NoCall \in Call
<1>1. NoData \in Buffers
  <2>1. NoData \in [0 .. 0 - 1 -> Bytes]
    BY DEF NoData
  <2> QED BY <2>1, Constants DEF Buffers
<1>2. NoData \in Delivered
  <2>1. NoData \in [0 .. 0 - 1 -> Contents]
    BY DEF NoData
  <2> QED BY <2>1, Constants DEF Delivered
<1> QED BY <1>1, <1>2, Constants DEF NoCall, Call, Modes

\* Nothing changes while a table does not.
LEMMA TablesKept ==
    ASSUME UNCHANGED tables
    PROVE  /\ TablesInv => TablesInv'
           /\ Rest => Rest'
           /\ \A n : Matches(n)' = Matches(n) /\ IsOpen(n)' = IsOpen(n)
           /\ \A i : Named(i)' = Named(i) /\ Closed(i)' = Closed(i)
<1> USE DEF tables
<1>1. \A n : Matches(n)' = Matches(n)
  BY DEF Matches
<1>2. \A n : IsOpen(n)' = IsOpen(n)
  BY DEF Matches, IsOpen
<1>3. \A i : Named(i)' = Named(i) /\ Closed(i)' = Closed(i)
  BY DEF Named, Closed
<1>4. TablesInv => TablesInv'
  BY DEF TablesInv, TablesType, DirInv, NamesUnique, StaleEntriesLast, HandlesInv, Named
<1>5. Rest => Rest'
  BY DEF Rest, InodesInv, BlocksInv, Owner, Named
<1> QED BY <1>1, <1>2, <1>3, <1>4, <1>5

\* The holder t goes to step with the variables mine.
LEMMA Moves ==
    ASSUME IInv, NEW t \in Threads, NEW step \in Steps \ {"idle"}, NEW mine \in Call,
           pc[t] # "idle",
           pc' = [pc EXCEPT ![t] = step],
           call' = [call EXCEPT ![t] = mine],
           UNCHANGED g_library_mutex,
           TablesInv',
           pc'[t] = step /\ call'[t] = mine => HolderInv(t)'
    PROVE  IInv'
<1> USE Constants
<1>1. g_library_mutex = t /\ g_library_mutex # NoThread
  BY DEF IInv, MutexInv
<1>2. /\ CallsType' /\ pc'[t] = step /\ call'[t] = mine
      /\ \A u \in Threads \ {t} : pc'[u] = pc[u]
  BY DEF IInv, CallsType
<1>3. MutexInv'
  BY <1>1, <1>2 DEF IInv, MutexInv
<1> QED BY <1>1, <1>2, <1>3 DEF IInv

\* A call that is done leaves the tables as they are when the mutex is free.
LEMMA Answers ==
    ASSUME IInv, NEW t \in Threads, NEW r \in Int,
           pc[t] # "idle",
           Answer(t, r),
           UNCHANGED g_library_mutex,
           TablesInv', Rest'
    PROVE  IInv'
<1> DEFINE mine == [call[t] EXCEPT !.ret = r]
<1>1. call[t] \in Call /\ call \in [Threads -> Call]
  BY DEF IInv, CallsType
<1>2. mine \in Call
  BY <1>1 DEF Call
<1>3. call' = [call EXCEPT ![t] = mine] /\ pc' = [pc EXCEPT ![t] = "unlock"]
  BY <1>1 DEF Answer, Goto
<1>4. pc'[t] = "unlock" => HolderInv(t)'
  BY DEF HolderInv
<1> HIDE DEF mine
<1> QED BY <1>2, <1>3, <1>4, Moves DEF Steps

(***************************************************************************)
(* The beginning and the end of a call                                     *)
(***************************************************************************)
LEMMA InitProof == ASSUME Init PROVE IInv
<1> USE Constants
<1>1. PICK left \in [Slots -> StaleNames \cup {NoName}] :
          dir = [s \in Slots |-> [d_name |-> left[s], d_inumber |-> -1]]
  BY DEF Init
<1>2. \A s \in Slots : dir[s].d_inumber = -1
  BY <1>1
<1>3. TablesType
  <2>1. dir \in [Slots -> [d_name : Names \cup {NoName}, d_inumber : Inodes \cup {-1}]]
    BY <1>1, LockedAssumption
  <2>2. fs_data \in [Blocks -> [Offsets -> Contents]]
    BY DEF Init, Contents
  <2> QED BY <2>1, <2>2 DEF Init, TablesType, NoFile
<1>4. DirInv
  BY <1>2 DEF DirInv, NamesUnique, StaleEntriesLast
<1>5. HandlesInv
  BY DEF Init, HandlesInv
<1>6. CallsType /\ MutexInv
  BY NoCallTyped DEF Init, CallsType, MutexInv, Steps
<1>7. Rest
  <2>1. /\ \A i \in Inodes : freeinode_ts[i] = "FREE"
        /\ \A b \in Blocks : free_blocks[b] = "FREE"
    BY DEF Init
  <2>2. InodesInv(-1, -1)
    BY <1>2, <2>1 DEF InodesInv, Named
  <2>3. BlocksInv(-1, -1)
    BY <2>1 DEF BlocksInv, Owner
  <2> QED BY <2>2, <2>3 DEF Rest
<1>8. g_library_mutex = NoThread
  BY DEF Init
<1> QED BY <1>3, <1>4, <1>5, <1>6, <1>7, <1>8 DEF IInv, TablesInv

\* Whoever locks the mutex finds it free, and the tables as the last holder
\* left them.
LEMMA Locks ==
    ASSUME IInv, NEW t \in Threads, NEW step \in Steps \ {"idle"}, NEW args \in Call,
           Lock(t, step, args),
           /\ pc'[t] = step /\ call'[t] = args
           /\ Rest'
           /\ \A n : IsOpen(n)' = IsOpen(n)
           => HolderInv(t)'
    PROVE  IInv'
<1> USE Constants
<1>1. /\ g_library_mutex = NoThread /\ Rest /\ g_library_mutex' = t
      /\ UNCHANGED tables
  BY DEF Lock, IInv
<1>2. TablesInv' /\ Rest' /\ \A n : IsOpen(n)' = IsOpen(n)
  BY <1>1, TablesKept DEF IInv
<1>3. /\ CallsType' /\ pc'[t] = step /\ call'[t] = args
      /\ \A u \in Threads \ {t} : pc'[u] = pc[u]
  BY DEF IInv, CallsType, Lock, Goto
<1>4. MutexInv'
  BY <1>1, <1>3 DEF IInv, MutexInv
<1> QED BY <1>1, <1>2, <1>3, <1>4 DEF IInv

LEMMA BeginStep ==
    ASSUME IInv, NEW t \in Threads, Begin(t)
    PROVE  IInv'
<1> USE NoCallTyped, Constants
<1>1. ASSUME NEW n \in Names, NEW mode \in Modes, Open(t, n, mode)
      PROVE  IInv'
  <2> DEFINE args == [NoCall EXCEPT !.name = n, !.mode = mode]
  <2>1. args \in Call /\ args.name = n /\ args.mode = mode /\ args.offset = 0
    BY DEF Call, NoCall
  <2>2. Lock(t, "open", args) /\ ("TFS_O_TRUNC" \in mode => ~IsOpen(n))
    BY <1>1 DEF Open
  <2>3. /\ pc'[t] = "open" /\ call'[t] = args /\ Rest'
        /\ \A m : IsOpen(m)' = IsOpen(m)
        => HolderInv(t)'
    BY <2>1, <2>2 DEF HolderInv
  <2> HIDE DEF args
  <2> QED BY <2>1, <2>2, <2>3, Locks DEF Steps
<1>2. ASSUME NEW n \in Names, Unlink(t, n)
      PROVE  IInv'
  <2> DEFINE args == [NoCall EXCEPT !.name = n]
  <2>1. args \in Call /\ args.name = n
    BY DEF Call, NoCall
  <2>2. Lock(t, "unlink", args) /\ ~IsOpen(n)
    BY <1>2 DEF Unlink
  <2>3. /\ pc'[t] = "unlink" /\ call'[t] = args /\ Rest'
        /\ \A m : IsOpen(m)' = IsOpen(m)
        => HolderInv(t)'
    BY <2>1, <2>2 DEF HolderInv
  <2> HIDE DEF args
  <2> QED BY <2>1, <2>2, <2>3, Locks DEF Steps
<1>3. ASSUME NEW args \in Call, args.fhandle \in Handles,
             NEW step \in {"close", "write", "read"}, Lock(t, step, args)
      PROVE  IInv'
  <2>1. pc'[t] = step /\ call'[t] = args /\ Rest' => HolderInv(t)'
    BY <1>3 DEF HolderInv
  <2> QED BY <1>3, <2>1, Locks DEF Steps
<1>4. ASSUME NEW fh \in Handles, Close(t, fh)
      PROVE  IInv'
  <2> DEFINE args == [NoCall EXCEPT !.fhandle = fh]
  <2>1. args \in Call /\ args.fhandle \in Handles
    BY DEF Call, NoCall
  <2> QED BY <1>3, <1>4, <2>1 DEF Close
<1>5. ASSUME NEW fh \in Handles, NEW data \in Buffers, Write(t, fh, data)
      PROVE  IInv'
  <2> DEFINE args == [NoCall EXCEPT !.fhandle = fh, !.buffer = data]
  <2>1. args \in Call /\ args.fhandle \in Handles
    BY DEF Call, NoCall
  <2> QED BY <1>3, <1>5, <2>1 DEF Write
<1>6. ASSUME NEW fh \in Handles, NEW len \in 0 .. MAX_LEN, Read(t, fh, len)
      PROVE  IInv'
  <2> DEFINE args == [NoCall EXCEPT !.fhandle = fh, !.len = len]
  <2>1. args \in Call /\ args.fhandle \in Handles
    BY DEF Call, NoCall
  <2> QED BY <1>3, <1>6, <2>1 DEF Read
<1> QED BY <1>1, <1>2, <1>4, <1>5, <1>6 DEF Begin

LEMMA UnlockStep ==
    ASSUME IInv, NEW t \in Threads, Unlock(t)
    PROVE  IInv'
<1> USE Constants
<1>1. g_library_mutex = t /\ g_library_mutex' = NoThread
  BY DEF IInv, MutexInv, Unlock
<1>2. Rest /\ UNCHANGED tables
  BY <1>1 DEF IInv, HolderInv, Unlock
<1>3. TablesInv' /\ Rest'
  BY <1>2, TablesKept DEF IInv
<1>4. /\ CallsType' /\ pc'[t] = "idle"
      /\ \A u \in Threads \ {t} : pc'[u] = pc[u]
  BY NoCallTyped DEF IInv, CallsType, Unlock, Goto, Steps
<1>5. MutexInv'
  BY <1>1, <1>4 DEF IInv, MutexInv
<1> QED BY <1>1, <1>3, <1>4, <1>5 DEF IInv

(***************************************************************************)
(* Blocks and their owners                                                 *)
(***************************************************************************)
\* Owners and their blocks stay the same.
LEMMA OwnersKept ==
    ASSUME NEW raw, NEW filling, NEW raw2, NEW filling2,
           BlocksInv(raw, filling),
           UNCHANGED free_blocks,
           \A j \in Inodes : Owner(j, raw2, filling2)' <=> Owner(j, raw, filling),
           \A j \in Inodes : Owner(j, raw, filling) =>
               inode_table'[j].i_data_block = inode_table[j].i_data_block
    PROVE  BlocksInv(raw2, filling2)'
BY DEF BlocksInv

\* Inode i gives its block back.
LEMMA OwnerLost ==
    ASSUME TablesType, BlocksInv(-1, -1), NEW i \in Inodes,
           Owner(i, -1, -1), ~Owner(i, -1, -1)',
           free_blocks' = [free_blocks EXCEPT ![inode_table[i].i_data_block] = "FREE"],
           \A j \in Inodes \ {i} : Owner(j, -1, -1)' <=> Owner(j, -1, -1),
           \A j \in Inodes : inode_table'[j].i_data_block = inode_table[j].i_data_block
    PROVE  BlocksInv(-1, -1)'
<1>1. inode_table[i].i_data_block \in Blocks
  BY DEF BlocksInv
<1>2. \A b \in Blocks : free_blocks'[b] = IF b = inode_table[i].i_data_block
                                            THEN "FREE" ELSE free_blocks[b]
  BY DEF TablesType
<1> QED BY <1>1, <1>2 DEF BlocksInv

\* Inode i gets a block.
LEMMA OwnerGained ==
    ASSUME TablesType, BlocksInv(-1, -1), NEW i \in Inodes, NEW b \in Blocks,
           ~Owner(i, -1, -1), Owner(i, -1, i)',
           free_blocks[b] = "FREE",
           free_blocks' = [free_blocks EXCEPT ![b] = "TAKEN"],
           inode_table'[i].i_data_block = b,
           \A j \in Inodes \ {i} :
               /\ Owner(j, -1, i)' <=> Owner(j, -1, -1)
               /\ inode_table'[j] = inode_table[j]
    PROVE  BlocksInv(-1, i)'
<1>1. \A c \in Blocks : free_blocks'[c] = IF c = b THEN "TAKEN" ELSE free_blocks[c]
  BY DEF TablesType
<1>2. \A j \in Inodes : Owner(j, -1, i)' =>
          /\ inode_table'[j].i_data_block \in Blocks
          /\ free_blocks'[inode_table'[j].i_data_block] = "TAKEN"
          /\ j # i => inode_table'[j].i_data_block # b
  BY <1>1 DEF BlocksInv
<1>3. \A c \in Blocks : free_blocks'[c] = "TAKEN" =>
          \E j \in Inodes : Owner(j, -1, i)' /\ inode_table'[j].i_data_block = c
  BY <1>1 DEF BlocksInv
<1>4. \A j, k \in Inodes :
          /\ Owner(j, -1, i)' /\ Owner(k, -1, i)'
          /\ inode_table'[j].i_data_block = inode_table'[k].i_data_block
          => j = k
  BY <1>2 DEF BlocksInv
<1> QED BY <1>2, <1>3, <1>4 DEF BlocksInv

(***************************************************************************)
(* tfs_open                                                                *)
(***************************************************************************)
\* Where the holder is and what it knows.
LEMMA Holder ==
    ASSUME IInv, NEW t \in Threads, pc[t] # "idle"
    PROVE  /\ g_library_mutex = t /\ HolderInv(t)
           /\ call[t] \in Call /\ call \in [Threads -> Call]
           /\ TablesInv /\ TablesType /\ DirInv /\ HandlesInv
BY Constants DEF IInv, MutexInv, CallsType, TablesInv

LEMMA OpenFindStep ==
    ASSUME IInv, NEW t \in Threads, OpenFind(t)
    PROVE  IInv'
<1> DEFINE n == call[t].name
<1>1. /\ pc[t] = "open" /\ pc[t] # "idle" /\ UNCHANGED <<tables, g_library_mutex>>
  BY DEF OpenFind, Stay
<1>2. /\ TablesInv' /\ Rest /\ Rest'
      /\ \A m : Matches(m)' = Matches(m)
      /\ \A i : Named(i)' = Named(i) /\ Closed(i)' = Closed(i)
  BY <1>1, Holder, TablesKept DEF HolderInv
<1>3. /\ n \in Names /\ call[t].offset = 0
      /\ "TFS_O_TRUNC" \in call[t].mode => ~IsOpen(n)
  BY <1>1, Holder DEF HolderInv
<1>4. ASSUME NEW s \in Slots, IsFirst(s, Matches(n)),
             call' = [call EXCEPT ![t].inum = dir[s].d_inumber],
             Goto(t, "truncate")
      PROVE  IInv'
  <2> DEFINE mine == [call[t] EXCEPT !.inum = dir[s].d_inumber]
  <2>1. s \in Matches(n)
    BY <1>4 DEF IsFirst
  <2>2. dir[s].d_inumber \in Inodes /\ Named(dir[s].d_inumber)
    BY <1>1, <2>1, Holder DEF Matches, Named, TablesType
  <2>3. "TFS_O_TRUNC" \in call[t].mode => Closed(dir[s].d_inumber)
    BY <1>3, <2>1 DEF IsOpen, Closed
  <2>4. mine \in Call /\ mine.inum = dir[s].d_inumber /\ mine.mode = call[t].mode
    BY <1>1, <2>2, Holder DEF Call
  <2>5. call' = [call EXCEPT ![t] = mine] /\ pc' = [pc EXCEPT ![t] = "truncate"]
    BY <1>1, <1>4, Holder DEF Goto
  <2>6. pc'[t] = "truncate" /\ call'[t] = mine => HolderInv(t)'
    <3>1. SUFFICES ASSUME pc'[t] = "truncate", call'[t] = mine PROVE HolderInv(t)'
      OBVIOUS
    <3>2. call'[t].inum \in Inodes /\ Named(call[t].inum)'
      BY <1>2, <2>2, <2>4, <3>1 DEF Named
    <3>3. ("TFS_O_TRUNC" \in call[t].mode)' => Closed(call[t].inum)'
      BY <1>2, <2>3, <2>4, <3>1 DEF Closed
    <3> QED BY <1>2, <3>1, <3>2, <3>3 DEF HolderInv
  <2> HIDE DEF mine
  <2> QED BY <1>1, <1>2, <2>4, <2>5, <2>6, Moves DEF Steps
<1>5. ASSUME Matches(n) = {}, n \notin Malformed, Goto(t, "inode_alloc"), UNCHANGED call
      PROVE  IInv'
  <2>1. call[t] \in Call /\ call' = [call EXCEPT ![t] = call[t]]
    BY <1>1, <1>5, Holder
  <2>2. pc'[t] = "inode_alloc" => HolderInv(t)'
    BY <1>2, <1>3, <1>5 DEF HolderInv
  <2>3. pc' = [pc EXCEPT ![t] = "inode_alloc"]
    BY <1>5 DEF Goto
  <2> QED BY <1>1, <1>2, <2>1, <2>2, <2>3, Moves DEF Steps
<1>6. CASE Answer(t, -1)
  BY <1>1, <1>2, <1>6, Answers
<1> QED BY <1>4, <1>5, <1>6 DEF OpenFind

\* What reads the directory alone.
LEMMA DirKept ==
    ASSUME UNCHANGED dir
    PROVE  /\ DirInv => DirInv'
           /\ \A n : Matches(n)' = Matches(n)
           /\ \A i : Named(i)' <=> Named(i)
BY DEF DirInv, NamesUnique, StaleEntriesLast, Matches, Named

\* Handles stay inside a file that does not shrink.
LEMMA HandlesKept ==
    ASSUME HandlesInv, TablesType, TablesType', UNCHANGED <<dir, open_file_table>>,
           \A i \in Inodes : \/ Closed(i)
                             \/ inode_table'[i].i_size >= inode_table[i].i_size
    PROVE  HandlesInv'
<1> USE Constants
<1> SUFFICES ASSUME NEW h \in Handles, open_file_table[h] # NoFile
             PROVE  /\ Named(open_file_table[h].of_inumber)'
                    /\ open_file_table[h].of_inumber # -1
                    /\ open_file_table[h].of_offset
                          <= inode_table'[open_file_table[h].of_inumber].i_size
  BY DEF HandlesInv
<1> DEFINE i == open_file_table[h].of_inumber
<1>1. /\ Named(i) /\ i # -1 /\ i \in Inodes
      /\ open_file_table[h].of_offset <= inode_table[i].i_size
  BY DEF HandlesInv, TablesType
<1>2. ~Closed(i)
  BY DEF Closed
<1>3. inode_table'[i].i_size >= inode_table[i].i_size
  BY <1>1, <1>2
<1>4. inode_table[i].i_size \in 0 .. BLOCK_SIZE
  BY <1>1 DEF TablesType
<1>5. inode_table'[i].i_size \in 0 .. BLOCK_SIZE
  BY <1>1 DEF TablesType
<1>6. open_file_table[h].of_offset \in 0 .. BLOCK_SIZE
  BY DEF TablesType
<1> HIDE DEF i
<1>7. open_file_table[h].of_offset <= inode_table'[i].i_size
  BY <1>1, <1>3, <1>4, <1>5, <1>6
<1> QED BY <1>1, <1>7 DEF Named, i

LEMMA TruncateStep ==
    ASSUME IInv, NEW t \in Threads, Truncate(t)
    PROVE  IInv'
<1> USE Constants
<1>1. pc[t] = "truncate" /\ pc[t] # "idle" /\ UNCHANGED g_library_mutex
  BY DEF Truncate, Stay
<1>2. PICK i \in Inodes : i = call[t].inum
  BY <1>1, Holder DEF HolderInv
<1> DEFINE truncates == "TFS_O_TRUNC" \in call[t].mode /\ inode_table[i].i_size > 0
           size == IF truncates THEN 0 ELSE inode_table[i].i_size
           offset == IF "TFS_O_APPEND" \in call[t].mode THEN size ELSE 0
           mine == [call[t] EXCEPT !.offset = offset]
<1>3. /\ Named(i) /\ ("TFS_O_TRUNC" \in call[t].mode => Closed(i))
      /\ InodesInv(-1, -1) /\ BlocksInv(-1, -1)
  BY <1>1, <1>2, Holder DEF HolderInv, Rest
<1>4. /\ free_blocks' = IF truncates
                          THEN [free_blocks EXCEPT ![inode_table[i].i_data_block] = "FREE"]
                          ELSE free_blocks
      /\ inode_table' = [inode_table EXCEPT ![i].i_size = size]
      /\ UNCHANGED <<freeinode_ts, fs_data, dir, open_file_table>>
  BY <1>2 DEF Truncate
<1>5. size \in 0 .. BLOCK_SIZE /\ size \in Nat /\ offset \in 0 .. BLOCK_SIZE
      /\ offset <= size
  <2>1. inode_table[i].i_size \in 0 .. BLOCK_SIZE
    BY <1>1, Holder DEF TablesType
  <2> QED BY <2>1
<1>6. TablesType'
  <2>1. TablesType
    BY <1>1, Holder
  <2>2. inode_table' \in [Inodes -> [i_size : 0 .. BLOCK_SIZE,
                                     i_data_block : Blocks \cup {-1}]]
    BY <1>4, <1>5, <2>1 DEF TablesType
  <2>3. free_blocks' \in [Blocks -> {"FREE", "TAKEN"}]
    BY <1>4, <2>1 DEF TablesType
  <2> QED BY <1>4, <2>1, <2>2, <2>3 DEF TablesType
<1>7. /\ inode_table'[i].i_size = size
      /\ \A j \in Inodes \ {i} : inode_table'[j] = inode_table[j]
      /\ \A j \in Inodes : inode_table'[j].i_data_block = inode_table[j].i_data_block
  BY <1>1, <1>4, Holder DEF TablesType
<1>8. TablesInv'
  <2>1. \A j \in Inodes : \/ Closed(j)
                          \/ inode_table'[j].i_size >= inode_table[j].i_size
    <3>1. \A j \in Inodes : inode_table[j].i_size \in Nat
      BY <1>1, Holder DEF TablesType
    <3>2. CASE truncates
      BY <1>3, <1>7, <3>1, <3>2
    <3>3. CASE ~truncates
      BY <1>7, <3>1, <3>3
    <3> QED BY <3>2, <3>3
  <2> QED BY <1>1, <1>4, <1>6, <2>1, Holder, HandlesKept, DirKept DEF TablesInv
<1>9. Rest'
  <2>1. InodesInv(-1, -1)'
    BY <1>3, <1>4 DEF InodesInv, Named
  <2>2. CASE truncates
    <3>1. /\ Owner(i, -1, -1) /\ ~Owner(i, -1, -1)'
          /\ \A j \in Inodes \ {i} : Owner(j, -1, -1)' <=> Owner(j, -1, -1)
      <4>1. freeinode_ts[i] = "TAKEN"
        BY <1>3 DEF InodesInv
      <4> QED BY <1>4, <1>7, <2>2, <4>1 DEF Owner
    <3> QED BY <1>1, <1>3, <1>4, <1>7, <2>1, <2>2, <3>1, Holder, OwnerLost DEF Rest
  <2>3. CASE ~truncates
    <3>1. \A j \in Inodes : Owner(j, -1, -1)' <=> Owner(j, -1, -1)
      BY <1>4, <1>7, <2>3 DEF Owner
    <3> QED BY <1>3, <1>4, <1>7, <2>1, <2>3, <3>1, OwnersKept DEF Rest
  <2> QED BY <2>2, <2>3
<1>10. mine \in Call /\ mine.inum = i /\ mine.offset = offset
  BY <1>1, <1>2, <1>5, Holder DEF Call
<1>11. call' = [call EXCEPT ![t] = mine] /\ pc' = [pc EXCEPT ![t] = "slot"]
  BY <1>1, <1>2, Holder DEF Truncate, Goto
<1>12. pc'[t] = "slot" /\ call'[t] = mine => HolderInv(t)'
  <2>1. SUFFICES ASSUME pc'[t] = "slot", call'[t] = mine PROVE HolderInv(t)'
    OBVIOUS
  <2>2. Named(call[t].inum)' /\ call'[t].inum = i /\ call'[t].offset = offset
    BY <1>3, <1>4, <1>10, <2>1 DEF Named
  <2> QED BY <1>5, <1>7, <1>9, <2>1, <2>2 DEF HolderInv
<1> HIDE DEF mine
<1> QED BY <1>1, <1>8, <1>10, <1>11, <1>12, Moves DEF Steps

LEMMA InodeAllocStep ==
    ASSUME IInv, NEW t \in Threads, InodeAlloc(t)
    PROVE  IInv'
<1> USE Constants
<1>1. /\ pc[t] = "inode_alloc" /\ pc[t] # "idle" /\ UNCHANGED g_library_mutex
      /\ UNCHANGED <<inode_table, free_blocks, fs_data, dir, open_file_table>>
  BY DEF InodeAlloc, Stay
<1>2. /\ call[t].name \in Names /\ call[t].name \notin Malformed
      /\ Matches(call[t].name) = {} /\ call[t].offset = 0
      /\ InodesInv(-1, -1) /\ BlocksInv(-1, -1)
  BY <1>1, Holder DEF HolderInv, Rest
<1>3. ASSUME NEW i \in Inodes, freeinode_ts[i] = "FREE",
             freeinode_ts' = [freeinode_ts EXCEPT ![i] = "TAKEN"],
             call' = [call EXCEPT ![t].inum = i],
             Goto(t, "inode_create")
      PROVE  IInv'
  <2> DEFINE mine == [call[t] EXCEPT !.inum = i]
  <2>1. \A j \in Inodes : freeinode_ts'[j] = IF j = i THEN "TAKEN" ELSE freeinode_ts[j]
    BY <1>1, <1>3, Holder DEF TablesType
  <2>2. TablesInv'
    <3>1. TablesType'
      BY <1>1, <1>3, Holder DEF TablesType
    <3>2. \A j \in Inodes : inode_table'[j].i_size >= inode_table[j].i_size
      BY <1>1, Holder DEF TablesType
    <3> QED BY <1>1, <3>1, <3>2, Holder, HandlesKept, DirKept DEF TablesInv
  <2>3. ~Named(i) /\ ~Named(i)'
    BY <1>1, <1>2, <1>3 DEF InodesInv, Named
  <2>4. InodesInv(i, -1)'
    BY <1>1, <1>2, <2>1, <2>3 DEF InodesInv, Named
  <2>5. BlocksInv(i, -1)'
    <3>1. \A j \in Inodes : Owner(j, i, -1)' <=> Owner(j, -1, -1)
      BY <1>1, <1>3, <2>1 DEF Owner
    <3> QED BY <1>1, <1>2, <3>1, OwnersKept
  <2>6. /\ mine \in Call /\ mine.inum = i /\ mine.name = call[t].name
        /\ mine.offset = 0
    BY <1>1, <1>2, Holder DEF Call
  <2>7. call' = [call EXCEPT ![t] = mine] /\ pc' = [pc EXCEPT ![t] = "inode_create"]
    BY <1>1, <1>3, Holder DEF Goto
  <2>8. pc'[t] = "inode_create" /\ call'[t] = mine => HolderInv(t)'
    <3>1. SUFFICES ASSUME pc'[t] = "inode_create", call'[t] = mine PROVE HolderInv(t)'
      OBVIOUS
    <3>2. call'[t].inum = i /\ call'[t].name = call[t].name /\ call'[t].offset = 0
      BY <2>6, <3>1
    <3>3. Matches(call[t].name)' = {}
      BY <1>1, <1>2, <3>2 DEF Matches
    <3>4. ~Named(call[t].inum)'
      BY <2>3, <3>2 DEF Named
    <3>5. InodesInv(call[t].inum, -1)'
      BY <2>4, <3>2 DEF InodesInv
    <3>6. BlocksInv(call[t].inum, -1)'
      BY <2>5, <3>2 DEF BlocksInv, Owner
    <3> QED BY <1>2, <3>1, <3>2, <3>3, <3>4, <3>5, <3>6 DEF HolderInv
  <2> HIDE DEF mine
  <2> QED BY <1>1, <2>2, <2>6, <2>7, <2>8, Moves DEF Steps
<1>4. CASE Answer(t, -1) /\ UNCHANGED freeinode_ts
  <2>1. UNCHANGED tables
    BY <1>1, <1>4 DEF tables
  <2>2. TablesInv' /\ Rest'
    BY <1>1, <1>2, <2>1, Holder, TablesKept DEF Rest
  <2> QED BY <1>1, <1>4, <2>2, Answers
<1> QED BY <1>3, <1>4 DEF InodeAlloc

LEMMA InodeCreateStep ==
    ASSUME IInv, NEW t \in Threads, InodeCreate(t)
    PROVE  IInv'
<1> USE Constants
<1>1. /\ pc[t] = "inode_create" /\ pc[t] # "idle" /\ UNCHANGED g_library_mutex
      /\ UNCHANGED <<freeinode_ts, free_blocks, fs_data, dir, open_file_table, call>>
  BY DEF InodeCreate, Stay
<1>2. PICK i \in Inodes : i = call[t].inum
  BY <1>1, Holder DEF HolderInv
<1>3. /\ call[t].name \in Names /\ call[t].name \notin Malformed
      /\ Matches(call[t].name) = {} /\ call[t].offset = 0
      /\ ~Named(i) /\ InodesInv(i, -1) /\ BlocksInv(i, -1)
  BY <1>1, <1>2, Holder DEF HolderInv
<1>4. inode_table' = [inode_table EXCEPT ![i] = [i_size |-> 0, i_data_block |-> -1]]
  BY <1>2 DEF InodeCreate
<1>5. /\ inode_table'[i].i_size = 0
      /\ \A j \in Inodes \ {i} : inode_table'[j] = inode_table[j]
  BY <1>1, <1>4, Holder DEF TablesType
<1>6. TablesInv'
  <2>1. TablesType'
    BY <1>1, <1>4, Holder DEF TablesType
  <2>2. Closed(i)
    BY <1>1, <1>3, Holder DEF Closed, HandlesInv, NoFile
  <2>3. \A j \in Inodes : \/ Closed(j)
                          \/ inode_table'[j].i_size >= inode_table[j].i_size
    BY <1>1, <1>5, <2>2, Holder DEF TablesType
  <2> QED BY <1>1, <2>1, <2>3, Holder, HandlesKept, DirKept DEF TablesInv
<1>7. BlocksInv(-1, -1)'
  <2>1. \A j \in Inodes : Owner(j, -1, -1)' <=> Owner(j, i, -1)
    <3>1. ~Owner(i, -1, -1)' /\ ~Owner(i, i, -1)
      BY <1>5 DEF Owner
    <3>2. \A j \in Inodes \ {i} : Owner(j, -1, -1)' <=> Owner(j, i, -1)
      BY <1>1, <1>5 DEF Owner
    <3> QED BY <3>1, <3>2
  <2>2. \A j \in Inodes : Owner(j, i, -1) =>
            inode_table'[j].i_data_block = inode_table[j].i_data_block
    BY <1>5 DEF Owner
  <2> QED BY <1>1, <1>3, <2>1, <2>2, OwnersKept
<1>8. pc'[t] = "entry" => HolderInv(t)'
  <2>1. SUFFICES ASSUME pc'[t] = "entry" PROVE HolderInv(t)'
    OBVIOUS
  <2>2. Matches(call[t].name)' = {} /\ ~Named(call[t].inum)'
    BY <1>1, <1>2, <1>3 DEF Matches, Named
  <2>3. InodesInv(call[t].inum, -1)'
    BY <1>1, <1>2, <1>3 DEF InodesInv, Named
  <2>4. call'[t].inum = i /\ inode_table'[call'[t].inum].i_size = 0
    BY <1>1, <1>2, <1>5
  <2> QED BY <1>1, <1>3, <1>7, <2>1, <2>2, <2>3, <2>4 DEF HolderInv
<1>9. /\ call[t] \in Call /\ call' = [call EXCEPT ![t] = call[t]]
      /\ pc' = [pc EXCEPT ![t] = "entry"]
  BY <1>1, Holder DEF InodeCreate, Goto
<1> QED BY <1>1, <1>6, <1>8, <1>9, Moves DEF Steps

\* A new name takes the first empty slot.
LEMMA EntryAdded ==
    ASSUME TablesInv, NEW s \in Slots, NEW n \in Names \ Malformed, NEW i \in Inodes,
           IsFirst(s, {u \in Slots : dir[u].d_inumber = -1}),
           Matches(n) = {}, ~Named(i),
           dir' = [dir EXCEPT ![s] = [d_name |-> n, d_inumber |-> i]],
           UNCHANGED <<freeinode_ts, inode_table, free_blocks, fs_data, open_file_table>>
    PROVE  /\ TablesInv'
           /\ \A j \in Inodes : Named(j)' <=> j = i \/ Named(j)
<1> USE Constants
<1>1. dir[s].d_inumber = -1 /\ \A u \in Slots : dir[u].d_inumber = -1 => s <= u
  BY DEF IsFirst
<1>2. /\ dir'[s].d_name = n /\ dir'[s].d_inumber = i
      /\ \A u \in Slots \ {s} : dir'[u] = dir[u]
  BY DEF TablesInv, TablesType
<1>3. TablesType'
  BY DEF TablesInv, TablesType
<1>4. NamesUnique'
  <2>1. \A u \in Slots : dir[u].d_inumber # -1 => dir[u].d_name # n /\ dir[u].d_inumber # i
    BY DEF Matches, Named
  <2> QED BY <1>2, <2>1 DEF TablesInv, DirInv, NamesUnique
<1>5. StaleEntriesLast'
  <2>1. \A u, v \in Slots : /\ u < v
                            /\ dir'[u].d_inumber = -1
                            /\ dir'[u].d_name # NoName
                            => u # s /\ v # s
    BY <1>1, <1>2
  <2> QED BY <1>2, <2>1 DEF TablesInv, DirInv, StaleEntriesLast
<1>6. \A u \in Slots : dir'[u].d_inumber # -1 => dir'[u].d_name \in Names
  BY <1>2 DEF TablesInv, DirInv
<1>7. \A j \in Inodes : Named(j)' <=> j = i \/ Named(j)
  BY <1>1, <1>2 DEF Named
<1>8. HandlesInv'
  BY <1>7 DEF TablesInv, HandlesInv, TablesType
<1> QED BY <1>3, <1>4, <1>5, <1>6, <1>7, <1>8 DEF TablesInv, DirInv

LEMMA AddDirEntryStep ==
    ASSUME IInv, NEW t \in Threads, AddDirEntry(t)
    PROVE  IInv'
<1> USE Constants
<1>1. /\ pc[t] = "entry" /\ pc[t] # "idle" /\ UNCHANGED g_library_mutex
      /\ UNCHANGED <<freeinode_ts, inode_table, free_blocks, fs_data,
                     open_file_table, call>>
      /\ call[t] \in Call /\ call' = [call EXCEPT ![t] = call[t]]
  BY Holder DEF AddDirEntry, Stay
<1>2. PICK i \in Inodes : i = call[t].inum
  BY <1>1, Holder DEF HolderInv
<1>3. /\ call[t].name \in Names \ Malformed
      /\ Matches(call[t].name) = {} /\ call[t].offset = 0
      /\ ~Named(i) /\ InodesInv(i, -1) /\ BlocksInv(-1, -1)
      /\ inode_table[i].i_size = 0
  BY <1>1, <1>2, Holder DEF HolderInv
<1>4. ASSUME NEW s \in Slots,
             IsFirst(s, {u \in Slots : dir[u].d_inumber = -1}),
             dir' = [dir EXCEPT ![s] = [d_name |-> call[t].name,
                                        d_inumber |-> call[t].inum]],
             Goto(t, "slot")
      PROVE  IInv'
  <2>1. /\ TablesInv'
        /\ \A j \in Inodes : Named(j)' <=> j = i \/ Named(j)
    BY <1>1, <1>2, <1>3, <1>4, Holder, EntryAdded
  <2>2. Rest'
    <3>1. InodesInv(-1, -1)'
      BY <1>1, <1>3, <2>1 DEF InodesInv
    <3>2. BlocksInv(-1, -1)'
      BY <1>1, <1>3 DEF BlocksInv, Owner
    <3> QED BY <3>1, <3>2 DEF Rest
  <2>3. pc'[t] = "slot" => HolderInv(t)'
    <3>1. SUFFICES ASSUME pc'[t] = "slot" PROVE HolderInv(t)'
      OBVIOUS
    <3>2. call'[t].inum \in Inodes /\ Named(call[t].inum)'
      BY <1>1, <1>2, <2>1 DEF Named
    <3>3. call'[t].offset <= inode_table'[call'[t].inum].i_size
      BY <1>1, <1>2, <1>3
    <3> QED BY <2>2, <3>1, <3>2, <3>3 DEF HolderInv
  <2> QED BY <1>1, <1>4, <2>1, <2>3, Moves DEF Steps, Goto
<1>5. CASE Goto(t, "undo") /\ UNCHANGED dir
  <2>1. UNCHANGED tables
    BY <1>1, <1>5 DEF tables
  <2>2. TablesInv'
    BY <1>1, <2>1, Holder, TablesKept
  <2>3. pc'[t] = "undo" => HolderInv(t)'
    <3>1. SUFFICES ASSUME pc'[t] = "undo" PROVE HolderInv(t)'
      OBVIOUS
    <3>2. Matches(call[t].name)' = {} /\ ~Named(call[t].inum)'
      BY <1>1, <1>2, <1>3, <1>5 DEF Matches, Named
    <3>3. InodesInv(call[t].inum, -1)'
      BY <1>1, <1>2, <1>3, <1>5 DEF InodesInv, Named
    <3>4. BlocksInv(-1, -1)' /\ inode_table'[call'[t].inum].i_size = 0
      BY <1>1, <1>2, <1>3 DEF BlocksInv, Owner
    <3> QED BY <1>1, <1>2, <1>3, <3>1, <3>2, <3>3, <3>4 DEF HolderInv
  <2> QED BY <1>1, <1>5, <2>2, <2>3, Moves DEF Steps, Goto
<1> QED BY <1>4, <1>5 DEF AddDirEntry

\* inode_delete gives back the inode and its block.
LEMMA InodeDeleted ==
    ASSUME TablesInv, BlocksInv(-1, -1), NEW i \in Inodes, InodeDelete(i),
           UNCHANGED <<inode_table, fs_data, dir, open_file_table>>
    PROVE  /\ TablesInv'
           /\ BlocksInv(-1, -1)'
           /\ \A j \in Inodes : freeinode_ts'[j] = IF j = i THEN "FREE"
                                                   ELSE freeinode_ts[j]
<1> USE Constants
<1>1. TablesType /\ HandlesInv /\ DirInv
  BY DEF TablesInv
<1>2. \A j \in Inodes : freeinode_ts'[j] = IF j = i THEN "FREE" ELSE freeinode_ts[j]
  BY <1>1 DEF InodeDelete, TablesType
<1>3. TablesInv'
  <2>1. TablesType'
    BY <1>1 DEF InodeDelete, TablesType
  <2>2. \A j \in Inodes : inode_table'[j].i_size >= inode_table[j].i_size
    BY <1>1 DEF TablesType
  <2> QED BY <1>1, <2>1, <2>2, HandlesKept, DirKept DEF TablesInv
<1>4. /\ ~Owner(i, -1, -1)'
      /\ \A j \in Inodes \ {i} : Owner(j, -1, -1)' <=> Owner(j, -1, -1)
  BY <1>2 DEF Owner
<1>5. CASE inode_table[i].i_size > 0
  <2>1. Owner(i, -1, -1)
    BY <1>5 DEF Owner, InodeDelete
  <2> QED BY <1>1, <1>2, <1>3, <1>4, <1>5, <2>1, OwnerLost DEF InodeDelete
<1>6. CASE ~(inode_table[i].i_size > 0)
  <2>1. ~Owner(i, -1, -1)
    BY <1>6 DEF Owner
  <2>2. \A j \in Inodes : Owner(j, -1, -1)' <=> Owner(j, -1, -1)
    BY <1>4, <2>1
  <2> QED BY <1>2, <1>3, <1>6, <2>2, OwnersKept DEF InodeDelete
<1> QED BY <1>5, <1>6

LEMMA OpenUndoStep ==
    ASSUME IInv, NEW t \in Threads, OpenUndo(t)
    PROVE  IInv'
<1> USE Constants
<1>1. /\ pc[t] = "undo" /\ pc[t] # "idle" /\ UNCHANGED g_library_mutex
      /\ UNCHANGED <<inode_table, fs_data, dir, open_file_table>>
      /\ Answer(t, -1)
  BY DEF OpenUndo, Stay
<1>2. PICK i \in Inodes : i = call[t].inum
  BY <1>1, Holder DEF HolderInv
<1>3. ~Named(i) /\ InodesInv(i, -1) /\ BlocksInv(-1, -1)
  BY <1>1, <1>2, Holder DEF HolderInv
<1>4. /\ TablesInv' /\ BlocksInv(-1, -1)'
      /\ \A j \in Inodes : freeinode_ts'[j] = IF j = i THEN "FREE" ELSE freeinode_ts[j]
  BY <1>1, <1>2, <1>3, Holder, InodeDeleted DEF OpenUndo
<1>5. InodesInv(-1, -1)'
  BY <1>1, <1>3, <1>4 DEF InodesInv, Named
<1> QED BY <1>1, <1>4, <1>5, Answers DEF Rest

LEMMA AddToOpenFileTableStep ==
    ASSUME IInv, NEW t \in Threads, AddToOpenFileTable(t)
    PROVE  IInv'
<1> USE Constants
<1>1. /\ pc[t] = "slot" /\ pc[t] # "idle" /\ UNCHANGED g_library_mutex
      /\ UNCHANGED <<freeinode_ts, inode_table, free_blocks, fs_data, dir>>
  BY DEF AddToOpenFileTable, Stay
<1>2. PICK i \in Inodes : i = call[t].inum
  BY <1>1, Holder DEF HolderInv
<1>3. Rest /\ Named(i) /\ call[t].offset <= inode_table[i].i_size
  BY <1>1, <1>2, Holder DEF HolderInv
<1>4. Rest'
  BY <1>1, <1>3 DEF Rest, InodesInv, BlocksInv, Owner, Named
<1>5. ASSUME NEW h \in Handles,
             open_file_table' = [open_file_table EXCEPT ![h] =
                 [of_inumber |-> call[t].inum, of_offset |-> call[t].offset]],
             Answer(t, h)
      PROVE  IInv'
  <2>1. call[t].offset \in 0 .. BLOCK_SIZE
    BY <1>1, Holder DEF Call
  <2>2. TablesType'
    BY <1>1, <1>2, <1>5, <2>1, Holder DEF TablesType
  <2>3. /\ open_file_table'[h].of_inumber = i
        /\ open_file_table'[h].of_offset = call[t].offset
        /\ \A g \in Handles \ {h} : open_file_table'[g] = open_file_table[g]
    BY <1>1, <1>2, <1>5, Holder DEF TablesType
  <2>4. HandlesInv'
    BY <1>1, <1>3, <2>3, Holder DEF HandlesInv, Named
  <2>5. TablesInv'
    BY <1>1, <2>2, <2>4, DirKept, Holder DEF TablesInv
  <2>6. h \in Int
    OBVIOUS
  <2> QED BY <1>1, <1>4, <1>5, <2>5, <2>6, Answers
<1>6. CASE Answer(t, -1) /\ UNCHANGED open_file_table
  <2>1. UNCHANGED tables
    BY <1>1, <1>6 DEF tables
  <2> QED BY <1>1, <1>4, <1>6, <2>1, Holder, TablesKept, Answers
<1> QED BY <1>5, <1>6 DEF AddToOpenFileTable

(***************************************************************************)
(* tfs_close, tfs_write, tfs_read                                          *)
(***************************************************************************)
LEMMA CloseFreeStep ==
    ASSUME IInv, NEW t \in Threads, CloseFree(t)
    PROVE  IInv'
<1> USE Constants
<1>1. /\ pc[t] = "close" /\ pc[t] # "idle" /\ UNCHANGED g_library_mutex
      /\ UNCHANGED <<freeinode_ts, inode_table, free_blocks, fs_data, dir>>
  BY DEF CloseFree, Stay
<1>2. PICK h \in Handles : h = call[t].fhandle
  BY <1>1, Holder DEF HolderInv
<1>3. open_file_table' = [open_file_table EXCEPT ![h] = NoFile]
  BY <1>2 DEF CloseFree
<1>4. Rest
  BY <1>1, Holder DEF HolderInv
<1>5. Rest'
  BY <1>1, <1>4 DEF Rest, InodesInv, BlocksInv, Owner, Named
<1>6. TablesInv'
  <2>1. TablesType'
    BY <1>1, <1>3, Holder DEF TablesType, NoFile
  <2>2. HandlesInv'
    <3>1. /\ open_file_table'[h] = NoFile
          /\ \A g \in Handles \ {h} : open_file_table'[g] = open_file_table[g]
      BY <1>1, <1>3, Holder DEF TablesType
    <3> QED BY <1>1, <3>1, Holder DEF HandlesInv, Named
  <2> QED BY <1>1, <2>1, <2>2, DirKept, Holder DEF TablesInv
<1>7. CASE Answer(t, -1)
  BY <1>1, <1>5, <1>6, <1>7, Answers
<1>8. CASE Answer(t, 0)
  BY <1>1, <1>5, <1>6, <1>8, Answers
<1> QED BY <1>7, <1>8 DEF CloseFree

\* The caller's buffer is an array.
LEMMA BufferArray ==
    ASSUME NEW d \in Buffers
    PROVE  /\ Cardinality(DOMAIN d) \in 0 .. MAX_LEN
           /\ d \in [0 .. Cardinality(DOMAIN d) - 1 -> Bytes]
<1> USE Constants
<1>1. PICK length \in 0 .. MAX_LEN : d \in [0 .. length - 1 -> Bytes]
  BY DEF Buffers
<1>2. DOMAIN d = 0 .. length - 1 /\ 0 \in Int /\ length - 1 \in Int
  BY <1>1
<1>3. Cardinality(0 .. length - 1) = length
  BY <1>1, FS_Interval
<1> QED BY <1>1, <1>2, <1>3

\* An open handle's file is named and allocated.
LEMMA OpenHandle ==
    ASSUME TablesInv, Rest, NEW h \in Handles, open_file_table[h] # NoFile
    PROVE  LET i == open_file_table[h].of_inumber
           IN /\ i \in Inodes /\ Named(i)
              /\ freeinode_ts[i] = "TAKEN"
              /\ open_file_table[h].of_offset \in 0 .. BLOCK_SIZE
              /\ inode_table[i].i_size \in 0 .. BLOCK_SIZE
              /\ open_file_table[h].of_offset <= inode_table[i].i_size
<1> USE Constants
<1> DEFINE i == open_file_table[h].of_inumber
<1>1. TablesType /\ HandlesInv
  BY DEF TablesInv
<1>2. i \in Inodes /\ Named(i)
  BY <1>1 DEF HandlesInv, TablesType
<1>3. freeinode_ts[i] = "TAKEN"
  BY <1>2 DEF Rest, InodesInv
<1>4. open_file_table[h].of_offset <= inode_table[i].i_size
  BY <1>1 DEF HandlesInv
<1>5. open_file_table[h].of_offset \in 0 .. BLOCK_SIZE
  BY <1>1 DEF TablesType
<1>6. inode_table[i].i_size \in 0 .. BLOCK_SIZE
  BY <1>1, <1>2 DEF TablesType
<1> QED BY <1>2, <1>3, <1>4, <1>5, <1>6

\* The call found its handle open and has count bytes to move.
Starts(t, i, count) == call' = [call EXCEPT ![t].inum = i, ![t].count = count]

LEMMA Started ==
    ASSUME IInv, NEW t \in Threads, pc[t] # "idle", call[t].fhandle \in Handles,
           NEW i \in Inodes, NEW count \in 1 .. BLOCK_SIZE,
           Starts(t, i, count)
    PROVE  \E mine \in Call :
               /\ call' = [call EXCEPT ![t] = mine]
               /\ mine.inum = i /\ mine.count = count
               /\ mine.fhandle = call[t].fhandle /\ mine.buffer = call[t].buffer
<1> DEFINE mine == [call[t] EXCEPT !.inum = i, !.count = count]
<1>1. call[t] \in Call /\ call \in [Threads -> Call]
  BY Holder
<1>2. mine \in Call
  <2>1. i \in Inodes \cup {-1} /\ count \in 0 .. BLOCK_SIZE
    BY Constants
  <2> QED BY <1>1, <2>1 DEF Call
<1>3. /\ mine.inum = i /\ mine.count = count
      /\ mine.fhandle = call[t].fhandle /\ mine.buffer = call[t].buffer
  BY <1>1 DEF Call
<1>4. call' = [call EXCEPT ![t] = mine]
  BY <1>1 DEF Starts
<1> QED BY <1>2, <1>3, <1>4

LEMMA WriteStartStep ==
    ASSUME IInv, NEW t \in Threads, WriteStart(t)
    PROVE  IInv'
<1> USE Constants
<1>1. /\ pc[t] = "write" /\ pc[t] # "idle" /\ UNCHANGED <<tables, g_library_mutex>>
  BY DEF WriteStart, Stay
<1>2. PICK h \in Handles : h = call[t].fhandle
  BY <1>1, Holder DEF HolderInv
<1>3. Rest /\ Rest' /\ TablesInv /\ TablesInv'
  BY <1>1, Holder, TablesKept DEF HolderInv
<1> DEFINE file == open_file_table[h]
           length == Cardinality(DOMAIN call[t].buffer)
<1>4. length \in Nat
  BY <1>1, Holder, BufferArray DEF Call
<1>5. CASE Answer(t, -1)
  BY <1>1, <1>3, <1>5, Answers
<1>6. CASE Answer(t, 0)
  BY <1>1, <1>3, <1>6, Answers
<1>7. ASSUME NEW i, i = file.of_inumber, NEW count, count = WriteCount(file, length),
             file # NoFile, count > 0,
             call' = [call EXCEPT ![t].inum = i, ![t].count = count],
             Goto(t, IF inode_table[i].i_size = 0 THEN "block" ELSE "copy")
      PROVE  IInv'
  <2>1. /\ i \in Inodes /\ freeinode_ts[i] = "TAKEN"
        /\ file.of_offset \in 0 .. BLOCK_SIZE
        /\ inode_table[i].i_size \in 0 .. BLOCK_SIZE
    BY <1>3, <1>7, OpenHandle
  <2>2. /\ count \in 1 .. BLOCK_SIZE /\ count <= length
        /\ file.of_offset + count <= BLOCK_SIZE
    BY <1>4, <1>7, <2>1 DEF WriteCount
  <2>3. PICK mine \in Call :
            /\ call' = [call EXCEPT ![t] = mine]
            /\ mine.inum = i /\ mine.count = count
            /\ mine.fhandle = h /\ mine.buffer = call[t].buffer
    <3>1. Starts(t, i, count)
      BY <1>7 DEF Starts
    <3>2. call[t].fhandle \in Handles /\ pc[t] # "idle" /\ i \in Inodes
          /\ count \in 1 .. BLOCK_SIZE
      BY <1>1, <1>2, <2>1, <2>2
    <3>3. \E mine \in Call :
            /\ call' = [call EXCEPT ![t] = mine]
            /\ mine.inum = i /\ mine.count = count
            /\ mine.fhandle = call[t].fhandle /\ mine.buffer = call[t].buffer
      BY <3>1, <3>2, Started
    <3> QED BY <1>2, <3>3
  <2>4. call'[t] = mine => Writing(t)'
    <3>1. SUFFICES ASSUME call'[t] = mine PROVE Writing(t)'
      OBVIOUS
    <3>2. open_file_table' = open_file_table
      BY <1>1 DEF tables
    <3> QED BY <1>7, <2>1, <2>2, <2>3, <3>1, <3>2 DEF Writing, Transfer
  <2>5. CASE inode_table[i].i_size = 0
    <3>1. pc'[t] = "block" /\ call'[t] = mine => HolderInv(t)'
      BY <1>1, <1>3, <2>3, <2>4, <2>5 DEF HolderInv, tables
    <3>2. pc' = [pc EXCEPT ![t] = "block"]
      BY <1>7, <2>5 DEF Goto
    <3> QED BY <1>1, <1>3, <2>3, <3>1, <3>2, Moves DEF Steps
  <2>6. CASE inode_table[i].i_size # 0
    <3>1. \A j \in Inodes : Owner(j, -1, i)' <=> Owner(j, -1, -1)
      BY <1>1, <2>1, <2>6 DEF Owner, tables
    <3>2. InodesInv(-1, -1)' /\ BlocksInv(-1, i)'
      BY <1>1, <1>3, <3>1, OwnersKept DEF Rest, tables
    <3>3. pc'[t] = "copy" /\ call'[t] = mine => HolderInv(t)'
      <4>1. SUFFICES ASSUME pc'[t] = "copy", call'[t] = mine PROVE HolderInv(t)'
        OBVIOUS
      <4>2. call'[t].inum = i
        BY <2>3, <4>1
      <4>3. BlocksInv(-1, call[t].inum)'
        BY <3>2, <4>2 DEF BlocksInv, Owner
      <4> QED BY <2>4, <3>2, <4>1, <4>3 DEF HolderInv
    <3>4. pc' = [pc EXCEPT ![t] = "copy"]
      BY <1>7, <2>6 DEF Goto
    <3> QED BY <1>1, <1>3, <2>3, <3>3, <3>4, Moves DEF Steps
  <2> QED BY <2>5, <2>6
<1> QED BY <1>2, <1>5, <1>6, <1>7 DEF WriteStart

\* The number, the handle and the inode of a write in progress.
LEMMA WritingNow ==
    ASSUME IInv, NEW t \in Threads, pc[t] \in {"block", "copy", "advance"}
    PROVE  \E h \in Handles, i \in Inodes, count \in 1 .. BLOCK_SIZE :
              /\ h = call[t].fhandle /\ i = call[t].inum /\ count = call[t].count
              /\ open_file_table[h].of_inumber = i
              /\ open_file_table[h].of_offset \in 0 .. BLOCK_SIZE
              /\ open_file_table[h].of_offset + count <= BLOCK_SIZE
              /\ count <= Cardinality(DOMAIN call[t].buffer)
              /\ Named(i) /\ freeinode_ts[i] = "TAKEN"
              /\ InodesInv(-1, -1)
<1> USE Constants
<1>1. pc[t] # "idle" /\ Writing(t) /\ InodesInv(-1, -1)
  BY Holder DEF HolderInv, Rest
<1>2. call[t].fhandle \in Handles /\ call[t].inum \in Inodes
  BY <1>1 DEF Writing, Transfer
<1>3. call[t].count \in 1 .. BLOCK_SIZE
  BY <1>1, Holder DEF Writing, Transfer, Call
<1>4. /\ open_file_table[call[t].fhandle].of_inumber = call[t].inum
      /\ open_file_table[call[t].fhandle].of_offset \in 0 .. BLOCK_SIZE
  BY <1>1, <1>2, Holder DEF Writing, Transfer, TablesType
<1>5. Named(call[t].inum)
  <2>1. open_file_table[call[t].fhandle] # NoFile
    BY <1>2, <1>4 DEF NoFile
  <2> QED BY <1>1, <1>2, <1>4, <2>1, Holder DEF HandlesInv
<1> QED BY <1>1, <1>2, <1>3, <1>4, <1>5 DEF Writing, InodesInv

LEMMA BlockAllocStep ==
    ASSUME IInv, NEW t \in Threads, BlockAlloc(t)
    PROVE  IInv'
<1> USE Constants
<1>1. /\ pc[t] = "block" /\ pc[t] # "idle" /\ UNCHANGED g_library_mutex
      /\ UNCHANGED <<freeinode_ts, fs_data, dir, open_file_table>>
  BY DEF BlockAlloc, Stay
<1>2. PICK i \in Inodes : i = call[t].inum /\ freeinode_ts[i] = "TAKEN"
  BY <1>1, WritingNow
<1>3. Rest /\ Writing(t) /\ inode_table[i].i_size = 0
  BY <1>1, <1>2, Holder DEF HolderInv
<1>4. ASSUME NEW b \in Blocks, free_blocks[b] = "FREE",
             free_blocks' = [free_blocks EXCEPT ![b] = "TAKEN"],
             inode_table' = [inode_table EXCEPT ![i].i_data_block = b],
             Goto(t, "copy"), UNCHANGED call
      PROVE  IInv'
  <2>1. /\ inode_table'[i].i_data_block = b
        /\ \A j \in Inodes : inode_table'[j].i_size = inode_table[j].i_size
        /\ \A j \in Inodes \ {i} : inode_table'[j] = inode_table[j]
    BY <1>1, <1>4, Holder DEF TablesType
  <2>2. TablesInv'
    <3>0. TablesType
      BY <1>1, Holder
    <3>1. inode_table' \in [Inodes -> [i_size : 0 .. BLOCK_SIZE,
                                       i_data_block : Blocks \cup {-1}]]
      BY <1>4, <3>0 DEF TablesType
    <3>2. free_blocks' \in [Blocks -> {"FREE", "TAKEN"}]
      BY <1>4, <3>0 DEF TablesType
    <3>3. TablesType'
      BY <1>1, <3>0, <3>1, <3>2 DEF TablesType
    <3>4. \A j \in Inodes : inode_table'[j].i_size >= inode_table[j].i_size
      BY <2>1, <3>0 DEF TablesType
    <3> QED BY <1>1, <3>3, <3>4, Holder, HandlesKept, DirKept DEF TablesInv
  <2>3. BlocksInv(-1, i)'
    <3>1. ~Owner(i, -1, -1) /\ Owner(i, -1, i)'
      BY <1>1, <1>2, <1>3 DEF Owner
    <3>2. \A j \in Inodes \ {i} : Owner(j, -1, i)' <=> Owner(j, -1, -1)
      BY <1>1, <2>1 DEF Owner
    <3> QED BY <1>1, <1>3, <1>4, <2>1, <3>1, <3>2, Holder, OwnerGained DEF Rest
  <2>4. pc'[t] = "copy" => HolderInv(t)'
    <3>1. SUFFICES ASSUME pc'[t] = "copy" PROVE HolderInv(t)'
      OBVIOUS
    <3>2. BlocksInv(-1, call[t].inum)'
      BY <1>2, <1>4, <2>3 DEF BlocksInv, Owner
    <3>3. InodesInv(-1, -1)'
      BY <1>1, <1>3 DEF Rest, InodesInv, Named
    <3>4. Writing(t)'
      BY <1>1, <1>3, <1>4 DEF Writing, Transfer
    <3> QED BY <3>1, <3>2, <3>3, <3>4 DEF HolderInv
  <2>5. /\ call[t] \in Call /\ call' = [call EXCEPT ![t] = call[t]]
        /\ pc' = [pc EXCEPT ![t] = "copy"]
    BY <1>1, <1>4, Holder DEF Goto
  <2> QED BY <1>1, <2>2, <2>4, <2>5, Moves DEF Steps
<1>5. CASE Answer(t, -1) /\ UNCHANGED <<free_blocks, inode_table>>
  <2>1. UNCHANGED tables
    BY <1>1, <1>5 DEF tables
  <2> QED BY <1>1, <1>3, <1>5, <2>1, Holder, TablesKept, Answers
<1> QED BY <1>2, <1>4, <1>5 DEF BlockAlloc

LEMMA CopyStep ==
    ASSUME IInv, NEW t \in Threads, Copy(t)
    PROVE  IInv'
<1> USE Constants
<1>1. /\ pc[t] = "copy" /\ pc[t] # "idle" /\ UNCHANGED g_library_mutex
      /\ UNCHANGED <<freeinode_ts, inode_table, free_blocks, dir,
                     open_file_table, call>>
  BY DEF Copy, Stay
<1>2. PICK h \in Handles, i \in Inodes, count \in 1 .. BLOCK_SIZE :
          /\ h = call[t].fhandle /\ i = call[t].inum /\ count = call[t].count
          /\ open_file_table[h].of_offset \in 0 .. BLOCK_SIZE
          /\ count <= Cardinality(DOMAIN call[t].buffer)
  BY <1>1, WritingNow
<1>3. PICK offset \in 0 .. BLOCK_SIZE : offset = open_file_table[h].of_offset
  BY <1>2
<1>4. PICK data \in Buffers : data = call[t].buffer
  BY <1>1, Holder DEF Call
<1>5. \A k \in offset .. offset + count - 1 : data[k - offset] \in Contents
  <2>1. TAKE k \in offset .. offset + count - 1
  <2>2. k - offset \in 0 .. Cardinality(DOMAIN data) - 1
    BY <1>2, <1>4, BufferArray
  <2> QED BY <2>2, BufferArray DEF Contents
<1>6. fs_data' \in [Blocks -> [Offsets -> Contents]]
  <2>1. PICK b \in Blocks : b = inode_table[call[t].inum].i_data_block
    BY DEF Copy
  <2> DEFINE bytes == [k \in Offsets |-> IF k \in offset .. offset + count - 1
                                           THEN data[k - offset] ELSE fs_data[b][k]]
  <2>2. fs_data \in [Blocks -> [Offsets -> Contents]]
    BY <1>1, Holder DEF TablesType
  <2>3. bytes \in [Offsets -> Contents]
    BY <1>5, <2>2
  <2>4. fs_data' = [fs_data EXCEPT ![b] = bytes]
    BY <1>2, <1>3, <1>4, <2>1 DEF Copy
  <2> HIDE DEF bytes
  <2> QED BY <2>2, <2>3, <2>4
<1>7. TablesInv'
  <2>1. TablesType'
    BY <1>1, <1>6, Holder DEF TablesType
  <2>2. \A j \in Inodes : inode_table'[j].i_size >= inode_table[j].i_size
    BY <1>1, Holder DEF TablesType
  <2> QED BY <1>1, <2>1, <2>2, Holder, HandlesKept, DirKept DEF TablesInv
<1>8. pc'[t] = "advance" => HolderInv(t)'
  <2>1. SUFFICES ASSUME pc'[t] = "advance" PROVE HolderInv(t)'
    OBVIOUS
  <2>2. Writing(t) /\ InodesInv(-1, -1) /\ BlocksInv(-1, i)
    BY <1>1, <1>2, Holder DEF HolderInv
  <2>3. Writing(t)' /\ InodesInv(-1, -1)'
    BY <1>1, <2>2 DEF Writing, Transfer, InodesInv, Named
  <2>4. BlocksInv(-1, call[t].inum)'
    BY <1>1, <1>2, <2>2 DEF BlocksInv, Owner
  <2> QED BY <2>1, <2>3, <2>4 DEF HolderInv
<1>9. /\ call[t] \in Call /\ call' = [call EXCEPT ![t] = call[t]]
      /\ pc' = [pc EXCEPT ![t] = "advance"]
  BY <1>1, Holder DEF Copy, Goto
<1> QED BY <1>1, <1>7, <1>8, <1>9, Moves DEF Steps

\* A handle moves on inside its file.
LEMMA HandleMoved ==
    ASSUME TablesInv, NEW h \in Handles, NEW offset \in 0 .. BLOCK_SIZE,
           open_file_table[h] # NoFile,
           open_file_table' = [open_file_table EXCEPT ![h].of_offset = offset],
           UNCHANGED <<dir, freeinode_ts, free_blocks, fs_data>>,
           inode_table' \in [Inodes -> [i_size : 0 .. BLOCK_SIZE,
                                        i_data_block : Blocks \cup {-1}]],
           offset <= inode_table'[open_file_table[h].of_inumber].i_size,
           \A j \in Inodes : inode_table'[j].i_size >= inode_table[j].i_size
    PROVE  TablesInv'
<1> USE Constants
<1>1. TablesType /\ HandlesInv /\ DirInv
  BY DEF TablesInv
<1>2. /\ open_file_table'[h].of_inumber = open_file_table[h].of_inumber
      /\ open_file_table'[h].of_offset = offset
      /\ \A g \in Handles \ {h} : open_file_table'[g] = open_file_table[g]
  BY <1>1 DEF TablesType
<1>3. TablesType'
  <2>1. open_file_table' \in [Handles -> [of_inumber : Inodes \cup {-1},
                                          of_offset : 0 .. BLOCK_SIZE]]
    BY <1>1 DEF TablesType
  <2> QED BY <1>1, <2>1 DEF TablesType
<1>4. HandlesInv'
  <2>1. SUFFICES ASSUME NEW g \in Handles, open_file_table'[g] # NoFile
                 PROVE  /\ Named(open_file_table[g].of_inumber)'
                        /\ open_file_table'[g].of_inumber # -1
                        /\ open_file_table'[g].of_offset
                              <= inode_table'[open_file_table'[g].of_inumber].i_size
    BY DEF HandlesInv
  <2>2. open_file_table[g] # NoFile /\ open_file_table'[g].of_inumber = open_file_table[g].of_inumber
    BY <1>2, <2>1
  <2>3. PICK i \in Inodes : /\ i = open_file_table[g].of_inumber
                            /\ Named(i) /\ i # -1
                            /\ open_file_table[g].of_offset <= inode_table[i].i_size
    BY <1>1, <2>2 DEF HandlesInv, TablesType
  <2>4. Named(open_file_table[g].of_inumber)'
    BY <2>2, <2>3 DEF Named
  <2>5. open_file_table'[g].of_offset <= inode_table'[i].i_size
    <3>1. CASE g = h
      BY <1>2, <2>3, <3>1
    <3>2. CASE g # h
      <4>1. inode_table[i].i_size \in 0 .. BLOCK_SIZE
        BY <1>1 DEF TablesType
      <4>2. inode_table'[i].i_size \in 0 .. BLOCK_SIZE
        OBVIOUS
      <4>3. open_file_table[g].of_offset \in 0 .. BLOCK_SIZE
        BY <1>1 DEF TablesType
      <4> QED BY <1>2, <2>3, <3>2, <4>1, <4>2, <4>3
    <3> QED BY <3>1, <3>2
  <2> QED BY <2>2, <2>3, <2>4, <2>5
<1> QED BY <1>1, <1>3, <1>4, DirKept DEF TablesInv

LEMMA AdvanceStep ==
    ASSUME IInv, NEW t \in Threads, Advance(t)
    PROVE  IInv'
<1> USE Constants
<1>1. /\ pc[t] = "advance" /\ pc[t] # "idle" /\ UNCHANGED g_library_mutex
      /\ UNCHANGED <<freeinode_ts, free_blocks, fs_data, dir>>
  BY DEF Advance, Stay
<1>2. PICK h \in Handles, i \in Inodes, count \in 1 .. BLOCK_SIZE :
          /\ h = call[t].fhandle /\ i = call[t].inum /\ count = call[t].count
          /\ open_file_table[h].of_inumber = i
          /\ open_file_table[h].of_offset \in 0 .. BLOCK_SIZE
          /\ open_file_table[h].of_offset + count <= BLOCK_SIZE
          /\ freeinode_ts[i] = "TAKEN"
          /\ InodesInv(-1, -1)
  BY <1>1, WritingNow
<1>3. PICK offset \in 1 .. BLOCK_SIZE : offset = open_file_table[h].of_offset + count
  BY <1>2
<1>4. PICK size \in 0 .. BLOCK_SIZE : size = inode_table[i].i_size
  BY <1>1, Holder DEF TablesType
<1> DEFINE larger == IF offset > size THEN offset ELSE size
<1>5. /\ open_file_table' = [open_file_table EXCEPT ![h].of_offset = offset]
      /\ inode_table' = [inode_table EXCEPT ![i].i_size = larger]
  BY <1>2, <1>3, <1>4 DEF Advance
<1>6. larger \in 1 .. BLOCK_SIZE /\ larger >= size /\ larger >= offset
  OBVIOUS
<1> HIDE DEF larger
<1>7. /\ inode_table' \in [Inodes -> [i_size : 0 .. BLOCK_SIZE,
                                      i_data_block : Blocks \cup {-1}]]
      /\ inode_table'[i].i_size = larger
      /\ \A j \in Inodes \ {i} : inode_table'[j] = inode_table[j]
      /\ \A j \in Inodes : inode_table'[j].i_data_block = inode_table[j].i_data_block
  <2>1. larger \in 0 .. BLOCK_SIZE
    BY <1>6
  <2> QED BY <1>1, <1>5, <2>1, Holder DEF TablesType
<1>8. TablesInv'
  <2>1. \A j \in Inodes : inode_table'[j].i_size >= inode_table[j].i_size
    <3>1. \A j \in Inodes : inode_table[j].i_size \in 0 .. BLOCK_SIZE
      BY <1>1, Holder DEF TablesType
    <3> QED BY <1>4, <1>6, <1>7, <3>1
  <2>2. open_file_table[h] # NoFile
    BY <1>2 DEF NoFile
  <2>3. offset <= inode_table'[open_file_table[h].of_inumber].i_size
    BY <1>2, <1>6, <1>7
  <2>4. offset \in 0 .. BLOCK_SIZE
    OBVIOUS
  <2> QED BY <1>1, <1>5, <1>7, <2>1, <2>2, <2>3, <2>4, Holder, HandleMoved
<1>9. Rest'
  <2>1. InodesInv(-1, -1)'
    BY <1>1, <1>2 DEF InodesInv, Named
  <2>2. BlocksInv(-1, i)
    BY <1>1, <1>2, Holder DEF HolderInv
  <2>3. \A j \in Inodes : Owner(j, -1, -1)' <=> Owner(j, -1, i)
    <3>1. Owner(i, -1, -1)' /\ Owner(i, -1, i)
      BY <1>1, <1>2, <1>6, <1>7 DEF Owner
    <3>2. \A j \in Inodes \ {i} : Owner(j, -1, -1)' <=> Owner(j, -1, i)
      BY <1>1, <1>7 DEF Owner
    <3> QED BY <3>1, <3>2
  <2>4. BlocksInv(-1, -1)'
    BY <1>1, <1>7, <2>2, <2>3, OwnersKept
  <2> QED BY <2>1, <2>4 DEF Rest
<1>10. count \in Int /\ Answer(t, count)
  BY <1>2 DEF Advance
<1> QED BY <1>1, <1>8, <1>9, <1>10, Answers

LEMMA ReadStartStep ==
    ASSUME IInv, NEW t \in Threads, ReadStart(t)
    PROVE  IInv'
<1> USE Constants
<1>1. /\ pc[t] = "read" /\ pc[t] # "idle" /\ UNCHANGED <<tables, g_library_mutex>>
  BY DEF ReadStart, Stay
<1>2. PICK h \in Handles : h = call[t].fhandle
  BY <1>1, Holder DEF HolderInv
<1>3. Rest /\ Rest' /\ TablesInv /\ TablesInv'
  BY <1>1, Holder, TablesKept DEF HolderInv
<1>4. CASE Answer(t, -1)
  BY <1>1, <1>3, <1>4, Answers
<1>5. CASE Answer(t, 0)
  BY <1>1, <1>3, <1>5, Answers
<1> DEFINE file == open_file_table[h]
           to_read == inode_table[file.of_inumber].i_size - file.of_offset
<1>6. ASSUME NEW i, i = file.of_inumber, NEW count,
             count = IF to_read > call[t].len THEN call[t].len ELSE to_read,
             file # NoFile, count > 0, Starts(t, i, count), Goto(t, "deliver")
      PROVE  IInv'
  <2>1. /\ i \in Inodes
        /\ file.of_offset \in 0 .. BLOCK_SIZE
        /\ inode_table[i].i_size \in 0 .. BLOCK_SIZE
        /\ file.of_offset <= inode_table[i].i_size
    BY <1>3, <1>6, OpenHandle
  <2>2. call[t].len \in 0 .. MAX_LEN
    BY <1>1, Holder DEF Call
  <2>3. /\ count \in 1 .. BLOCK_SIZE
        /\ file.of_offset + count <= inode_table[i].i_size
    BY <1>6, <2>1, <2>2
  <2>4. PICK mine \in Call :
            /\ call' = [call EXCEPT ![t] = mine]
            /\ mine.inum = i /\ mine.count = count /\ mine.fhandle = h
    <3>1. call[t].fhandle \in Handles /\ pc[t] # "idle" /\ Starts(t, i, count)
      BY <1>1, <1>2, <1>6
    <3>2. \E mine \in Call :
            /\ call' = [call EXCEPT ![t] = mine]
            /\ mine.inum = i /\ mine.count = count
            /\ mine.fhandle = call[t].fhandle /\ mine.buffer = call[t].buffer
      BY <2>1, <2>3, <3>1, Started
    <3> QED BY <1>2, <3>2
  <2>5. pc'[t] = "deliver" /\ call'[t] = mine => HolderInv(t)'
    <3>1. SUFFICES ASSUME pc'[t] = "deliver", call'[t] = mine PROVE HolderInv(t)'
      OBVIOUS
    <3>2. UNCHANGED <<open_file_table, inode_table>>
      BY <1>1 DEF tables
    <3>3. Reading(t)'
      BY <1>6, <2>1, <2>3, <2>4, <3>1, <3>2 DEF Reading, Transfer
    <3> QED BY <1>3, <3>1, <3>3 DEF HolderInv
  <2>6. pc' = [pc EXCEPT ![t] = "deliver"]
    BY <1>6 DEF Goto
  <2> QED BY <1>1, <1>3, <2>4, <2>5, <2>6, Moves DEF Steps
<1> QED BY <1>2, <1>4, <1>5, <1>6 DEF ReadStart, Starts

LEMMA DeliverStep ==
    ASSUME IInv, NEW t \in Threads, Deliver(t)
    PROVE  IInv'
<1> USE Constants
<1>1. /\ pc[t] = "deliver" /\ pc[t] # "idle" /\ UNCHANGED g_library_mutex
      /\ UNCHANGED <<freeinode_ts, inode_table, free_blocks, fs_data, dir>>
  BY DEF Deliver, Stay
<1>2. PICK h \in Handles, i \in Inodes, count \in 1 .. BLOCK_SIZE :
          /\ h = call[t].fhandle /\ i = call[t].inum /\ count = call[t].count
          /\ open_file_table[h].of_inumber = i
          /\ open_file_table[h].of_offset + count <= inode_table[i].i_size
  <2>1. Reading(t)
    BY <1>1, Holder DEF HolderInv
  <2>2. call[t].count \in 0 .. BLOCK_SIZE
    BY <1>1, Holder DEF Call
  <2>3. call[t].count \in 1 .. BLOCK_SIZE
    BY <2>1, <2>2 DEF Reading, Transfer
  <2> QED BY <2>1, <2>3 DEF Reading, Transfer
<1>3. PICK offset \in 0 .. BLOCK_SIZE : offset = open_file_table[h].of_offset
  BY <1>1, Holder DEF TablesType
<1>4. PICK b \in Blocks : b = inode_table[i].i_data_block
  BY <1>2 DEF Deliver
<1>5. inode_table[i].i_size \in 0 .. BLOCK_SIZE
  BY <1>1, Holder DEF TablesType
<1>6. TablesInv'
  <2>1. offset + count \in 0 .. BLOCK_SIZE /\ offset + count <= inode_table[i].i_size
    BY <1>2, <1>3, <1>5
  <2>2. open_file_table' = [open_file_table EXCEPT ![h].of_offset = offset + count]
    BY <1>2, <1>3 DEF Deliver
  <2>3. /\ inode_table' \in [Inodes -> [i_size : 0 .. BLOCK_SIZE,
                                        i_data_block : Blocks \cup {-1}]]
        /\ \A j \in Inodes : inode_table'[j].i_size >= inode_table[j].i_size
    BY <1>1, Holder DEF TablesType
  <2>4. /\ open_file_table[h] # NoFile
        /\ offset + count <= inode_table'[open_file_table[h].of_inumber].i_size
    BY <1>1, <1>2, <2>1 DEF NoFile
  <2> QED BY <1>1, <2>1, <2>2, <2>3, <2>4, Holder, HandleMoved
<1>7. Rest'
  <2>1. Rest
    BY <1>1, Holder DEF HolderInv
  <2> QED BY <1>1, <2>1 DEF Rest, InodesInv, BlocksInv, Owner, Named
<1> DEFINE bytes == [k \in 0 .. count - 1 |-> fs_data[b][offset + k]]
           mine == [call[t] EXCEPT !.ret = count, !.data = bytes]
<1>8. bytes \in Delivered
  <2>1. \A k \in 0 .. count - 1 : offset + k \in Offsets
    BY <1>2, <1>3, <1>5 DEF Offsets
  <2>2. fs_data[b] \in [Offsets -> Contents]
    BY <1>1, Holder DEF TablesType
  <2>3. bytes \in [0 .. count - 1 -> Contents]
    BY ONLY <2>1, <2>2
  <2>4. count \in 0 .. BLOCK_SIZE
    OBVIOUS
  <2> HIDE DEF bytes
  <2> QED BY <2>3, <2>4 DEF Delivered
<1>9. call' = [call EXCEPT ![t] = mine]
  BY <1>1, <1>2, <1>3, <1>4, Holder DEF Deliver
<1>10. mine \in Call
  <2>1. count \in Int /\ call[t] \in Call
    BY <1>1, Holder
  <2> HIDE DEF bytes
  <2> QED BY <1>8, <2>1 DEF Call
<1>11. pc' = [pc EXCEPT ![t] = "unlock"]
  BY DEF Deliver, Goto
<1>12. pc'[t] = "unlock" => HolderInv(t)'
  BY <1>7 DEF HolderInv
<1> HIDE DEF mine
<1> QED BY <1>1, <1>6, <1>9, <1>10, <1>11, <1>12, Moves DEF Steps

(***************************************************************************)
(* tfs_unlink                                                              *)
(***************************************************************************)
LEMMA UnlinkFindStep ==
    ASSUME IInv, NEW t \in Threads, UnlinkFind(t)
    PROVE  IInv'
<1> DEFINE n == call[t].name
<1>1. /\ pc[t] = "unlink" /\ pc[t] # "idle" /\ UNCHANGED <<tables, g_library_mutex>>
  BY DEF UnlinkFind, Stay
<1>2. TablesInv' /\ Rest /\ Rest' /\ ~IsOpen(n)
  BY <1>1, Holder, TablesKept DEF HolderInv
<1>3. ASSUME NEW s \in Slots, IsFirst(s, Matches(n)),
             call' = [call EXCEPT ![t].inum = dir[s].d_inumber],
             Goto(t, "delete")
      PROVE  IInv'
  <2>1. PICK i \in Inodes : i = dir[s].d_inumber /\ dir[s].d_name = n
    BY <1>1, <1>3, Holder DEF IsFirst, Matches, TablesType
  <2> DEFINE mine == [call[t] EXCEPT !.inum = i]
  <2>2. Closed(i)
    BY <1>2, <1>3, <2>1 DEF IsOpen, Closed, IsFirst
  <2>3. mine \in Call /\ mine.inum = i /\ mine.name = n
    BY <1>1, Holder DEF Call
  <2>4. call' = [call EXCEPT ![t] = mine] /\ pc' = [pc EXCEPT ![t] = "delete"]
    BY <1>1, <1>3, <2>1, Holder DEF Goto
  <2>5. pc'[t] = "delete" /\ call'[t] = mine => HolderInv(t)'
    <3>1. SUFFICES ASSUME pc'[t] = "delete", call'[t] = mine PROVE HolderInv(t)'
      OBVIOUS
    <3>2. call'[t].inum = i /\ call'[t].name = n
      BY <2>3, <3>1
    <3>3. UNCHANGED <<dir, open_file_table>>
      BY <1>1 DEF tables
    <3>4. Named(call[t].inum)' /\ Closed(call[t].inum)'
      BY <2>1, <2>2, <3>2, <3>3 DEF Named, Closed
    <3> QED BY <1>2, <2>1, <3>1, <3>2, <3>3, <3>4 DEF HolderInv
  <2> HIDE DEF mine
  <2> QED BY <1>1, <1>2, <2>3, <2>4, <2>5, Moves DEF Steps
<1>4. CASE Answer(t, -1)
  BY <1>1, <1>2, <1>4, Answers
<1> QED BY <1>3, <1>4 DEF UnlinkFind

LEMMA UnlinkDeleteStep ==
    ASSUME IInv, NEW t \in Threads, UnlinkDelete(t)
    PROVE  IInv'
<1> USE Constants
<1>1. /\ pc[t] = "delete" /\ pc[t] # "idle" /\ UNCHANGED g_library_mutex
      /\ UNCHANGED <<inode_table, fs_data, dir, open_file_table, call>>
  BY DEF UnlinkDelete, Stay
<1>2. PICK i \in Inodes : i = call[t].inum
  BY <1>1, Holder DEF HolderInv
<1>3. /\ InodesInv(-1, -1) /\ BlocksInv(-1, -1) /\ Named(i) /\ Closed(i)
      /\ \E s \in Slots : dir[s].d_inumber = i /\ dir[s].d_name = call[t].name
  BY <1>1, <1>2, Holder DEF HolderInv, Rest
<1>4. /\ TablesInv' /\ BlocksInv(-1, -1)'
      /\ \A j \in Inodes : freeinode_ts'[j] = IF j = i THEN "FREE" ELSE freeinode_ts[j]
  BY <1>1, <1>2, <1>3, Holder, InodeDeleted DEF UnlinkDelete
<1>5. pc'[t] = "clear" => HolderInv(t)'
  <2>1. SUFFICES ASSUME pc'[t] = "clear" PROVE HolderInv(t)'
    OBVIOUS
  <2>2. Named(call[t].inum)' /\ Closed(call[t].inum)' /\ call'[t].inum \in Inodes
    BY <1>1, <1>2, <1>3 DEF Named, Closed
  <2>3. InodesInv(-1, i)'
    BY <1>1, <1>3, <1>4 DEF InodesInv, Named
  <2>4. InodesInv(-1, call[t].inum)'
    BY <1>1, <1>2, <2>3 DEF InodesInv
  <2>5. \E s \in Slots : dir'[s].d_inumber = call'[t].inum
                         /\ dir'[s].d_name = call'[t].name
    BY <1>1, <1>2, <1>3
  <2> QED BY <1>4, <2>1, <2>2, <2>4, <2>5 DEF HolderInv
<1>6. /\ call[t] \in Call /\ call' = [call EXCEPT ![t] = call[t]]
      /\ pc' = [pc EXCEPT ![t] = "clear"]
  BY <1>1, Holder DEF UnlinkDelete, Goto
<1> QED BY <1>1, <1>4, <1>5, <1>6, Moves DEF Steps

\* clear_dir_entry finds the entry the lookup found.
LEMMA EntryRemoved ==
    ASSUME TablesInv, NEW i \in Inodes, Closed(i), NEW n \in Names, NEW c \in Slots,
           \E s \in Slots : dir[s].d_inumber = i /\ dir[s].d_name = n,
           IsFirst(c, {s \in Slots : dir[s].d_name = n}),
           dir' = [dir EXCEPT ![c] = [d_name |-> NoName, d_inumber |-> -1]],
           UNCHANGED <<freeinode_ts, inode_table, free_blocks, fs_data, open_file_table>>
    PROVE  /\ TablesInv'
           /\ \A j \in Inodes : Named(j)' <=> Named(j) /\ j # i
<1> USE Constants
<1>1. TablesType /\ DirInv /\ HandlesInv
  BY DEF TablesInv
<1>2. PICK s \in Slots : dir[s].d_inumber = i /\ dir[s].d_name = n
  OBVIOUS
<1>3. c = s
  <2>1. dir[c].d_name = n /\ c <= s
    BY <1>2 DEF IsFirst
  <2>2. c # s => dir[c].d_inumber # -1
    BY <1>1, <1>2, <2>1 DEF DirInv, StaleEntriesLast
  <2> QED BY <1>1, <1>2, <2>1, <2>2 DEF DirInv, NamesUnique
<1>4. /\ dir'[c].d_name = NoName /\ dir'[c].d_inumber = -1
      /\ \A u \in Slots \ {c} : dir'[u] = dir[u]
  BY <1>1 DEF TablesType
<1>5. TablesType'
  BY <1>1 DEF TablesType
<1>6. DirInv'
  <2>1. NamesUnique'
    BY <1>1, <1>4 DEF DirInv, NamesUnique
  <2>2. StaleEntriesLast'
    BY <1>1, <1>4 DEF DirInv, StaleEntriesLast
  <2> QED BY <1>1, <1>4, <2>1, <2>2 DEF DirInv
<1>7. \A j \in Inodes : Named(j)' <=> Named(j) /\ j # i
  <2>1. \A u \in Slots : dir[u].d_inumber = i => u = c
    BY <1>1, <1>2, <1>3 DEF DirInv, NamesUnique
  <2> QED BY <1>2, <1>3, <1>4, <2>1 DEF Named
<1>8. HandlesInv'
  <2>1. SUFFICES ASSUME NEW h \in Handles, open_file_table[h] # NoFile
                 PROVE  Named(open_file_table[h].of_inumber)'
    BY <1>1 DEF HandlesInv
  <2>2. PICK j \in Inodes : j = open_file_table[h].of_inumber /\ Named(j) /\ j # i
    BY <1>1, <2>1 DEF HandlesInv, TablesType, Closed
  <2> QED BY <1>7, <2>2 DEF Named
<1> QED BY <1>5, <1>6, <1>7, <1>8 DEF TablesInv

LEMMA UnlinkClearStep ==
    ASSUME IInv, NEW t \in Threads, UnlinkClear(t)
    PROVE  IInv'
<1> USE Constants
<1>1. /\ pc[t] = "clear" /\ pc[t] # "idle" /\ UNCHANGED g_library_mutex
      /\ UNCHANGED <<freeinode_ts, inode_table, free_blocks, fs_data, open_file_table>>
  BY DEF UnlinkClear, Stay
<1>2. PICK i \in Inodes : i = call[t].inum
  BY <1>1, Holder DEF HolderInv
<1>3. /\ InodesInv(-1, i) /\ BlocksInv(-1, -1) /\ Closed(i)
      /\ \E s \in Slots : dir[s].d_inumber = i /\ dir[s].d_name = call[t].name
  BY <1>1, <1>2, Holder DEF HolderInv
<1>4. PICK c \in Slots : /\ IsFirst(c, {s \in Slots : dir[s].d_name = call[t].name})
                         /\ dir' = [dir EXCEPT ![c] = [d_name |-> NoName,
                                                       d_inumber |-> -1]]
                         /\ Answer(t, 0)
  BY <1>3 DEF UnlinkClear
<1>5. call[t].name \in Names
  BY <1>1, <1>3, Holder DEF DirInv
<1>6. /\ TablesInv'
      /\ \A j \in Inodes : Named(j)' <=> Named(j) /\ j # i
  BY <1>1, <1>3, <1>4, <1>5, Holder, EntryRemoved
<1>7. InodesInv(-1, -1)'
  BY <1>1, <1>3, <1>6 DEF InodesInv
<1>8. BlocksInv(-1, -1)'
  BY <1>1, <1>3 DEF BlocksInv, Owner
<1> QED BY <1>1, <1>4, <1>6, <1>7, <1>8, Answers DEF Rest

(***************************************************************************)
(* The invariant and what follows from it                                  *)
(***************************************************************************)
LEMMA NextProof == ASSUME IInv, [Next]_vars PROVE IInv'
<1>1. CASE UNCHANGED vars
  <2>1. UNCHANGED tables
    BY <1>1 DEF vars
  <2>2. (TablesInv => TablesInv') /\ (Rest => Rest')
    BY <2>1, TablesKept
  <2>3. CallsType' /\ MutexInv'
    BY <1>1 DEF IInv, CallsType, MutexInv, vars
  <2>4. \A t \in Threads : g_library_mutex = t => HolderInv(t)'
    BY <1>1, <2>1 DEF IInv, HolderInv, vars, tables, Rest, InodesInv, BlocksInv, Owner,
       Named, Matches, IsOpen, Closed, Transfer, Writing, Reading
  <2> QED BY <1>1, <2>2, <2>3, <2>4 DEF IInv, vars
<1>2. ASSUME NEW t \in Threads, Begin(t) PROVE IInv'
  BY <1>2, BeginStep
<1>3. ASSUME NEW t \in Threads, Step(t) PROVE IInv'
  <2>1. CASE OpenFind(t) \/ Truncate(t) \/ InodeAlloc(t) \/ InodeCreate(t)
    BY <2>1, OpenFindStep, TruncateStep, InodeAllocStep, InodeCreateStep
  <2>2. CASE AddDirEntry(t) \/ OpenUndo(t) \/ AddToOpenFileTable(t) \/ CloseFree(t)
    BY <2>2, AddDirEntryStep, OpenUndoStep, AddToOpenFileTableStep, CloseFreeStep
  <2>3. CASE WriteStart(t) \/ BlockAlloc(t) \/ Copy(t) \/ Advance(t)
    BY <2>3, WriteStartStep, BlockAllocStep, CopyStep, AdvanceStep
  <2>4. CASE ReadStart(t) \/ Deliver(t)
    BY <2>4, ReadStartStep, DeliverStep
  <2>5. CASE UnlinkFind(t) \/ UnlinkDelete(t) \/ UnlinkClear(t) \/ Unlock(t)
    BY <2>5, UnlinkFindStep, UnlinkDeleteStep, UnlinkClearStep, UnlockStep
  <2> QED BY <1>3, <2>1, <2>2, <2>3, <2>4, <2>5 DEF Step
<1> QED BY <1>1, <1>2, <1>3 DEF Next

\* The invariant holds of the system.
THEOREM TablesConsistent == Spec => []IInv
<1>1. Init => IInv
  BY InitProof
<1>2. IInv /\ [Next]_vars => IInv'
  BY NextProof
<1> QED BY <1>1, <1>2, PTL DEF Spec

\* No name is in the directory twice, whatever the threads call at once
\* (find_in_dir and add_dir_entry of tfs_open are one critical section).
THEOREM NamesStayUnique == Spec => []NamesUnique
<1>1. IInv => NamesUnique
  BY DEF IInv, TablesInv, DirInv
<1> QED BY <1>1, TablesConsistent, PTL

\* Whoever unlocks g_library_mutex has given back every inode and block it did
\* not put in use, on the failing paths too.
THEOREM NothingIsLost == Spec => []NothingLost
<1>1. IInv => NothingLost
  <2>1. SUFFICES ASSUME IInv, g_library_mutex = NoThread PROVE NothingLost
    BY DEF NothingLost
  <2>2. InodesInv(-1, -1) /\ BlocksInv(-1, -1) /\ TablesType
    BY <2>1 DEF IInv, Rest, TablesInv
  <2>3. \A i \in Inodes : freeinode_ts[i] = "TAKEN"
                             <=> \E s \in Slots : dir[s].d_inumber = i
    BY <2>2, Constants DEF InodesInv, Named
  <2>4. \A i \in Inodes : Owner(i, -1, -1) <=> /\ freeinode_ts[i] = "TAKEN"
                                               /\ inode_table[i].i_size > 0
    BY Constants DEF Owner
  <2>5. \A b \in Blocks : free_blocks[b] = "TAKEN"
            <=> \E i \in Inodes : Owner(i, -1, -1) /\ inode_table[i].i_data_block = b
    BY <2>2 DEF BlocksInv
  <2> QED BY <2>3, <2>4, <2>5 DEF NothingLost
<1> QED BY <1>1, TablesConsistent, PTL

\* No assertion of state.c about the inode or the block a call works on fails.
THEOREM NoAssertionFails == Spec => []AssertionsHold
<1>1. IInv => AssertionsHold
  <2> USE Constants
  <2> SUFFICES ASSUME IInv, NEW t \in Threads, pc[t] # "idle", NEW i, i = call[t].inum
               PROVE  /\ pc[t] \in {"undo", "delete"} => freeinode_ts[i] = "TAKEN"
                      /\ \/ pc[t] \in {"copy", "deliver"}
                         \/ /\ pc[t] \in {"truncate", "undo", "delete"}
                            /\ inode_table[i].i_size > 0
                         => inode_table[i].i_data_block \in Blocks
    BY DEF AssertionsHold
  <2>1. HolderInv(t) /\ TablesInv
    BY Holder
  <2>2. ASSUME i \in Inodes, Named(i), Rest, inode_table[i].i_size > 0
        PROVE  inode_table[i].i_data_block \in Blocks
    BY <2>2 DEF Rest, InodesInv, BlocksInv, Owner
  <2>3. CASE pc[t] = "undo"
    <3>1. i \in Inodes /\ InodesInv(i, -1) /\ inode_table[i].i_size = 0
      BY <2>1, <2>3 DEF HolderInv
    <3> QED BY <2>3, <3>1 DEF InodesInv
  <2>4. CASE pc[t] \in {"truncate", "delete"}
    <3>1. i \in Inodes /\ Named(i) /\ Rest
      BY <2>1, <2>4 DEF HolderInv
    <3>2. freeinode_ts[i] = "TAKEN"
      BY <3>1 DEF Rest, InodesInv
    <3> QED BY <2>2, <2>4, <3>1, <3>2
  <2>5. CASE pc[t] = "copy"
    <3>1. i \in Inodes /\ freeinode_ts[i] = "TAKEN" /\ BlocksInv(-1, i)
      BY <2>1, <2>5, WritingNow DEF HolderInv
    <3> QED BY <2>5, <3>1 DEF BlocksInv, Owner
  <2>6. CASE pc[t] = "deliver"
    <3>1. Reading(t) /\ Rest
      BY <2>1, <2>6 DEF HolderInv
    <3>2. PICK h \in Handles : /\ h = call[t].fhandle
                               /\ open_file_table[h].of_inumber = i
                               /\ open_file_table[h].of_offset + call[t].count
                                     <= inode_table[i].i_size
      BY <3>1 DEF Reading, Transfer
    <3>3. i \in Inodes /\ call[t].count \in Nat /\ call[t].count > 0
      BY <3>1, Holder DEF Reading, Transfer, Call
    <3>4. open_file_table[h] # NoFile
      BY <3>2, <3>3 DEF NoFile
    <3>5. /\ Named(i)
          /\ open_file_table[h].of_offset \in 0 .. BLOCK_SIZE
          /\ inode_table[i].i_size \in 0 .. BLOCK_SIZE
      BY <2>1, <3>1, <3>2, <3>4, OpenHandle
    <3> QED BY <2>2, <2>6, <3>1, <3>2, <3>3, <3>5
  <2> QED BY <2>3, <2>4, <2>5, <2>6
<1> QED BY <1>1, TablesConsistent, PTL

(***************************************************************************)
(* What the library shows: the state of AbstractFS                         *)
(***************************************************************************)
\* Before the call in progress and now.
names == NamesIn(before)
bytes == BytesIn(before)
handles == HandlesIn(before)
NamesNow == NamesIn(Snapshot)
BytesNow == BytesIn(Snapshot)
HandlesNow == HandlesIn(Snapshot)

SameNames == NamesNow = names
SameBytes == BytesNow = bytes
SameHandles == HandlesNow = handles
Same == SameNames /\ SameBytes /\ SameHandles

\* No name and no handle leads to file i.
Fresh(i) == /\ \A n \in Names : names[n] # i
            /\ \A h \in Handles : handles[h] # None => handles[h].file # i

\* The file tfs_open has found or made, and the place of the new cursor.
Located(n, mode, i, pos) ==
    \/ /\ names[n] = i
       /\ SameNames
       /\ LET data == IF "TFS_O_TRUNC" \in mode THEN <<>> ELSE bytes[i]
          IN /\ BytesNow = [bytes EXCEPT ![i] = data]
             /\ pos = IF "TFS_O_APPEND" \in mode THEN Len(data) ELSE 0
    \/ /\ names[n] = None
       /\ "TFS_O_CREAT" \in mode
       /\ Fresh(i)
       /\ NamesNow = [names EXCEPT ![n] = i]
       /\ BytesNow = [bytes EXCEPT ![i] = <<>>]
       /\ pos = 0

(***************************************************************************)
(* What each call promises, of the tables before it and at its end         *)
(***************************************************************************)
Refused(r, d) == Same /\ r = -1 /\ d = <<>>

HasOpened(n, mode, r, d) ==
    /\ \E i \in Inodes, pos \in 0 .. BLOCK_SIZE :
          /\ Located(n, mode, i, pos)
          /\ \/ /\ r \in Handles /\ handles[r] = None
                /\ HandlesNow = [handles EXCEPT ![r] = [file |-> i, pos |-> pos]]
             \/ r = -1 /\ SameHandles
    /\ d = <<>>

HasClosed(h, r, d) ==
    /\ handles[h] # None
    /\ SameNames /\ SameBytes
    /\ HandlesNow = [handles EXCEPT ![h] = None]
    /\ r = 0 /\ d = <<>>

HasWritten(h, data, r, d) ==
    LET f == handles[h].file
        pos == handles[h].pos
        kept == Promise!Stored(pos, data)
    IN /\ handles[h] # None
       /\ SameNames
       /\ BytesNow = [bytes EXCEPT ![f] = Promise!Overwritten(@, pos, kept)]
       /\ HandlesNow = [handles EXCEPT ![h].pos = pos + Len(kept)]
       /\ r = Len(kept) /\ d = <<>>

HasRead(h, len, r, d) ==
    LET all == bytes[handles[h].file]
        pos == handles[h].pos
    IN /\ handles[h] # None
       /\ SameNames /\ SameBytes
       /\ d = SubSeq(all, pos + 1, IF pos + len > Len(all) THEN Len(all) ELSE pos + len)
       /\ r = Len(d)
       /\ HandlesNow = [handles EXCEPT ![h].pos = pos + Len(d)]

HasUnlinked(n, r, d) ==
    /\ names[n] # None
    /\ {m \in Names : names[m] = names[n]} = {n}
    /\ NamesNow = [names EXCEPT ![n] = None]
    /\ BytesNow = [bytes EXCEPT ![names[n]] = <<>>]
    /\ SameHandles
    /\ r = 0 /\ d = <<>>

Done(r, d) ==
    \/ Refused(r, d)
    \/ \E n \in Names, mode \in Modes : HasOpened(n, mode, r, d)
    \/ \E h \in Handles : HasClosed(h, r, d)
    \/ \E h \in Handles, data \in Promise!Data : HasWritten(h, data, r, d)
    \/ \E h \in Handles, len \in 0 .. MAX_LEN : HasRead(h, len, r, d)
    \/ \E n \in Names : HasUnlinked(n, r, d)

(***************************************************************************)
(* What a call has done so far, step by step                               *)
(***************************************************************************)
\* The block of file i after the memcpy of tfs_write, whose size is still the
\* old one: the new bytes from offset on, the old ones elsewhere.
HalfWritten(i, offset, count, data) ==
    LET block == fs_data[inode_table[i].i_data_block]
    IN /\ Len(bytes[i]) = inode_table[i].i_size
       /\ \A k \in offset .. offset + count - 1 : block[k] = data[k - offset]
       /\ \A k \in 0 .. inode_table[i].i_size - 1 :
             k \notin offset .. offset + count - 1 => block[k] = bytes[i][k + 1]

Effect(step, c) ==
    LET n == c.name
        mode == c.mode
        i == c.inum
        file == open_file_table[c.fhandle]
    IN /\ step # "unlock" => c.data = NoData
       /\ step \in {"open", "truncate", "inode_alloc", "entry", "undo", "close",
                    "write", "block", "copy", "read", "deliver", "unlink", "delete"}
             => Same
       /\ step \in {"truncate", "delete", "clear"} => n \in Names /\ names[n] = i
       /\ step \in {"inode_alloc", "inode_create", "entry", "undo"} =>
             names[n] = None /\ "TFS_O_CREAT" \in mode
       /\ step \in {"inode_create", "entry", "undo"} => Fresh(i) /\ bytes[i] = <<>>
       /\ step \in {"inode_create", "advance", "clear"} =>
             /\ SameNames /\ SameHandles
             /\ \A j \in Inodes \ {i} : BytesNow[j] = bytes[j]
       /\ step = "slot" => /\ n \in Names
                           /\ Located(n, mode, i, c.offset)
                           /\ SameHandles
       /\ step \in {"block", "copy", "advance"} =>
             c.count = WriteCount(file, Cardinality(DOMAIN c.buffer))
       /\ step = "advance" => HalfWritten(i, file.of_offset, c.count, c.buffer)
       /\ step = "deliver" =>
             LET to_read == inode_table[i].i_size - file.of_offset
             IN c.count = IF to_read > c.len THEN c.len ELSE to_read
       /\ step = "clear" => BytesNow[i] = <<>>
       /\ step = "unlock" => Done(c.ret, BytesRead(c.data))

\* What was shown when the mutex was locked is typed, too.
BeforeTyped ==
    /\ names \in [Names -> Inodes \cup {None}]
    /\ bytes \in [Inodes -> Seq(Contents)]
    /\ handles \in [Handles -> [file : Inodes, pos : 0 .. BLOCK_SIZE] \cup {None}]

EffectInv ==
    \A t \in Threads : pc[t] # "idle" =>
        BeforeTyped /\ \E step \in {pc[t]}, c \in {call[t]} : Effect(step, c)

(***************************************************************************)
(* What the tables say, entry by entry, inode by inode, handle by handle   *)
(***************************************************************************)
Entry(s, n) == dir[s].d_inumber # -1 /\ dir[s].d_name = n

\* A name leads where its entry does.
LEMMA NameFound ==
    ASSUME TablesInv, NEW n \in Names, NEW s \in Slots, Entry(s, n)
    PROVE  NamesNow[n] = dir[s].d_inumber
<1>1. \A u \in Slots : Entry(u, n) => u = s
  BY DEF Entry, TablesInv, DirInv, NamesUnique
<1>2. Inode(Snapshot, n) = {dir[s].d_inumber}
  <2>1. Inode(Snapshot, n) = {dir[v].d_inumber : v \in {u \in Slots : Entry(u, n)}}
    BY DEF Inode, Snapshot, Entry
  <2>2. {u \in Slots : Entry(u, n)} = {s}
    BY <1>1
  <2> QED BY <2>1, <2>2
<1>3. NamesNow[n] = IF Inode(Snapshot, n) = {} THEN None
                    ELSE CHOOSE i \in Inode(Snapshot, n) : TRUE
  BY DEF NamesNow, NamesIn
<1> QED BY <1>2, <1>3

LEMMA NameMissing ==
    ASSUME NEW n \in Names, \A s \in Slots : ~Entry(s, n)
    PROVE  NamesNow[n] = None
<1>1. Inode(Snapshot, n) = {}
  BY DEF Inode, Snapshot, Entry
<1> QED BY <1>1 DEF NamesNow, NamesIn

\* The other way round: what a name leads to is in the directory.
LEMMA NameLeads ==
    ASSUME TablesInv, NEW n \in Names
    PROVE  \/ NamesNow[n] = None /\ \A s \in Slots : ~Entry(s, n)
           \/ \E s \in Slots : /\ Entry(s, n)
                               /\ NamesNow[n] = dir[s].d_inumber
                               /\ dir[s].d_inumber \in Inodes
<1>1. CASE \A s \in Slots : ~Entry(s, n)
  BY <1>1, NameMissing
<1>2. ASSUME NEW s \in Slots, Entry(s, n)
      PROVE  NamesNow[n] = dir[s].d_inumber /\ dir[s].d_inumber \in Inodes
  BY <1>2, NameFound DEF Entry, TablesInv, TablesType
<1> QED BY <1>1, <1>2

NamesShown ==
    \A n \in Names :
        /\ \A s \in Slots : Entry(s, n) => NamesNow[n] = dir[s].d_inumber
        /\ (\A s \in Slots : ~Entry(s, n)) => NamesNow[n] = None

LEMMA NamesAre == TablesInv => NamesShown
BY NameFound, NameMissing DEF NamesShown

BytesShown ==
    \A i \in Inodes :
        BytesNow[i] = IF freeinode_ts[i] = "TAKEN"
            THEN [k \in 1 .. inode_table[i].i_size |->
                     fs_data[inode_table[i].i_data_block][k - 1]]
            ELSE <<>>

LEMMA BytesAre == BytesShown
BY DEF BytesShown, BytesNow, BytesIn, BytesOf, Snapshot

HandlesShown ==
    \A h \in Handles :
        HandlesNow[h] = IF open_file_table[h] = NoFile THEN None
            ELSE [file |-> open_file_table[h].of_inumber,
                  pos |-> open_file_table[h].of_offset]

LEMMA HandlesAre == HandlesShown
BY DEF HandlesShown, HandlesNow, HandlesIn, Snapshot

LEMMA HandleFree ==
    ASSUME NEW h \in Handles, open_file_table[h] = NoFile
    PROVE  HandlesNow[h] = None
BY HandlesAre DEF HandlesShown

LEMMA HandleHeld ==
    ASSUME NEW h \in Handles, open_file_table[h] # NoFile,
           NEW i, i = open_file_table[h].of_inumber,
           NEW pos, pos = open_file_table[h].of_offset
    PROVE  /\ HandlesNow[h] = [file |-> i, pos |-> pos]
           /\ HandlesNow[h].file = i /\ HandlesNow[h].pos = pos
           /\ i \in Inodes /\ pos \in Nat => HandlesNow[h] # None
<1>1. HandlesNow[h] = [file |-> i, pos |-> pos]
  BY HandlesAre DEF HandlesShown
<1>2. i \in Inodes /\ pos \in Nat => [file |-> i, pos |-> pos] # None
  BY LockedAssumption DEF Inodes
<1> QED BY <1>1, <1>2

\* What is shown are functions on the names, the files and the handles.
Shaped ==
    /\ NamesNow = [n \in Names |-> NamesNow[n]]
    /\ BytesNow = [i \in Inodes |-> BytesNow[i]]
    /\ HandlesNow = [h \in Handles |-> HandlesNow[h]]

LEMMA Shapes == Shaped
BY DEF Shaped, NamesNow, NamesIn, BytesNow, BytesIn, HandlesNow, HandlesIn
\* What is shown of a table that stays as it is.
LEMMA ViewsKept ==
    /\ UNCHANGED dir => NamesNow' = NamesNow
    /\ UNCHANGED <<freeinode_ts, inode_table, fs_data>> => BytesNow' = BytesNow
    /\ UNCHANGED open_file_table => HandlesNow' = HandlesNow
    /\ UNCHANGED before => names' = names /\ bytes' = bytes /\ handles' = handles
<1>1. UNCHANGED dir => NamesNow' = NamesNow
  BY DEF NamesNow, NamesIn, Inode, Snapshot
<1>2. UNCHANGED <<freeinode_ts, inode_table, fs_data>> => BytesNow' = BytesNow
  BY DEF BytesNow, BytesIn, BytesOf, Snapshot
<1>3. UNCHANGED open_file_table => HandlesNow' = HandlesNow
  BY DEF HandlesNow, HandlesIn, Snapshot
<1>4. UNCHANGED before => names' = names /\ bytes' = bytes /\ handles' = handles
  BY DEF names, bytes, handles, NamesIn, Inode, BytesIn, BytesOf, HandlesIn
<1> QED BY <1>1, <1>2, <1>3, <1>4

\* One file has other bytes, one name leads elsewhere, one handle moves.
LEMMA OneFileChanged ==
    ASSUME NEW i \in Inodes, NEW new, BytesNow'[i] = new,
           \A j \in Inodes \ {i} : BytesNow'[j] = BytesNow[j]
    PROVE  BytesNow' = [BytesNow EXCEPT ![i] = new]
<1>1. Shaped /\ Shaped'
  BY Shapes, PTL
<1> QED BY <1>1 DEF Shaped

LEMMA NoFileChanged ==
    ASSUME \A j \in Inodes : BytesNow'[j] = BytesNow[j]
    PROVE  BytesNow' = BytesNow
<1>1. Shaped /\ Shaped'
  BY Shapes, PTL
<1> QED BY <1>1 DEF Shaped

LEMMA OneNameChanged ==
    ASSUME NEW n \in Names, NEW new, NamesNow'[n] = new,
           \A m \in Names \ {n} : NamesNow'[m] = NamesNow[m]
    PROVE  NamesNow' = [NamesNow EXCEPT ![n] = new]
<1>1. Shaped /\ Shaped'
  BY Shapes, PTL
<1> QED BY <1>1 DEF Shaped

LEMMA OneHandleChanged ==
    ASSUME NEW h \in Handles, NEW new, HandlesNow'[h] = new,
           \A g \in Handles \ {h} : HandlesNow'[g] = HandlesNow[g]
    PROVE  HandlesNow' = [HandlesNow EXCEPT ![h] = new]
<1>1. Shaped /\ Shaped'
  BY Shapes, PTL
<1> QED BY <1>1 DEF Shaped

\* A name leads where it did while its entry does.
LEMMA NameKept ==
    ASSUME TablesInv, TablesInv', NEW n \in Names,
           \A s \in Slots : \/ dir'[s] = dir[s]
                            \/ dir[s].d_inumber = -1 /\ dir'[s].d_name # n
                            \/ dir'[s].d_inumber = -1 /\ dir[s].d_name # n
    PROVE  NamesNow'[n] = NamesNow[n]
<1>1. NamesShown /\ NamesShown'
  BY NamesAre, PTL
<1>2. \A s \in Slots : /\ Entry(s, n)' <=> Entry(s, n)
                       /\ Entry(s, n) => dir'[s].d_inumber = dir[s].d_inumber
  BY DEF Entry
<1>3. CASE \A s \in Slots : ~Entry(s, n)
  <2>1. \A s \in Slots : ~Entry(s, n)'
    BY <1>2, <1>3
  <2> QED BY <1>1, <1>3, <2>1 DEF NamesShown
<1>4. ASSUME NEW s \in Slots, Entry(s, n) PROVE NamesNow'[n] = NamesNow[n]
  <2>1. Entry(s, n)' /\ dir'[s].d_inumber = dir[s].d_inumber
    BY <1>2, <1>4
  <2> QED BY <1>1, <1>4, <2>1 DEF NamesShown
<1> QED BY <1>3, <1>4

LEMMA HandleKept ==
    ASSUME NEW g \in Handles, open_file_table'[g] = open_file_table[g]
    PROVE  HandlesNow'[g] = HandlesNow[g]
<1>1. HandlesShown /\ HandlesShown'
  BY HandlesAre, PTL
<1>2. PICK file, i, pos : /\ file = open_file_table[g]
                          /\ i = file.of_inumber /\ pos = file.of_offset
  OBVIOUS
<1>3. HandlesNow[g] = IF file = NoFile THEN None ELSE [file |-> i, pos |-> pos]
  BY <1>1, <1>2 DEF HandlesShown
<1>4. HandlesNow'[g] = IF file = NoFile THEN None ELSE [file |-> i, pos |-> pos]
  BY <1>1, <1>2 DEF HandlesShown
<1> QED BY <1>3, <1>4
(***************************************************************************)
(* Byte sequences                                                          *)
(***************************************************************************)
\* The first n bytes of a block.
FirstBytes(block, n) == [k \in 1 .. n |-> block[k - 1]]

LEMMA ArrayIsSeq ==
    ASSUME NEW n \in 0 .. BLOCK_SIZE, NEW block \in [Offsets -> Contents],
           NEW s, s = FirstBytes(block, n)
    PROVE  /\ s \in Seq(Contents) /\ Len(s) = n
           /\ \A k \in 1 .. n : s[k] = block[k - 1]
<1> USE Constants
<1>1. \A k \in 1 .. n : k - 1 \in Offsets
  BY DEF Offsets
<1>2. s \in [1 .. n -> Contents] /\ \A k \in 1 .. n : s[k] = block[k - 1]
  BY <1>1 DEF FirstBytes
<1>3. n \in Nat
  OBVIOUS
<1> QED BY <1>2, <1>3

LEMMA NothingIsEmpty ==
    ASSUME NEW f, NEW s, s = [k \in 1 .. 0 |-> f[k - 1]]
    PROVE  s = <<>>
<1>1. s \in [1 .. 0 -> Contents]
  OBVIOUS
<1>2. s \in Seq(Contents) /\ Len(s) = 0
  BY <1>1
<1> QED BY <1>2, EmptySeq

\* A file's bytes stay while its size and its block do.
LEMMA FileKept ==
    ASSUME NEW i \in Inodes, freeinode_ts'[i] = freeinode_ts[i],
           freeinode_ts[i] = "TAKEN" =>
               /\ inode_table'[i].i_size = inode_table[i].i_size
               /\ \/ inode_table[i].i_size = 0
                  \/ fs_data'[inode_table'[i].i_data_block]
                         = fs_data[inode_table[i].i_data_block]
    PROVE  BytesNow'[i] = BytesNow[i]
<1>1. BytesShown /\ BytesShown'
  BY BytesAre, PTL
<1>2. CASE freeinode_ts[i] = "TAKEN"
  <2>1. PICK n, f, g : /\ n = inode_table[i].i_size
                       /\ f = fs_data[inode_table[i].i_data_block]
                       /\ g = fs_data'[inode_table'[i].i_data_block]
    OBVIOUS
  <2>2. BytesNow[i] = [k \in 1 .. n |-> f[k - 1]]
    BY <1>1, <1>2, <2>1 DEF BytesShown
  <2>3. BytesNow'[i] = [k \in 1 .. n |-> g[k - 1]]
    BY <1>1, <1>2, <2>1 DEF BytesShown
  <2>4. n = 0 \/ f = g
    BY <1>2, <2>1
  <2> QED BY <2>2, <2>3, <2>4, NothingIsEmpty
<1>3. CASE freeinode_ts[i] # "TAKEN"
  BY <1>1, <1>3 DEF BytesShown
<1> QED BY <1>2, <1>3

LEMMA NoBytesRead == BytesRead(NoData) = <<>>
<1>1. DOMAIN NoData = {}
  BY DEF NoData
<1>2. Cardinality(DOMAIN NoData) = 0
  BY <1>1, FS_EmptySet
<1>3. BytesRead(NoData) = [k \in 1 .. 0 |-> NoData[k - 1]]
  BY <1>2 DEF BytesRead
<1> QED BY <1>3, NothingIsEmpty

\* The bytes of a file that has its block.
HasBytes(i) ==
    /\ BytesNow[i] \in Seq(Contents)
    /\ Len(BytesNow[i]) = inode_table[i].i_size
    /\ \A k \in 1 .. inode_table[i].i_size :
          BytesNow[i][k] = fs_data[inode_table[i].i_data_block][k - 1]

LEMMA FileBytes ==
    ASSUME TablesType, NEW i \in Inodes, freeinode_ts[i] = "TAKEN",
           inode_table[i].i_size > 0 => inode_table[i].i_data_block \in Blocks
    PROVE  HasBytes(i)
<1> USE Constants
<1>1. PICK n \in 0 .. BLOCK_SIZE : n = inode_table[i].i_size
  BY DEF TablesType
<1>2. PICK b, block : b = inode_table[i].i_data_block /\ block = fs_data[b]
  OBVIOUS
<1>3. BytesNow[i] = [k \in 1 .. n |-> block[k - 1]]
  BY <1>1, <1>2, BytesAre DEF BytesShown
<1>4. CASE n = 0
  <2>1. BytesNow[i] = <<>>
    BY <1>3, <1>4, NothingIsEmpty
  <2> QED BY <1>1, <1>4, <2>1 DEF HasBytes
<1>5. CASE n > 0
  <2>1. block \in [Offsets -> Contents]
    BY <1>1, <1>2, <1>5 DEF TablesType
  <2>2. PICK s : s = BytesNow[i]
    OBVIOUS
  <2>3. /\ s \in Seq(Contents) /\ Len(s) = n
        /\ \A k \in 1 .. n : s[k] = block[k - 1]
    <3>1. s = FirstBytes(block, n)
      BY <1>3, <2>2 DEF FirstBytes
    <3>2. n \in 0 .. BLOCK_SIZE
      OBVIOUS
    <3> QED BY ONLY <2>1, <3>1, <3>2, ArrayIsSeq
  <2> QED BY <1>1, <1>2, <2>2, <2>3 DEF HasBytes
<1> QED BY <1>4, <1>5

\* In a consistent state what is shown is typed.
NowTyped ==
    /\ NamesNow \in [Names -> Inodes \cup {None}]
    /\ BytesNow \in [Inodes -> Seq(Contents)]
    /\ HandlesNow \in [Handles -> [file : Inodes, pos : 0 .. BLOCK_SIZE] \cup {None}]

LEMMA ShownTyped ==
    ASSUME TablesInv, Rest
    PROVE  NowTyped
<1>1. Shaped
  BY Shapes
<1>2. \A n \in Names : NamesNow[n] \in Inodes \cup {None}
  BY NameLeads
<1>3. \A i \in Inodes : BytesNow[i] \in Seq(Contents)
  <2> TAKE i \in Inodes
  <2>1. CASE freeinode_ts[i] = "TAKEN"
    <3>1. inode_table[i].i_size > 0 => inode_table[i].i_data_block \in Blocks
      BY <2>1, Constants DEF Rest, BlocksInv, Owner
    <3> QED BY <2>1, <3>1, FileBytes DEF HasBytes, TablesInv
  <2>2. CASE freeinode_ts[i] # "TAKEN"
    <3>1. BytesNow[i] = <<>>
      BY <2>2, BytesAre DEF BytesShown
    <3> QED BY <3>1
  <2> QED BY <2>1, <2>2
<1>4. \A h \in Handles : HandlesNow[h] \in [file : Inodes, pos : 0 .. BLOCK_SIZE] \cup {None}
  <2> TAKE h \in Handles
  <2>1. CASE open_file_table[h] # NoFile
    <3>1. /\ open_file_table[h].of_inumber \in Inodes
          /\ open_file_table[h].of_offset \in 0 .. BLOCK_SIZE
      BY <2>1, OpenHandle
    <3>2. PICK i \in Inodes, pos \in 0 .. BLOCK_SIZE :
              /\ i = open_file_table[h].of_inumber
              /\ pos = open_file_table[h].of_offset
      BY <3>1
    <3>3. HandlesNow[h] = [file |-> i, pos |-> pos]
      BY <2>1, <3>2, HandlesAre DEF HandlesShown
    <3> QED BY <3>3
  <2> QED BY <2>1, HandlesAre DEF HandlesShown
<1> QED BY <1>1, <1>2, <1>3, <1>4 DEF NowTyped, Shaped
(***************************************************************************)
(* Control                                                                 *)
(***************************************************************************)
\* The holder t goes to step with the variables mine.
LEMMA EffectMoves ==
    ASSUME IInv, EffectInv, NEW t \in Threads, NEW step \in Steps \ {"idle"},
           NEW mine \in Call,
           pc[t] # "idle",
           pc' = [pc EXCEPT ![t] = step],
           call' = [call EXCEPT ![t] = mine],
           UNCHANGED before,
           Effect(step, mine)'
    PROVE  EffectInv'
<1>1. g_library_mutex = t /\ CallsType /\ MutexInv
  BY Holder DEF IInv
<1>2. pc'[t] = step /\ call'[t] = mine
  BY <1>1 DEF CallsType
<1>3. \A u \in Threads \ {t} : pc'[u] = "idle"
  BY <1>1 DEF CallsType, MutexInv
<1>4. BeforeTyped'
  <2>1. BeforeTyped
    BY DEF EffectInv
  <2> QED BY <2>1, ViewsKept DEF BeforeTyped
<1>5. BeforeTyped' /\ \E s \in {pc'[t]}, c \in {call'[t]} : Effect(s, c)'
  BY <1>2, <1>4
<1>6. ASSUME NEW u \in Threads, pc'[u] # "idle"
      PROVE  BeforeTyped' /\ \E s \in {pc'[u]}, c \in {call'[u]} : Effect(s, c)'
  BY <1>3, <1>5, <1>6
<1> QED BY <1>6 DEF EffectInv

\* Where the holder is, with its variables c.
LEMMA EffectNow ==
    ASSUME EffectInv, NEW t \in Threads, pc[t] # "idle", NEW c, c = call[t],
           NEW step, step = pc[t]
    PROVE  BeforeTyped /\ Effect(step, c)
<1>1. BeforeTyped /\ \E s \in {pc[t]}, d \in {call[t]} : Effect(s, d)
  BY DEF EffectInv
<1>2. PICK s \in {pc[t]}, d \in {call[t]} : Effect(s, d)
  BY <1>1
<1>3. s = step /\ d = c
  BY <1>2
<1> QED BY <1>1, <1>2, <1>3

\* A call that is done without giving the caller bytes.
LEMMA EffectAnswers ==
    ASSUME IInv, EffectInv, NEW t \in Threads, NEW r \in Int,
           pc[t] # "idle", pc[t] # "unlock",
           Answer(t, r),
           UNCHANGED before,
           Done(r, <<>>)'
    PROVE  EffectInv'
<1>1. PICK c \in Call : c = call[t]
  BY Holder
<1>2. PICK mine : mine = [c EXCEPT !.ret = r]
  OBVIOUS
<1>3. PICK step : step = pc[t]
  OBVIOUS
<1>4. c.data = NoData
  <2>1. Effect(step, c) /\ step # "unlock"
    BY <1>1, <1>3, EffectNow
  <2> QED BY <2>1 DEF Effect
<1>5. mine \in Call /\ mine.ret = r /\ mine.data = NoData
  BY <1>2, <1>4 DEF Call
<1>6. call' = [call EXCEPT ![t] = mine] /\ pc' = [pc EXCEPT ![t] = "unlock"]
  BY <1>1, <1>2, Holder DEF Answer, Goto
<1>7. BytesRead(mine.data) = <<>> /\ mine.ret = r
  BY <1>5, NoBytesRead
<1>8. Done(mine.ret, BytesRead(mine.data))'
  <2>1. PICK q, d : q = mine.ret /\ d = BytesRead(mine.data)
    OBVIOUS
  <2>2. q = r /\ d = <<>>
    BY <1>7, <2>1
  <2>3. Done(q, d)'
    BY <2>2
  <2> QED BY <2>1, <2>3
<1>9. Effect("unlock", mine)'
  BY <1>5, <1>8 DEF Effect
<1> QED BY <1>5, <1>6, <1>9, EffectMoves DEF Steps
\* What is shown when the mutex is locked is what the tables say.
LEMMA EffectLocks ==
    ASSUME IInv, NEW t \in Threads, NEW args \in Call, args.data = NoData,
           NEW step \in {"open", "close", "write", "read", "unlink"},
           Lock(t, step, args)
    PROVE  EffectInv'
<1>1. /\ g_library_mutex = NoThread /\ CallsType /\ MutexInv /\ TablesInv /\ Rest
      /\ pc' = [pc EXCEPT ![t] = step] /\ call' = [call EXCEPT ![t] = args]
      /\ UNCHANGED tables /\ before' = Snapshot
  BY DEF IInv, Lock, Goto
<1>2. /\ pc'[t] = step /\ call'[t] = args
      /\ \A u \in Threads \ {t} : pc'[u] = "idle"
  <2>1. \A u \in Threads : pc[u] = "idle"
    BY <1>1, Constants DEF MutexInv
  <2> QED BY <1>1, <2>1 DEF CallsType
<1>3. NamesNow' = NamesNow /\ BytesNow' = BytesNow /\ HandlesNow' = HandlesNow
  BY <1>1, ViewsKept DEF tables
<1>4. names' = NamesNow /\ bytes' = BytesNow /\ handles' = HandlesNow
  <2>1. names' = NamesNow
    BY <1>1 DEF names, NamesNow, NamesIn, Inode
  <2>2. bytes' = BytesNow
    BY <1>1 DEF bytes, BytesNow, BytesIn, BytesOf
  <2>3. handles' = HandlesNow
    BY <1>1 DEF handles, HandlesNow, HandlesIn
  <2> QED BY <2>1, <2>2, <2>3
<1>5. BeforeTyped'
  BY <1>1, <1>4, ShownTyped DEF NowTyped, BeforeTyped
<1>6. Same'
  BY <1>3, <1>4 DEF Same, SameNames, SameBytes, SameHandles
<1>7. Effect(step, args)'
  BY <1>6 DEF Effect
<1>8. ASSUME NEW u \in Threads, pc'[u] # "idle"
      PROVE  BeforeTyped' /\ \E s \in {pc'[u]}, c \in {call'[u]} : Effect(s, c)'
  <2>1. u = t
    BY <1>2, <1>8
  <2> QED BY <1>2, <1>5, <1>7, <2>1
<1> QED BY <1>8 DEF EffectInv

LEMMA EffectBegins ==
    ASSUME IInv, NEW t \in Threads, Begin(t)
    PROVE  EffectInv'
<1> USE NoCallTyped, Constants
<1>1. ASSUME NEW n \in Names, NEW mode \in Modes, Open(t, n, mode)
      PROVE  EffectInv'
  <2>1. PICK args : args = [NoCall EXCEPT !.name = n, !.mode = mode]
    OBVIOUS
  <2>2. args \in Call /\ args.data = NoData
    BY <2>1 DEF Call, NoCall
  <2> QED BY <1>1, <2>1, <2>2, EffectLocks DEF Open
<1>2. ASSUME NEW n \in Names, Unlink(t, n)
      PROVE  EffectInv'
  <2>1. PICK args : args = [NoCall EXCEPT !.name = n]
    OBVIOUS
  <2>2. args \in Call /\ args.data = NoData
    BY <2>1 DEF Call, NoCall
  <2> QED BY <1>2, <2>1, <2>2, EffectLocks DEF Unlink
<1>3. ASSUME NEW fh \in Handles, Close(t, fh)
      PROVE  EffectInv'
  <2>1. PICK args : args = [NoCall EXCEPT !.fhandle = fh]
    OBVIOUS
  <2>2. args \in Call /\ args.data = NoData
    BY <2>1 DEF Call, NoCall
  <2> QED BY <1>3, <2>1, <2>2, EffectLocks DEF Close
<1>4. ASSUME NEW fh \in Handles, NEW data \in Buffers, Write(t, fh, data)
      PROVE  EffectInv'
  <2>1. PICK args : args = [NoCall EXCEPT !.fhandle = fh, !.buffer = data]
    OBVIOUS
  <2>2. args \in Call /\ args.data = NoData
    BY <2>1 DEF Call, NoCall
  <2> QED BY <1>4, <2>1, <2>2, EffectLocks DEF Write
<1>5. ASSUME NEW fh \in Handles, NEW len \in 0 .. MAX_LEN, Read(t, fh, len)
      PROVE  EffectInv'
  <2>1. PICK args : args = [NoCall EXCEPT !.fhandle = fh, !.len = len]
    OBVIOUS
  <2>2. args \in Call /\ args.data = NoData
    BY <2>1 DEF Call, NoCall
  <2> QED BY <1>5, <2>1, <2>2, EffectLocks DEF Read
<1> QED BY <1>1, <1>2, <1>3, <1>4, <1>5 DEF Begin

LEMMA EffectEnds ==
    ASSUME IInv, NEW t \in Threads, Unlock(t)
    PROVE  EffectInv'
<1>1. pc[t] # "idle" /\ g_library_mutex = t
  BY Holder DEF Unlock
<1>2. \A u \in Threads : pc'[u] = "idle"
  BY <1>1 DEF IInv, MutexInv, CallsType, Unlock, Goto
<1> QED BY <1>2 DEF EffectInv
(***************************************************************************)
(* tfs_open                                                                *)
(***************************************************************************)
LEMMA SameKept ==
    ASSUME Same, UNCHANGED before, UNCHANGED tables
    PROVE  Same'
BY ViewsKept DEF Same, SameNames, SameBytes, SameHandles, tables

LEMMA RefusedDone ==
    ASSUME Same'
    PROVE  Done(-1, <<>>)'
BY DEF Done, Refused

\* The holder and its variables, all at once.
LEMMA InStep ==
    ASSUME IInv, EffectInv, NEW t \in Threads, pc[t] # "idle"
    PROVE  \E c \in Call : /\ c = call[t]
                           /\ Effect(pc[t], c)
                           /\ BeforeTyped
                           /\ call \in [Threads -> Call]
                           /\ HolderInv(t)
                           /\ TablesInv /\ TablesType /\ DirInv /\ HandlesInv
<1>1. PICK c, step : c = call[t] /\ step = pc[t]
  OBVIOUS
<1>2. BeforeTyped /\ Effect(step, c)
  BY <1>1, EffectNow
<1> QED BY <1>1, <1>2, Holder

\* A look-up under the mutex finds what was shown.
LEMMA LookedUp ==
    ASSUME TablesInv, SameNames, NEW n \in Names
    PROVE  /\ \A s \in Matches(n) : names[n] = dir[s].d_inumber
           /\ n \notin Malformed /\ Matches(n) = {} => names[n] = None
<1>1. ASSUME NEW s \in Matches(n) PROVE names[n] = dir[s].d_inumber
  <2>1. s \in Slots /\ Entry(s, n)
    BY DEF Matches, Entry
  <2> QED BY <2>1, NameFound DEF SameNames
<1>2. ASSUME n \notin Malformed, Matches(n) = {} PROVE names[n] = None
  <2>1. \A s \in Slots : ~Entry(s, n)
    BY <1>2 DEF Matches, Entry
  <2> QED BY <2>1, NameMissing DEF SameNames
<1> QED BY <1>1, <1>2

LEMMA EffectOpenFind ==
    ASSUME IInv, EffectInv, NEW t \in Threads, OpenFind(t)
    PROVE  EffectInv'
<1>1. /\ pc[t] = "open" /\ pc[t] # "idle" /\ pc[t] # "unlock"
      /\ UNCHANGED tables /\ UNCHANGED before
  BY DEF OpenFind, Stay
<1>2. PICK c \in Call : /\ c = call[t] /\ Effect("open", c) /\ BeforeTyped
                        /\ call \in [Threads -> Call]
                        /\ HolderInv(t) /\ TablesInv /\ TablesType
  BY <1>1, InStep
<1>3. c.data = NoData /\ Same /\ Same'
  BY <1>1, <1>2, SameKept DEF Effect
<1>4. c.name \in Names
  BY <1>1, <1>2 DEF HolderInv
<1>5. names' = names
  BY <1>1, ViewsKept
<1>6. ASSUME NEW s \in Slots, IsFirst(s, Matches(c.name)),
             call' = [call EXCEPT ![t].inum = dir[s].d_inumber],
             Goto(t, "truncate")
      PROVE  EffectInv'
  <2>1. s \in Matches(c.name)
    BY <1>6 DEF IsFirst
  <2>2. PICK i \in Inodes : i = dir[s].d_inumber /\ names[c.name] = i
    BY <1>2, <1>3, <1>4, <2>1, LookedUp DEF Matches, TablesType, Same
  <2>3. PICK mine : mine = [c EXCEPT !.inum = i]
    OBVIOUS
  <2>4. /\ mine \in Call /\ mine.inum = i /\ mine.name = c.name
        /\ mine.data = NoData
    BY <1>3, <2>3 DEF Call
  <2>5. call' = [call EXCEPT ![t] = mine] /\ pc' = [pc EXCEPT ![t] = "truncate"]
    BY <1>2, <1>6, <2>2, <2>3 DEF Goto
  <2>6. Effect("truncate", mine)'
    BY <1>3, <1>4, <1>5, <2>2, <2>4 DEF Effect
  <2> QED BY <1>1, <2>4, <2>5, <2>6, EffectMoves DEF Steps
<1>7. ASSUME Matches(c.name) = {}, c.name \notin Malformed, "TFS_O_CREAT" \in c.mode,
             Goto(t, "inode_alloc"), UNCHANGED call
      PROVE  EffectInv'
  <2>1. names[c.name] = None
    BY <1>2, <1>3, <1>4, <1>7, LookedUp DEF Same
  <2>2. Effect("inode_alloc", c)'
    BY <1>3, <1>5, <1>7, <2>1 DEF Effect
  <2>3. call' = [call EXCEPT ![t] = c] /\ pc' = [pc EXCEPT ![t] = "inode_alloc"]
    BY <1>2, <1>7 DEF Goto
  <2> QED BY <1>1, <2>2, <2>3, EffectMoves DEF Steps
<1>8. CASE Answer(t, -1)
  BY <1>1, <1>3, <1>8, RefusedDone, EffectAnswers
<1> QED BY <1>2, <1>6, <1>7, <1>8 DEF OpenFind
\* An allocated inode has its bytes whenever the tables are consistent.
LEMMA TakenHasBytes ==
    ASSUME TablesInv, BlocksInv(-1, -1), NEW i \in Inodes, freeinode_ts[i] = "TAKEN"
    PROVE  HasBytes(i)
<1>1. inode_table[i].i_size > 0 => inode_table[i].i_data_block \in Blocks
  BY Constants DEF BlocksInv, Owner
<1> QED BY <1>1, FileBytes DEF TablesInv

LEMMA EffectTruncate ==
    ASSUME IInv, EffectInv, NEW t \in Threads, Truncate(t)
    PROVE  EffectInv'
<1> USE Constants
<1>1. /\ pc[t] = "truncate" /\ pc[t] # "idle" /\ UNCHANGED before
      /\ UNCHANGED <<freeinode_ts, fs_data, dir, open_file_table>>
  BY DEF Truncate, Stay
<1>2. PICK c \in Call : /\ c = call[t] /\ Effect("truncate", c) /\ BeforeTyped
                        /\ call \in [Threads -> Call]
                        /\ HolderInv(t) /\ TablesInv /\ TablesType
  BY <1>1, InStep
<1>3. /\ c.data = NoData /\ SameNames /\ SameBytes /\ SameHandles
      /\ c.name \in Names /\ names[c.name] = c.inum
  BY <1>2 DEF Effect, Same
<1>4. PICK i \in Inodes : i = c.inum
  BY <1>1, <1>2 DEF HolderInv
<1>5. freeinode_ts[i] = "TAKEN" /\ HasBytes(i)
  <2>1. Named(i) /\ InodesInv(-1, -1) /\ BlocksInv(-1, -1)
    BY <1>1, <1>2, <1>4 DEF HolderInv, Rest
  <2>2. freeinode_ts[i] = "TAKEN"
    BY <2>1 DEF InodesInv
  <2> QED BY <1>2, <2>1, <2>2, TakenHasBytes
<1>6. PICK truncated, size, newsize, offset :
          /\ truncated = ("TFS_O_TRUNC" \in c.mode)
          /\ size = inode_table[i].i_size
          /\ newsize = IF truncated THEN 0 ELSE size
          /\ offset = IF "TFS_O_APPEND" \in c.mode THEN newsize ELSE 0
  OBVIOUS
<1>7. size \in 0 .. BLOCK_SIZE /\ newsize \in 0 .. BLOCK_SIZE /\ offset \in 0 .. BLOCK_SIZE
  <2>1. size \in 0 .. BLOCK_SIZE
    BY <1>2, <1>6 DEF TablesType
  <2> QED BY <1>6, <2>1
<1>8. newsize = IF truncated /\ size > 0 THEN 0 ELSE size
  BY <1>6, <1>7
<1>9. /\ inode_table' = [inode_table EXCEPT ![i].i_size = newsize]
      /\ call' = [call EXCEPT ![t].offset = offset]
  BY <1>2, <1>4, <1>6, <1>8 DEF Truncate
<1>10. /\ inode_table'[i].i_size = newsize
       /\ inode_table'[i].i_data_block = inode_table[i].i_data_block
       /\ \A j \in Inodes \ {i} : inode_table'[j] = inode_table[j]
  BY <1>2, <1>9 DEF TablesType
<1>11. BytesShown /\ BytesShown'
  BY BytesAre, PTL
<1>12. \A j \in Inodes \ {i} : BytesNow'[j] = BytesNow[j]
  BY <1>1, <1>10, FileKept
<1>13. PICK data : data = IF truncated THEN <<>> ELSE bytes[i]
  OBVIOUS
<1>14. BytesNow'[i] = data /\ Len(data) = newsize
  <2>1. PICK block : block = fs_data[inode_table[i].i_data_block]
    OBVIOUS
  <2>2. BytesNow'[i] = [k \in 1 .. newsize |-> block[k - 1]]
    BY <1>1, <1>5, <1>10, <1>11, <2>1 DEF BytesShown
  <2>3. BytesNow[i] = [k \in 1 .. size |-> block[k - 1]]
    BY <1>5, <1>6, <1>11, <2>1 DEF BytesShown
  <2>4. CASE truncated
    <3>1. BytesNow'[i] = <<>>
      BY <1>6, <2>2, <2>4, NothingIsEmpty
    <3> QED BY <1>6, <1>13, <2>4, <3>1
  <2>5. CASE ~truncated
    BY <1>3, <1>5, <1>6, <1>13, <2>2, <2>3, <2>5 DEF SameBytes, HasBytes
  <2> QED BY <2>4, <2>5
<1>15. /\ names' = names /\ bytes' = bytes
       /\ SameNames' /\ SameHandles'
       /\ BytesNow' = [bytes EXCEPT ![i] = data]
  BY <1>1, <1>3, <1>12, <1>14, ViewsKept, OneFileChanged DEF SameNames, SameHandles, SameBytes
<1>16. Located(c.name, c.mode, i, offset)'
  BY <1>3, <1>4, <1>6, <1>13, <1>14, <1>15 DEF Located
<1>17. PICK mine : mine = [c EXCEPT !.offset = offset]
  OBVIOUS
<1>18. /\ mine \in Call /\ mine.inum = i /\ mine.name = c.name /\ mine.mode = c.mode
       /\ mine.data = NoData /\ mine.offset = offset
  BY <1>3, <1>4, <1>7, <1>17 DEF Call
<1>19. call' = [call EXCEPT ![t] = mine] /\ pc' = [pc EXCEPT ![t] = "slot"]
  BY <1>2, <1>9, <1>17 DEF Truncate, Goto
<1>20. Effect("slot", mine)'
  <2>1. PICK n, mode : n = mine.name /\ mode = mine.mode
    OBVIOUS
  <2>2. Located(n, mode, i, offset)'
    BY <1>16, <1>18, <2>1
  <2> QED BY <1>3, <1>15, <1>18, <2>1, <2>2 DEF Effect
<1> QED BY <1>1, <1>18, <1>19, <1>20, EffectMoves DEF Steps
\* Nothing that was shown leads to an inode without a name.
LEMMA NamelessIsFresh ==
    ASSUME TablesInv, Same, NEW i \in Inodes, ~Named(i)
    PROVE  Fresh(i)
<1>1. ASSUME NEW n \in Names PROVE names[n] # i
  <2>1. \/ NamesNow[n] = None
        \/ \E s \in Slots : NamesNow[n] = dir[s].d_inumber
    BY NameLeads
  <2>2. None # i
    BY LockedAssumption DEF Inodes
  <2> QED BY <2>1, <2>2 DEF Named, Same, SameNames
<1>2. ASSUME NEW h \in Handles, handles[h] # None PROVE handles[h].file # i
  <2>1. open_file_table[h] # NoFile /\ handles[h].file = open_file_table[h].of_inumber
    BY <1>2, HandleFree, HandleHeld DEF Same, SameHandles
  <2>2. Named(open_file_table[h].of_inumber)
    BY <2>1 DEF TablesInv, HandlesInv
  <2> QED BY <2>1, <2>2
<1> QED BY <1>1, <1>2 DEF Fresh

LEMMA EffectInodeAlloc ==
    ASSUME IInv, EffectInv, NEW t \in Threads, InodeAlloc(t)
    PROVE  EffectInv'
<1> USE Constants
<1>1. /\ pc[t] = "inode_alloc" /\ pc[t] # "idle" /\ pc[t] # "unlock" /\ UNCHANGED before
      /\ UNCHANGED <<inode_table, free_blocks, fs_data, dir, open_file_table>>
  BY DEF InodeAlloc, Stay
<1>2. PICK c \in Call : /\ c = call[t] /\ Effect("inode_alloc", c)
                        /\ call \in [Threads -> Call]
                        /\ HolderInv(t) /\ TablesInv /\ TablesType
  BY <1>1, InStep
<1>3. /\ c.data = NoData /\ Same /\ names[c.name] = None /\ "TFS_O_CREAT" \in c.mode
  BY <1>2 DEF Effect
<1>4. /\ names' = names /\ bytes' = bytes /\ handles' = handles
      /\ NamesNow' = NamesNow /\ HandlesNow' = HandlesNow
  BY <1>1, ViewsKept
<1>5. ASSUME NEW i \in Inodes, freeinode_ts[i] = "FREE",
             freeinode_ts' = [freeinode_ts EXCEPT ![i] = "TAKEN"],
             call' = [call EXCEPT ![t].inum = i],
             Goto(t, "inode_create")
      PROVE  EffectInv'
  <2>1. Fresh(i)
    <3>1. ~Named(i)
      BY <1>1, <1>2, <1>5 DEF HolderInv, Rest, InodesInv
    <3> QED BY <1>2, <1>3, <3>1, NamelessIsFresh
  <2>2. bytes[i] = <<>>
    BY <1>3, <1>5, BytesAre DEF BytesShown, Same, SameBytes
  <2>3. \A j \in Inodes \ {i} : BytesNow'[j] = BytesNow[j]
    BY <1>1, <1>2, <1>5, FileKept DEF TablesType
  <2>4. PICK mine : mine = [c EXCEPT !.inum = i]
    OBVIOUS
  <2>5. /\ mine \in Call /\ mine.inum = i /\ mine.name = c.name /\ mine.mode = c.mode
        /\ mine.data = NoData
    BY <1>3, <2>4 DEF Call
  <2>6. call' = [call EXCEPT ![t] = mine] /\ pc' = [pc EXCEPT ![t] = "inode_create"]
    BY <1>2, <1>5, <2>4 DEF Goto
  <2>7. Fresh(i)' /\ SameNames' /\ SameHandles'
    BY <1>3, <1>4, <2>1 DEF Fresh, Same, SameNames, SameHandles
  <2>8. \A j \in Inodes \ {i} : BytesNow'[j] = bytes'[j]
    BY <1>3, <1>4, <2>3 DEF Same, SameBytes
  <2>9. Effect("inode_create", mine)'
    BY <1>3, <1>4, <2>2, <2>5, <2>7, <2>8 DEF Effect
  <2> QED BY <1>1, <2>5, <2>6, <2>9, EffectMoves DEF Steps
<1>6. CASE Answer(t, -1) /\ UNCHANGED freeinode_ts
  <2>1. Same'
    BY <1>1, <1>3, <1>6, SameKept DEF tables
  <2> QED BY <1>1, <1>6, <2>1, RefusedDone, EffectAnswers
<1> QED BY <1>5, <1>6 DEF InodeAlloc

LEMMA EffectInodeCreate ==
    ASSUME IInv, EffectInv, NEW t \in Threads, InodeCreate(t)
    PROVE  EffectInv'
<1> USE Constants
<1>1. /\ pc[t] = "inode_create" /\ pc[t] # "idle" /\ UNCHANGED before
      /\ UNCHANGED <<freeinode_ts, free_blocks, fs_data, dir, open_file_table, call>>
  BY DEF InodeCreate, Stay
<1>2. PICK c \in Call : /\ c = call[t] /\ Effect("inode_create", c)
                        /\ call \in [Threads -> Call] /\ BeforeTyped
                        /\ HolderInv(t) /\ TablesInv /\ TablesType
  BY <1>1, InStep
<1>3. PICK i \in Inodes : i = c.inum /\ InodesInv(i, -1)
  BY <1>1, <1>2 DEF HolderInv
<1>4. /\ c.data = NoData /\ names[c.name] = None /\ "TFS_O_CREAT" \in c.mode
      /\ Fresh(i) /\ bytes[i] = <<>>
      /\ SameNames /\ SameHandles
      /\ \A j \in Inodes \ {i} : BytesNow[j] = bytes[j]
  BY <1>2, <1>3 DEF Effect
<1>5. /\ names' = names /\ bytes' = bytes /\ handles' = handles
      /\ NamesNow' = NamesNow /\ HandlesNow' = HandlesNow
  BY <1>1, ViewsKept
<1>6. /\ inode_table'[i].i_size = 0
      /\ \A j \in Inodes \ {i} : inode_table'[j] = inode_table[j]
  BY <1>2, <1>3 DEF InodeCreate, TablesType
<1>7. freeinode_ts'[i] = "TAKEN"
  BY <1>1, <1>3 DEF InodesInv
<1>8. BytesNow'[i] = <<>>
  <2>1. BytesShown'
    BY BytesAre, PTL
  <2>2. PICK f : f = fs_data'[inode_table'[i].i_data_block]
    OBVIOUS
  <2>3. BytesNow'[i] = [k \in 1 .. 0 |-> f[k - 1]]
    BY <1>6, <1>7, <2>1, <2>2 DEF BytesShown
  <2> QED BY <2>3, NothingIsEmpty
<1>9. \A j \in Inodes \ {i} : BytesNow'[j] = BytesNow[j]
  BY <1>1, <1>6, FileKept
<1>10. SameBytes'
  <2>1. \A j \in Inodes : BytesNow'[j] = bytes[j]
    BY <1>4, <1>8, <1>9
  <2>2. Shaped'
    BY Shapes, PTL
  <2>3. bytes = [j \in Inodes |-> bytes[j]]
    BY <1>2 DEF BeforeTyped
  <2> QED BY <1>5, <2>1, <2>2, <2>3 DEF Shaped, SameBytes
<1>11. Fresh(i)' /\ Same'
  BY <1>4, <1>5, <1>10 DEF Fresh, Same, SameNames, SameHandles
<1>12. Effect("entry", c)'
  <2>1. Fresh(c.inum)' /\ bytes'[c.inum] = <<>>
    BY <1>3, <1>4, <1>5, <1>11
  <2> QED BY <1>4, <1>5, <1>11, <2>1 DEF Effect
<1>13. call' = [call EXCEPT ![t] = c] /\ pc' = [pc EXCEPT ![t] = "entry"]
  BY <1>1, <1>2 DEF InodeCreate, Goto
<1> QED BY <1>1, <1>12, <1>13, EffectMoves DEF Steps
LEMMA EffectAddDirEntry ==
    ASSUME IInv, IInv', EffectInv, NEW t \in Threads, AddDirEntry(t)
    PROVE  EffectInv'
<1> USE Constants
<1>1. /\ pc[t] = "entry" /\ pc[t] # "idle" /\ UNCHANGED before
      /\ UNCHANGED <<freeinode_ts, inode_table, free_blocks, fs_data,
                     open_file_table, call>>
      /\ TablesInv'
  BY DEF AddDirEntry, Stay, IInv
<1>2. PICK c \in Call : /\ c = call[t] /\ Effect("entry", c)
                        /\ call \in [Threads -> Call] /\ BeforeTyped
                        /\ HolderInv(t) /\ TablesInv /\ TablesType
  BY <1>1, InStep
<1>3. PICK i \in Inodes, n \in Names : i = c.inum /\ n = c.name /\ c.offset = 0
  BY <1>1, <1>2 DEF HolderInv
<1>4. /\ c.data = NoData /\ names[n] = None /\ "TFS_O_CREAT" \in c.mode
      /\ Fresh(i) /\ bytes[i] = <<>> /\ Same
  BY <1>2, <1>3 DEF Effect
<1>5. /\ names' = names /\ bytes' = bytes /\ handles' = handles
      /\ BytesNow' = BytesNow /\ HandlesNow' = HandlesNow
  BY <1>1, ViewsKept
<1>6. call' = [call EXCEPT ![t] = c]
  BY <1>1, <1>2
<1>7. ASSUME NEW s \in Slots, dir[s].d_inumber = -1,
             dir' = [dir EXCEPT ![s] = [d_name |-> n, d_inumber |-> i]],
             Goto(t, "slot")
      PROVE  EffectInv'
  <2>1. /\ dir'[s].d_name = n /\ dir'[s].d_inumber = i
        /\ \A u \in Slots \ {s} : dir'[u] = dir[u]
    BY <1>2, <1>7 DEF TablesType
  <2>2. NamesNow'[n] = i
    <3>1. NamesShown'
      BY <1>1, NamesAre, PTL
    <3>2. Entry(s, n)'
      BY <2>1 DEF Entry
    <3> QED BY <2>1, <3>1, <3>2 DEF NamesShown
  <2>3. \A m \in Names \ {n} : NamesNow'[m] = NamesNow[m]
    BY <1>1, <1>2, <1>7, <2>1, NameKept
  <2>4. NamesNow' = [names EXCEPT ![n] = i]
    BY <1>4, <2>2, <2>3, OneNameChanged DEF Same, SameNames
  <2>5. BytesNow' = [bytes EXCEPT ![i] = <<>>]
    BY <1>2, <1>4, <1>5 DEF Same, SameBytes, BeforeTyped
  <2>6. Located(n, c.mode, i, 0)' /\ SameHandles'
    BY <1>4, <1>5, <2>4, <2>5 DEF Located, Fresh, Same, SameHandles
  <2>7. Effect("slot", c)'
    <3>1. PICK m, j, pos : m = c.name /\ j = c.inum /\ pos = c.offset
      OBVIOUS
    <3>2. Located(m, c.mode, j, pos)' /\ m \in Names
      BY <1>3, <2>6, <3>1
    <3> QED BY <1>4, <2>6, <3>1, <3>2 DEF Effect
  <2>8. pc' = [pc EXCEPT ![t] = "slot"]
    BY <1>7 DEF Goto
  <2> QED BY <1>1, <1>6, <2>7, <2>8, EffectMoves DEF Steps
<1>8. CASE Goto(t, "undo") /\ UNCHANGED dir
  <2>1. Same'
    BY <1>1, <1>4, <1>8, SameKept DEF tables
  <2>2. Fresh(i)'
    BY <1>4, <1>5 DEF Fresh
  <2>3. Effect("undo", c)'
    <3>1. Fresh(c.inum)' /\ bytes'[c.inum] = <<>> /\ names'[c.name] = None
      BY <1>3, <1>4, <1>5, <2>2
    <3> QED BY <1>4, <2>1, <3>1 DEF Effect
  <2>4. pc' = [pc EXCEPT ![t] = "undo"]
    BY <1>8 DEF Goto
  <2> QED BY <1>1, <1>6, <2>3, <2>4, EffectMoves DEF Steps
<1>9. PICK empty : empty = {s \in Slots : dir[s].d_inumber = -1}
  OBVIOUS
<1>10. \/ \E s \in empty :
             /\ dir' = [dir EXCEPT ![s] = [d_name |-> n, d_inumber |-> i]]
             /\ Goto(t, "slot")
       \/ Goto(t, "undo") /\ UNCHANGED dir
  BY <1>2, <1>3, <1>9 DEF AddDirEntry
<1> QED BY <1>7, <1>8, <1>9, <1>10

LEMMA EffectOpenUndo ==
    ASSUME IInv, EffectInv, NEW t \in Threads, OpenUndo(t)
    PROVE  EffectInv'
<1> USE Constants
<1>1. /\ pc[t] = "undo" /\ pc[t] # "idle" /\ pc[t] # "unlock" /\ UNCHANGED before
      /\ UNCHANGED <<inode_table, fs_data, dir, open_file_table>>
      /\ Answer(t, -1)
  BY DEF OpenUndo, Stay
<1>2. PICK c \in Call : /\ c = call[t] /\ Effect("undo", c)
                        /\ HolderInv(t) /\ TablesInv /\ TablesType
  BY <1>1, InStep
<1>3. PICK i \in Inodes : i = c.inum
  BY <1>1, <1>2 DEF HolderInv
<1>4. bytes[i] = <<>> /\ Same
  BY <1>2, <1>3 DEF Effect
<1>5. \A j \in Inodes : freeinode_ts'[j] = IF j = i THEN "FREE" ELSE freeinode_ts[j]
  BY <1>2, <1>3 DEF OpenUndo, InodeDelete, TablesType
<1>6. BytesNow' = BytesNow
  <2>1. \A j \in Inodes \ {i} : BytesNow'[j] = BytesNow[j]
    BY <1>1, <1>5, FileKept
  <2>2. BytesNow'[i] = <<>>
    <3>1. BytesShown'
      BY BytesAre, PTL
    <3> QED BY <1>5, <3>1 DEF BytesShown
  <2> QED BY <1>4, <2>1, <2>2, NoFileChanged DEF Same, SameBytes
<1>7. Same'
  BY <1>1, <1>4, <1>6, ViewsKept DEF Same, SameNames, SameBytes, SameHandles
<1> QED BY <1>1, <1>7, RefusedDone, EffectAnswers
LEMMA EffectAddToOpenFileTable ==
    ASSUME IInv, EffectInv, NEW t \in Threads, AddToOpenFileTable(t)
    PROVE  EffectInv'
<1> USE Constants
<1>1. /\ pc[t] = "slot" /\ pc[t] # "idle" /\ pc[t] # "unlock" /\ UNCHANGED before
      /\ UNCHANGED <<freeinode_ts, inode_table, free_blocks, fs_data, dir>>
  BY DEF AddToOpenFileTable, Stay
<1>2. PICK c \in Call : /\ c = call[t] /\ Effect("slot", c)
                        /\ HolderInv(t) /\ TablesType
  BY <1>1, InStep
<1>3. PICK i \in Inodes, pos \in 0 .. BLOCK_SIZE, n \in Names, mode \in Modes :
          /\ i = c.inum /\ pos = c.offset /\ n = c.name /\ mode = c.mode
  BY <1>1, <1>2 DEF HolderInv, Effect, Call
<1>4. Located(n, mode, i, pos) /\ SameHandles
  BY <1>2, <1>3 DEF Effect
<1>5. /\ names' = names /\ bytes' = bytes /\ handles' = handles
      /\ NamesNow' = NamesNow /\ BytesNow' = BytesNow
  BY <1>1, ViewsKept
<1>6. Located(n, mode, i, pos)'
  BY <1>4, <1>5 DEF Located, Fresh, SameNames
<1>7. ASSUME NEW r,
             \/ /\ r \in Handles /\ handles'[r] = None
                /\ HandlesNow' = [handles' EXCEPT ![r] = [file |-> i, pos |-> pos]]
             \/ r = -1 /\ SameHandles'
      PROVE  Done(r, <<>>)'
  <2>1. HasOpened(n, mode, r, <<>>)'
    BY <1>6, <1>7 DEF HasOpened
  <2> QED BY <2>1 DEF Done
<1>8. ASSUME NEW h \in Handles, open_file_table[h] = NoFile,
             open_file_table' = [open_file_table EXCEPT ![h] =
                 [of_inumber |-> i, of_offset |-> pos]],
             Answer(t, h)
      PROVE  EffectInv'
  <2>1. handles[h] = None
    BY <1>4, <1>8, HandleFree DEF SameHandles
  <2>2. HandlesShown /\ HandlesShown'
    BY HandlesAre, PTL
  <2>3. /\ open_file_table'[h].of_inumber = i /\ open_file_table'[h].of_offset = pos
        /\ open_file_table'[h] # NoFile
        /\ \A g \in Handles \ {h} : open_file_table'[g] = open_file_table[g]
    BY <1>2, <1>8 DEF TablesType, NoFile
  <2>4. HandlesNow'[h] = [file |-> i, pos |-> pos]
    BY <2>2, <2>3 DEF HandlesShown
  <2>5. \A g \in Handles \ {h} : HandlesNow'[g] = HandlesNow[g]
    BY <2>3, HandleKept
  <2>6. HandlesNow' = [handles EXCEPT ![h] = [file |-> i, pos |-> pos]]
    BY <1>4, <2>4, <2>5, OneHandleChanged DEF SameHandles
  <2>7. Done(h, <<>>)'
    BY <1>5, <1>7, <2>1, <2>6
  <2>8. h \in Int
    OBVIOUS
  <2> QED BY <1>1, <1>8, <2>7, <2>8, EffectAnswers
<1>9. CASE Answer(t, -1) /\ UNCHANGED open_file_table
  <2>1. SameHandles'
    BY <1>4, <1>9, <1>5, ViewsKept DEF SameHandles
  <2>2. Done(-1, <<>>)'
    BY <1>7, <2>1
  <2> QED BY <1>1, <1>9, <2>2, EffectAnswers
<1> QED BY <1>2, <1>3, <1>8, <1>9 DEF AddToOpenFileTable

(***************************************************************************)
(* tfs_close                                                               *)
(***************************************************************************)
LEMMA EffectCloseFree ==
    ASSUME IInv, EffectInv, NEW t \in Threads, CloseFree(t)
    PROVE  EffectInv'
<1> USE Constants
<1>1. /\ pc[t] = "close" /\ pc[t] # "idle" /\ pc[t] # "unlock" /\ UNCHANGED before
      /\ UNCHANGED <<freeinode_ts, inode_table, free_blocks, fs_data, dir>>
  BY DEF CloseFree, Stay
<1>2. PICK c \in Call : /\ c = call[t] /\ Effect("close", c)
                        /\ HolderInv(t) /\ TablesInv /\ TablesType
  BY <1>1, InStep
<1>3. PICK h \in Handles : h = c.fhandle
  BY <1>1, <1>2 DEF HolderInv
<1>4. Same
  BY <1>2 DEF Effect
<1>5. /\ open_file_table' = [open_file_table EXCEPT ![h] = NoFile]
      /\ Answer(t, IF open_file_table[h] = NoFile THEN -1 ELSE 0)
  BY <1>2, <1>3 DEF CloseFree
<1>6. CASE open_file_table[h] = NoFile
  <2>1. open_file_table' = open_file_table
    BY <1>2, <1>5, <1>6 DEF TablesType
  <2>2. Same'
    BY <1>1, <1>4, <2>1, SameKept DEF tables
  <2> QED BY <1>1, <1>5, <1>6, <2>2, RefusedDone, EffectAnswers
<1>7. CASE open_file_table[h] # NoFile
  <2>1. /\ names' = names /\ bytes' = bytes /\ handles' = handles
        /\ NamesNow' = NamesNow /\ BytesNow' = BytesNow
    BY <1>1, ViewsKept
  <2>2. HandlesShown /\ HandlesShown'
    BY HandlesAre, PTL
  <2>3. /\ open_file_table'[h] = NoFile
        /\ \A g \in Handles \ {h} : open_file_table'[g] = open_file_table[g]
    BY <1>2, <1>5 DEF TablesType
  <2>4. HandlesNow'[h] = None /\ \A g \in Handles \ {h} : HandlesNow'[g] = HandlesNow[g]
    BY <2>2, <2>3, HandleKept DEF HandlesShown
  <2>5. HandlesNow' = [handles EXCEPT ![h] = None]
    BY <1>4, <2>4, OneHandleChanged DEF Same, SameHandles
  <2>6. handles[h] # None
    <3>1. Rest
      BY <1>1, <1>2 DEF HolderInv
    <3>2. PICK i, pos : i = open_file_table[h].of_inumber /\ pos = open_file_table[h].of_offset
      OBVIOUS
    <3>3. i \in Inodes /\ pos \in 0 .. BLOCK_SIZE
      BY <1>2, <1>7, <3>1, <3>2, OpenHandle
    <3>4. pos \in Nat
      BY <3>3
    <3>5. HandlesNow[h] # None
      <4>1. h \in Handles
        OBVIOUS
      <4> QED BY ONLY <1>7, <3>2, <3>3, <3>4, <4>1, HandleHeld
    <3> QED BY <1>4, <3>5 DEF Same, SameHandles
  <2>7. HasClosed(h, 0, <<>>)'
    BY <1>4, <2>1, <2>5, <2>6 DEF HasClosed, Same, SameNames, SameBytes
  <2>8. Done(0, <<>>)'
    BY <2>7 DEF Done
  <2> QED BY <1>1, <1>5, <1>7, <2>8, EffectAnswers
<1> QED BY <1>6, <1>7

(***************************************************************************)
(* tfs_unlink                                                              *)
(***************************************************************************)
LEMMA EffectUnlinkFind ==
    ASSUME IInv, EffectInv, NEW t \in Threads, UnlinkFind(t)
    PROVE  EffectInv'
<1>1. /\ pc[t] = "unlink" /\ pc[t] # "idle" /\ pc[t] # "unlock"
      /\ UNCHANGED tables /\ UNCHANGED before
  BY DEF UnlinkFind, Stay
<1>2. PICK c \in Call : /\ c = call[t] /\ Effect("unlink", c)
                        /\ call \in [Threads -> Call]
                        /\ HolderInv(t) /\ TablesInv /\ TablesType
  BY <1>1, InStep
<1>3. c.data = NoData /\ Same /\ Same'
  BY <1>1, <1>2, SameKept DEF Effect
<1>4. c.name \in Names
  BY <1>1, <1>2 DEF HolderInv
<1>5. names' = names
  BY <1>1, ViewsKept
<1>6. ASSUME NEW s \in Slots, IsFirst(s, Matches(c.name)),
             call' = [call EXCEPT ![t].inum = dir[s].d_inumber],
             Goto(t, "delete")
      PROVE  EffectInv'
  <2>1. s \in Matches(c.name)
    BY <1>6 DEF IsFirst
  <2>2. PICK i \in Inodes : i = dir[s].d_inumber /\ names[c.name] = i
    BY <1>2, <1>3, <1>4, <2>1, LookedUp DEF Matches, TablesType, Same
  <2>3. PICK mine : mine = [c EXCEPT !.inum = i]
    OBVIOUS
  <2>4. /\ mine \in Call /\ mine.inum = i /\ mine.name = c.name
        /\ mine.data = NoData
    BY <1>3, <2>3 DEF Call
  <2>5. call' = [call EXCEPT ![t] = mine] /\ pc' = [pc EXCEPT ![t] = "delete"]
    BY <1>2, <1>6, <2>2, <2>3 DEF Goto
  <2>6. Effect("delete", mine)'
    BY <1>3, <1>4, <1>5, <2>2, <2>4 DEF Effect
  <2> QED BY <1>1, <2>4, <2>5, <2>6, EffectMoves DEF Steps
<1>7. CASE Answer(t, -1)
  BY <1>1, <1>3, <1>7, RefusedDone, EffectAnswers
<1> QED BY <1>2, <1>6, <1>7 DEF UnlinkFind

LEMMA EffectUnlinkDelete ==
    ASSUME IInv, EffectInv, NEW t \in Threads, UnlinkDelete(t)
    PROVE  EffectInv'
<1> USE Constants
<1>1. /\ pc[t] = "delete" /\ pc[t] # "idle" /\ UNCHANGED before
      /\ UNCHANGED <<inode_table, fs_data, dir, open_file_table, call>>
  BY DEF UnlinkDelete, Stay
<1>2. PICK c \in Call : /\ c = call[t] /\ Effect("delete", c)
                        /\ call \in [Threads -> Call]
                        /\ HolderInv(t) /\ TablesInv /\ TablesType
  BY <1>1, InStep
<1>3. PICK i \in Inodes : i = c.inum
  BY <1>1, <1>2 DEF HolderInv
<1>4. c.data = NoData /\ Same /\ c.name \in Names /\ names[c.name] = i
  BY <1>2, <1>3 DEF Effect
<1>5. \A j \in Inodes : freeinode_ts'[j] = IF j = i THEN "FREE" ELSE freeinode_ts[j]
  BY <1>2, <1>3 DEF UnlinkDelete, InodeDelete, TablesType
<1>6. /\ names' = names /\ bytes' = bytes /\ handles' = handles
      /\ NamesNow' = NamesNow /\ HandlesNow' = HandlesNow
  BY <1>1, ViewsKept
<1>7. \A j \in Inodes \ {i} : BytesNow'[j] = bytes'[j]
  <2>1. \A j \in Inodes \ {i} : BytesNow'[j] = BytesNow[j]
    BY <1>1, <1>5, FileKept
  <2> QED BY <1>4, <1>6, <2>1 DEF Same, SameBytes
<1>8. BytesNow'[i] = <<>>
  <2>1. BytesShown'
    BY BytesAre, PTL
  <2> QED BY <1>5, <2>1 DEF BytesShown
<1>9. SameNames' /\ SameHandles'
  BY <1>4, <1>6 DEF Same, SameNames, SameHandles
<1>10. Effect("clear", c)'
  <2>1. c.inum = i
    BY <1>3
  <2> QED BY <1>4, <1>6, <1>7, <1>8, <1>9, <2>1 DEF Effect
<1>11. call' = [call EXCEPT ![t] = c] /\ pc' = [pc EXCEPT ![t] = "clear"]
  BY <1>1, <1>2 DEF UnlinkDelete, Goto
<1> QED BY <1>1, <1>10, <1>11, EffectMoves DEF Steps

LEMMA EffectUnlinkClear ==
    ASSUME IInv, IInv', EffectInv, NEW t \in Threads, UnlinkClear(t)
    PROVE  EffectInv'
<1> USE Constants
<1>1. /\ pc[t] = "clear" /\ pc[t] # "idle" /\ pc[t] # "unlock" /\ UNCHANGED before
      /\ UNCHANGED <<freeinode_ts, inode_table, free_blocks, fs_data, open_file_table>>
      /\ TablesInv'
  BY DEF UnlinkClear, Stay, IInv
<1>2. PICK c \in Call : /\ c = call[t] /\ Effect("clear", c) /\ BeforeTyped
                        /\ HolderInv(t) /\ TablesInv /\ TablesType /\ DirInv
  BY <1>1, InStep
<1>3. PICK i \in Inodes : i = c.inum
  BY <1>1, <1>2 DEF HolderInv
<1>4. PICK n \in Names : n = c.name /\ names[n] = i
  BY <1>2, <1>3 DEF Effect
<1>5. /\ SameNames /\ SameHandles
      /\ \A j \in Inodes \ {i} : BytesNow[j] = bytes[j]
      /\ BytesNow[i] = <<>>
  BY <1>2, <1>3 DEF Effect
<1>6. PICK s \in Slots : /\ dir[s].d_name = n
                         /\ \A u \in Slots : dir[u].d_name = n => s <= u
                         /\ dir' = [dir EXCEPT ![s] = [d_name |-> NoName,
                                                       d_inumber |-> -1]]
                         /\ Answer(t, 0)
  <2>1. \E s \in Slots : dir[s].d_inumber = i /\ dir[s].d_name = n
    BY <1>1, <1>2, <1>3, <1>4 DEF HolderInv
  <2>2. PICK named : named = {s \in Slots : dir[s].d_name = n}
    OBVIOUS
  <2>3. \/ \E s \in named : /\ IsFirst(s, named)
                            /\ dir' = [dir EXCEPT ![s] = [d_name |-> NoName,
                                                          d_inumber |-> -1]]
                            /\ Answer(t, 0)
        \/ named = {}
    BY <1>2, <1>4, <2>2 DEF UnlinkClear
  <2> QED BY <2>1, <2>2, <2>3 DEF IsFirst
<1>7. PICK live \in Slots : dir[live].d_inumber = i /\ dir[live].d_name = n
  BY <1>1, <1>2, <1>3, <1>4 DEF HolderInv
<1>8. live = s
  <2>1. s <= live
    BY <1>6, <1>7
  <2>2. live # s => dir[s].d_inumber # -1
    BY <1>2, <1>6, <1>7, <2>1 DEF DirInv, StaleEntriesLast
  <2> QED BY <1>2, <1>6, <1>7, <2>2 DEF DirInv, NamesUnique
<1>9. /\ dir'[s].d_name = NoName /\ dir'[s].d_inumber = -1
      /\ \A u \in Slots \ {s} : dir'[u] = dir[u]
  BY <1>2, <1>6 DEF TablesType
<1>10. NamesNow'[n] = None
  <2>1. NamesShown'
    BY <1>1, NamesAre, PTL
  <2>2. \A u \in Slots : ~Entry(u, n)'
    BY <1>2, <1>7, <1>8, <1>9 DEF Entry, DirInv, NamesUnique
  <2> QED BY <2>1, <2>2 DEF NamesShown
<1>11. \A m \in Names \ {n} : NamesNow'[m] = NamesNow[m]
  BY <1>1, <1>2, <1>6, <1>9, NameKept
<1>12. NamesNow' = [names EXCEPT ![n] = None]
  BY <1>5, <1>10, <1>11, OneNameChanged DEF SameNames
<1>13. {m \in Names : names[m] = i} = {n}
  <2>1. ASSUME NEW m \in Names, names[m] = i PROVE m = n
    <3>1. NamesNow[m] = i /\ i # None
      BY <1>5, <2>1, LockedAssumption DEF SameNames, Inodes
    <3>2. PICK u \in Slots : Entry(u, m) /\ dir[u].d_inumber = i
      BY <1>2, <3>1, NameLeads
    <3> QED BY <1>2, <1>7, <3>2 DEF Entry, DirInv, NamesUnique
  <2> QED BY <1>4, <2>1
<1>14. /\ names' = names /\ bytes' = bytes /\ handles' = handles
       /\ BytesNow' = BytesNow /\ HandlesNow' = HandlesNow
  BY <1>1, ViewsKept
<1>15. BytesNow' = [bytes EXCEPT ![i] = <<>>]
  <2>1. Shaped
    BY Shapes
  <2> QED BY <1>2, <1>5, <1>14, <2>1 DEF Shaped, BeforeTyped
<1>16. HasUnlinked(n, 0, <<>>)'
  <2>1. names[n] # None
    BY <1>4, LockedAssumption DEF Inodes
  <2> QED BY <1>4, <1>5, <1>12, <1>13, <1>14, <1>15, <2>1 DEF HasUnlinked, SameHandles
<1>17. Done(0, <<>>)'
  BY <1>16 DEF Done
<1> QED BY <1>1, <1>6, <1>17, EffectAnswers
\* What of the data fits between pos and the end of the block.
FrontOf(data, pos, kept) ==
    /\ Len(kept) = IF pos + Len(data) > BLOCK_SIZE THEN BLOCK_SIZE - pos
                   ELSE Len(data)
    /\ \A k \in 1 .. Len(kept) : kept[k] = data[k]

LEMMA StoredAt ==
    ASSUME NEW S, NEW data \in Seq(S), NEW pos \in 0 .. BLOCK_SIZE,
           NEW kept, kept = Promise!Stored(pos, data)
    PROVE  kept \in Seq(S) /\ FrontOf(data, pos, kept)
<1>1. BLOCK_SIZE \in Nat /\ pos \in Nat /\ Len(data) \in Nat
  BY Constants, LenProperties
<1>2. CASE pos + Len(data) > BLOCK_SIZE
  <2>1. kept = SubSeq(data, 1, BLOCK_SIZE - pos)
    BY <1>2 DEF Promise!Stored
  <2>2. 1 \in Int /\ BLOCK_SIZE - pos \in Int
    BY <1>1
  <2>3. \A k \in 1 .. BLOCK_SIZE - pos : data[k] \in S
    BY <1>1, <1>2, ElementOfSeq
  <2>4. /\ SubSeq(data, 1, BLOCK_SIZE - pos) \in Seq(S)
        /\ Len(SubSeq(data, 1, BLOCK_SIZE - pos))
              = IF 1 <= BLOCK_SIZE - pos THEN BLOCK_SIZE - pos - 1 + 1 ELSE 0
        /\ \A k \in 1 .. BLOCK_SIZE - pos - 1 + 1 :
              SubSeq(data, 1, BLOCK_SIZE - pos)[k] = data[1 + k - 1]
    BY <2>2, <2>3, SubSeqProperties
  <2>5. Len(kept) = BLOCK_SIZE - pos
    BY <1>1, <2>1, <2>4
  <2> QED BY <1>1, <1>2, <2>1, <2>4, <2>5 DEF FrontOf
<1>3. CASE ~ (pos + Len(data) > BLOCK_SIZE)
  BY <1>1, <1>3 DEF Promise!Stored, FrontOf
<1> QED BY <1>2, <1>3

\* The bytes of a file after data has been put at pos.
LEMMA OverwrittenAt ==
    ASSUME NEW S, NEW old \in Seq(S), NEW pos \in 0 .. Len(old),
           NEW data \in Seq(S), NEW new, new = Promise!Overwritten(old, pos, data)
    PROVE  /\ new \in Seq(S)
           /\ Len(new) = IF pos + Len(data) > Len(old) THEN pos + Len(data)
                         ELSE Len(old)
           /\ \A k \in 1 .. Len(new) :
                 new[k] = IF pos < k /\ k <= pos + Len(data) THEN data[k - pos]
                          ELSE old[k]
<1> DEFINE a == SubSeq(old, 1, pos)
           c == SubSeq(old, pos + Len(data) + 1, Len(old))
<1>1. Len(old) \in Nat /\ Len(data) \in Nat /\ pos \in Nat
  BY LenProperties
<1>2. a \in Seq(S) /\ Len(a) = pos /\ \A k \in 1 .. pos : a[k] = old[k]
  BY <1>1
<1>3. /\ c \in Seq(S)
      /\ Len(c) = IF pos + Len(data) > Len(old) THEN 0
                  ELSE Len(old) - pos - Len(data)
      /\ \A k \in 1 .. Len(c) : c[k] = old[pos + Len(data) + k]
  <2>1. pos + Len(data) + 1 \in Int /\ Len(old) \in Int
    BY <1>1
  <2>2. \A k \in pos + Len(data) + 1 .. Len(old) : old[k] \in S
    BY <1>1, ElementOfSeq
  <2>3. /\ c \in Seq(S)
        /\ Len(c) = IF pos + Len(data) + 1 <= Len(old)
                      THEN Len(old) - (pos + Len(data) + 1) + 1 ELSE 0
        /\ \A k \in 1 .. Len(old) - (pos + Len(data) + 1) + 1 :
              c[k] = old[pos + Len(data) + 1 + k - 1]
    <3>1. PICK m \in Int, n \in Int : m = pos + Len(data) + 1 /\ n = Len(old)
      BY <2>1
    <3>2. \A k \in m .. n : old[k] \in S
      BY <2>2, <3>1
    <3>3. /\ SubSeq(old, m, n) \in Seq(S)
          /\ Len(SubSeq(old, m, n)) = IF m <= n THEN n - m + 1 ELSE 0
          /\ \A k \in 1 .. n - m + 1 : SubSeq(old, m, n)[k] = old[m + k - 1]
      BY ONLY <3>2, SubSeqProperties
    <3> QED BY ONLY <3>1, <3>3 DEF c
  <2> HIDE DEF c
  <2>4. Len(c) = IF pos + Len(data) > Len(old) THEN 0 ELSE Len(old) - pos - Len(data)
    BY <1>1, <2>3
  <2>5. ASSUME NEW k \in 1 .. Len(c) PROVE c[k] = old[pos + Len(data) + k]
    <3>1. /\ k \in 1 .. Len(old) - (pos + Len(data) + 1) + 1
          /\ pos + Len(data) + 1 + k - 1 = pos + Len(data) + k
      BY <1>1, <2>4
    <3> QED BY <2>3, <3>1
  <2> QED BY <2>3, <2>4, <2>5
<1>4. new = (a \o data) \o c
  BY DEF Promise!Overwritten
<1> HIDE DEF a, c
<1>5. PICK d, e : d = a \o data /\ e = c
  OBVIOUS
<1>6. /\ d \in Seq(S) /\ Len(d) = pos + Len(data)
      /\ \A k \in 1 .. pos + Len(data) : d[k] = IF k <= pos THEN a[k] ELSE data[k - pos]
  BY <1>2, <1>5, ConcatProperties
<1>7. /\ new \in Seq(S) /\ Len(new) = Len(d) + Len(c)
      /\ \A k \in 1 .. Len(d) + Len(c) :
            new[k] = IF k <= Len(d) THEN d[k] ELSE c[k - Len(d)]
  <2>1. new = d \o e /\ d \in Seq(S) /\ e \in Seq(S)
    BY <1>3, <1>4, <1>5, <1>6
  <2>2. /\ new \in Seq(S) /\ Len(new) = Len(d) + Len(e)
        /\ \A k \in 1 .. Len(d) + Len(e) :
              new[k] = IF k <= Len(d) THEN d[k] ELSE e[k - Len(d)]
    BY <2>1, ConcatProperties
  <2> QED BY <1>5, <2>2
<1>8. PICK n, l, m \in Nat : n = Len(data) /\ l = Len(old) /\ m = Len(c)
  BY <1>1, <1>3, LenProperties
<1>9. Len(new) = pos + n + m /\ m = IF pos + n > l THEN 0 ELSE l - pos - n
  BY <1>3, <1>6, <1>7, <1>8
<1>10. Len(new) = IF pos + n > l THEN pos + n ELSE l
  BY <1>1, <1>9
<1>11. ASSUME NEW k \in 1 .. Len(new)
       PROVE  new[k] = IF pos < k /\ k <= pos + n THEN data[k - pos] ELSE old[k]
  <2>1. k \in 1 .. pos + n + m
    BY <1>9
  <2>2. new[k] = IF k <= pos + n THEN d[k] ELSE c[k - (pos + n)]
    BY <1>6, <1>7, <1>8, <2>1
  <2>3. CASE k <= pos
    BY <1>1, <1>2, <1>6, <1>8, <2>1, <2>2, <2>3
  <2>4. CASE pos < k /\ k <= pos + n
    BY <1>1, <1>6, <1>8, <2>1, <2>2, <2>4
  <2>5. CASE k > pos + n
    <3>1. k - (pos + n) \in 1 .. m /\ pos + n + (k - (pos + n)) = k
      BY <1>1, <2>1, <2>5
    <3>2. c[k - (pos + n)] = old[pos + n + (k - (pos + n))]
      BY <1>3, <1>8, <3>1
    <3> QED BY <1>1, <1>8, <2>1, <2>2, <2>5, <3>1, <3>2
  <2> QED BY <1>1, <2>1, <2>3, <2>4, <2>5
<1> QED BY <1>7, <1>8, <1>10, <1>11

\* The bytes of a caller's buffer.
BytesOfBuffer(buffer) == [k \in 1 .. Cardinality(DOMAIN buffer) |-> buffer[k - 1]]

LEMMA BufferData ==
    ASSUME NEW buffer \in Buffers, NEW n, n = Cardinality(DOMAIN buffer),
           NEW data, data = BytesOfBuffer(buffer)
    PROVE  /\ data \in Promise!Data
           /\ n \in 0 .. MAX_LEN
           /\ data \in Seq(Contents) /\ Len(data) = n
           /\ \A k \in 1 .. n : data[k] = buffer[k - 1]
<1> USE Constants
<1>1. n \in 0 .. MAX_LEN /\ buffer \in [0 .. n - 1 -> Bytes]
  BY BufferArray
<1>2. \A k \in 1 .. n : k - 1 \in 0 .. n - 1
  BY <1>1
<1>3. data = [k \in 1 .. n |-> buffer[k - 1]]
  BY DEF BytesOfBuffer
<1>4. data \in [1 .. n -> Bytes]
  BY <1>1, <1>2, <1>3
<1>5. data \in [1 .. n -> Contents] /\ n \in Nat
  BY <1>1, <1>4 DEF Contents
<1>6. data \in Seq(Contents) /\ Len(data) = n
  BY <1>5
<1> QED BY <1>1, <1>3, <1>4, <1>6 DEF Promise!Data

\* What AbstractFS keeps of the buffer, and the file it makes of it.
Written(old, pos, count, buffer, new) ==
    /\ new \in Seq(Contents)
    /\ Len(new) = IF pos + count > Len(old) THEN pos + count ELSE Len(old)
    /\ \A k \in 1 .. Len(new) :
          new[k] = IF pos < k /\ k <= pos + count THEN buffer[k - pos - 1] ELSE old[k]

LEMMA BufferStored ==
    ASSUME NEW buffer \in Buffers, NEW n, n = Cardinality(DOMAIN buffer),
           NEW data, data = BytesOfBuffer(buffer),
           NEW old \in Seq(Contents), NEW pos \in 0 .. BLOCK_SIZE, pos <= Len(old),
           NEW count,
           count = IF n + pos > BLOCK_SIZE THEN BLOCK_SIZE - pos ELSE n,
           NEW kept, kept = Promise!Stored(pos, data),
           NEW new, new = Promise!Overwritten(old, pos, kept)
    PROVE  /\ Len(kept) = count
           /\ Written(old, pos, count, buffer, new)
<1> USE Constants
<1>1. /\ n \in Nat /\ data \in Seq(Contents) /\ Len(data) = n
      /\ \A k \in 1 .. n : data[k] = buffer[k - 1]
  BY BufferData
<1>2. kept \in Seq(Contents) /\ FrontOf(data, pos, kept)
  BY <1>1, StoredAt
<1>3. Len(kept) = count /\ count \in 0 .. n
  BY <1>1, <1>2 DEF FrontOf
<1>4. \A k \in 1 .. count : kept[k] = buffer[k - 1]
  <2>1. TAKE k \in 1 .. count
  <2>2. k \in 1 .. n /\ k \in 1 .. Len(kept)
    BY <1>1, <1>3
  <2> QED BY <1>1, <1>2, <2>2 DEF FrontOf
<1>5. pos \in 0 .. Len(old)
  BY LenProperties
<1>6. /\ new \in Seq(Contents)
      /\ Len(new) = IF pos + count > Len(old) THEN pos + count ELSE Len(old)
      /\ \A k \in 1 .. Len(new) :
            new[k] = IF pos < k /\ k <= pos + count THEN kept[k - pos] ELSE old[k]
  BY <1>2, <1>3, <1>5, OverwrittenAt
<1>7. ASSUME NEW k \in 1 .. Len(new), pos < k /\ k <= pos + count
      PROVE  kept[k - pos] = buffer[k - pos - 1]
  <2>1. k - pos \in 1 .. count /\ k \in Int
    BY <1>3, <1>7
  <2> QED BY <1>4, <2>1
<1> QED BY <1>3, <1>6, <1>7 DEF Written

\* A sequence is its length and its bytes.
LEMMA SameSequence ==
    ASSUME NEW s \in Seq(Contents), NEW u \in Seq(Contents), Len(s) = Len(u),
           \A k \in 1 .. Len(s) : s[k] = u[k]
    PROVE  s = u
BY SeqEqual

LEMMA NothingWritten ==
    ASSUME NEW old \in Seq(Contents), NEW pos \in 0 .. BLOCK_SIZE, pos <= Len(old),
           NEW buffer, NEW new, Written(old, pos, 0, buffer, new)
    PROVE  new = old
<1> USE Constants
<1>1. Len(old) \in Nat /\ new \in Seq(Contents) /\ Len(new) = Len(old)
  BY LenProperties DEF Written
<1>2. \A k \in 1 .. Len(new) : new[k] = old[k]
  BY <1>1 DEF Written
<1> QED BY <1>1, <1>2, SameSequence
(***************************************************************************)
(* tfs_write                                                               *)
(***************************************************************************)
\* An open handle, and the cursor it was shown as.
LEMMA HandleShown ==
    ASSUME TablesInv, Rest, SameHandles, NEW h \in Handles, open_file_table[h] # NoFile
    PROVE  \E i \in Inodes, pos \in 0 .. BLOCK_SIZE, size \in 0 .. BLOCK_SIZE :
               /\ i = open_file_table[h].of_inumber
               /\ pos = open_file_table[h].of_offset
               /\ size = inode_table[i].i_size
               /\ pos <= size
               /\ handles[h] = [file |-> i, pos |-> pos]
               /\ handles[h].file = i /\ handles[h].pos = pos
               /\ handles[h] # None
               /\ freeinode_ts[i] = "TAKEN"
               /\ HasBytes(i)
<1> USE Constants
<1>1. PICK i, pos, size : /\ i = open_file_table[h].of_inumber
                          /\ pos = open_file_table[h].of_offset
                          /\ size = inode_table[i].i_size
  OBVIOUS
<1>2. /\ i \in Inodes /\ pos \in 0 .. BLOCK_SIZE /\ size \in 0 .. BLOCK_SIZE
      /\ pos <= size /\ freeinode_ts[i] = "TAKEN"
  BY <1>1, OpenHandle
<1>3. pos \in Nat
  BY <1>2
<1>4. /\ handles[h] = [file |-> i, pos |-> pos]
      /\ handles[h].file = i /\ handles[h].pos = pos /\ handles[h] # None
  BY <1>1, <1>2, <1>3, HandleHeld DEF SameHandles
<1>5. HasBytes(i)
  BY <1>2, TakenHasBytes DEF Rest
<1> QED BY <1>1, <1>2, <1>4, <1>5

\* The cursor of handle h goes to new.
LEMMA CursorMoves ==
    ASSUME TablesType, NEW h \in Handles, open_file_table[h] # NoFile,
           NEW i \in Inodes, i = open_file_table[h].of_inumber,
           handles[h] = [file |-> i, pos |-> open_file_table[h].of_offset],
           NEW new, open_file_table' = [open_file_table EXCEPT ![h].of_offset = new],
           SameHandles
    PROVE  HandlesNow' = [handles EXCEPT ![h].pos = new]
<1> USE Constants
<1>1. HandlesShown /\ HandlesShown'
  BY HandlesAre, PTL
<1>2. /\ open_file_table'[h].of_inumber = i /\ open_file_table'[h].of_offset = new
      /\ open_file_table'[h] # NoFile
      /\ \A g \in Handles \ {h} : open_file_table'[g] = open_file_table[g]
  BY DEF TablesType, NoFile
<1>3. HandlesNow'[h] = [file |-> i, pos |-> new]
  BY <1>1, <1>2 DEF HandlesShown
<1>4. \A g \in Handles \ {h} : HandlesNow'[g] = HandlesNow[g]
  BY <1>2, HandleKept
<1>5. HandlesNow' = [HandlesNow EXCEPT ![h] = [file |-> i, pos |-> new]]
  BY <1>3, <1>4, OneHandleChanged
<1>6. [handles EXCEPT ![h].pos = new] = [handles EXCEPT ![h] = [file |-> i, pos |-> new]]
  <2>1. PICK pos : handles[h] = [file |-> i, pos |-> pos]
    OBVIOUS
  <2>2. [handles[h] EXCEPT !.pos = new] = [file |-> i, pos |-> new]
    BY <2>1
  <2> QED BY <2>2
<1> QED BY <1>5, <1>6 DEF SameHandles

LEMMA EffectWriteStart ==
    ASSUME IInv, EffectInv, NEW t \in Threads, WriteStart(t)
    PROVE  EffectInv'
<1> USE Constants
<1>1. /\ pc[t] = "write" /\ pc[t] # "idle" /\ pc[t] # "unlock" /\ UNCHANGED before
      /\ UNCHANGED tables
  BY DEF WriteStart, Stay
<1>2. PICK c \in Call : /\ c = call[t] /\ Effect("write", c) /\ BeforeTyped
                        /\ call \in [Threads -> Call]
                        /\ HolderInv(t) /\ TablesInv /\ TablesType
  BY <1>1, InStep
<1>3. PICK h \in Handles : h = c.fhandle
  BY <1>1, <1>2 DEF HolderInv
<1>4. c.data = NoData /\ Same /\ Same' /\ Rest
  BY <1>1, <1>2, SameKept DEF Effect, HolderInv
<1>5. PICK buffer, n : /\ buffer \in Buffers /\ buffer = c.buffer
                       /\ n = Cardinality(DOMAIN buffer)
  BY DEF Call
<1>6. PICK file : file = open_file_table[h]
  OBVIOUS
<1>7. CASE Answer(t, -1)
  BY <1>1, <1>4, <1>7, RefusedDone, EffectAnswers
<1>8. ASSUME file # NoFile, WriteCount(file, n) = 0, Answer(t, 0)
      PROVE  EffectInv'
  <2>1. PICK i \in Inodes, pos \in 0 .. BLOCK_SIZE, size \in 0 .. BLOCK_SIZE :
               /\ i = open_file_table[h].of_inumber
               /\ pos = open_file_table[h].of_offset
               /\ size = inode_table[i].i_size
               /\ pos <= size
               /\ handles[h] = [file |-> i, pos |-> pos]
               /\ handles[h].file = i /\ handles[h].pos = pos
               /\ handles[h] # None
               /\ HasBytes(i)
    BY <1>2, <1>4, <1>6, <1>8, HandleShown DEF Same
  <2>2. PICK old : old = bytes[i]
    OBVIOUS
  <2>3. old \in Seq(Contents) /\ pos <= Len(old)
    BY <1>4, <2>1, <2>2 DEF HasBytes, Same, SameBytes
  <2>4. PICK data, kept, new : /\ data = BytesOfBuffer(buffer)
                               /\ kept = Promise!Stored(pos, data)
                               /\ new = Promise!Overwritten(old, pos, kept)
    OBVIOUS
  <2>5. 0 = IF n + pos > BLOCK_SIZE THEN BLOCK_SIZE - pos ELSE n
    BY <1>6, <1>8, <2>1 DEF WriteCount
  <2>6. data \in Promise!Data
    BY ONLY <1>5, <2>4, BufferData
  <2>7. Len(kept) = 0 /\ Written(old, pos, 0, buffer, new)
    BY <1>5, <2>3, <2>4, <2>5, BufferStored
  <2>8. new = old
    BY <2>3, <2>7, NothingWritten
  <2>9. /\ names' = names /\ bytes' = bytes /\ handles' = handles
    BY <1>1, ViewsKept
  <2>10. BytesNow' = [bytes EXCEPT ![i] = new]
    BY <1>2, <1>4, <2>2, <2>8, <2>9 DEF Same, SameBytes, BeforeTyped
  <2>11. HandlesNow' = [handles EXCEPT ![h].pos = pos + Len(kept)]
    <3>1. pos + Len(kept) = pos
      BY <2>7
    <3>2. [handles EXCEPT ![h].pos = pos] = handles
      <4>1. handles = [g \in Handles |-> handles[g]]
        BY <1>2 DEF BeforeTyped
      <4>2. [handles EXCEPT ![h].pos = pos] = [handles EXCEPT ![h] = [file |-> i, pos |-> pos]]
        BY <2>1, <4>1
      <4> QED BY <2>1, <4>1, <4>2
    <3> QED BY <1>4, <2>9, <3>1, <3>2 DEF Same, SameHandles
  <2>12. HasWritten(h, data, 0, <<>>)'
    BY <1>4, <2>1, <2>2, <2>4, <2>7, <2>9, <2>10, <2>11 DEF HasWritten, Same
  <2>13. Done(0, <<>>)'
    BY <2>6, <2>12 DEF Done
  <2> QED BY <1>1, <1>8, <2>13, EffectAnswers
<1>9. ASSUME NEW i, i = file.of_inumber, NEW count, count = WriteCount(file, n),
             file # NoFile, count > 0,
             call' = [call EXCEPT ![t].inum = i, ![t].count = count],
             Goto(t, IF inode_table[i].i_size = 0 THEN "block" ELSE "copy")
      PROVE  EffectInv'
  <2>1. PICK pos \in 0 .. BLOCK_SIZE : i \in Inodes /\ pos = file.of_offset
    BY <1>2, <1>4, <1>6, <1>9, HandleShown DEF Same
  <2>2. n \in Nat
    BY <1>5, BufferArray
  <2>3. count \in 1 .. BLOCK_SIZE
    BY <1>9, <2>1, <2>2 DEF WriteCount
  <2>4. PICK mine : mine = [c EXCEPT !.inum = i, !.count = count]
    OBVIOUS
  <2>5. /\ mine \in Call /\ mine.inum = i /\ mine.count = count /\ mine.data = NoData
        /\ mine.fhandle = h /\ mine.buffer = buffer
    <3>1. i \in Inodes \cup {-1} /\ count \in 0 .. BLOCK_SIZE
      BY <2>1, <2>3
    <3> QED BY <1>3, <1>4, <1>5, <2>4, <3>1 DEF Call
  <2>6. call' = [call EXCEPT ![t] = mine]
    BY <1>2, <1>9, <2>4
  <2>7. ASSUME NEW step \in {"block", "copy"}, pc' = [pc EXCEPT ![t] = step]
        PROVE  EffectInv'
    <3>1. file = open_file_table'[h]
      BY <1>1, <1>6 DEF tables
    <3>2. Effect(step, mine)'
      BY <1>4, <1>5, <1>9, <2>5, <3>1 DEF Effect
    <3> QED BY <1>1, <2>5, <2>6, <2>7, <3>2, EffectMoves DEF Steps
  <2> QED BY <1>9, <2>7 DEF Goto
<1> QED BY <1>2, <1>3, <1>5, <1>6, <1>7, <1>8, <1>9 DEF WriteStart

LEMMA EffectBlockAlloc ==
    ASSUME IInv, EffectInv, NEW t \in Threads, BlockAlloc(t)
    PROVE  EffectInv'
<1> USE Constants
<1>1. /\ pc[t] = "block" /\ pc[t] # "idle" /\ pc[t] # "unlock" /\ UNCHANGED before
      /\ UNCHANGED <<freeinode_ts, fs_data, dir, open_file_table>>
  BY DEF BlockAlloc, Stay
<1>2. PICK c \in Call : /\ c = call[t] /\ Effect("block", c)
                        /\ call \in [Threads -> Call]
                        /\ HolderInv(t) /\ TablesInv /\ TablesType
  BY <1>1, InStep
<1>3. PICK i \in Inodes : i = c.inum
  BY <1>1, <1>2, WritingNow
<1>4. c.data = NoData /\ Same /\ inode_table[i].i_size = 0
  BY <1>1, <1>2, <1>3 DEF Effect, HolderInv
<1>5. ASSUME NEW b \in Blocks,
             inode_table' = [inode_table EXCEPT ![i].i_data_block = b],
             Goto(t, "copy"), UNCHANGED call
      PROVE  EffectInv'
  <2>1. /\ inode_table'[i].i_size = 0
        /\ \A j \in Inodes \ {i} : inode_table'[j] = inode_table[j]
    BY <1>2, <1>4, <1>5 DEF TablesType
  <2>2. \A j \in Inodes : BytesNow'[j] = BytesNow[j]
    BY <1>1, <1>4, <2>1, FileKept
  <2>3. BytesNow' = BytesNow
    BY <2>2, NoFileChanged
  <2>4. Same'
    BY <1>1, <1>4, <2>3, ViewsKept DEF Same, SameNames, SameBytes, SameHandles
  <2>5. c.count = WriteCount(open_file_table[c.fhandle], Cardinality(DOMAIN c.buffer))
    BY <1>2 DEF Effect
  <2>6. Effect("copy", c)'
    BY <1>1, <1>4, <2>4, <2>5 DEF Effect
  <2>7. call' = [call EXCEPT ![t] = c] /\ pc' = [pc EXCEPT ![t] = "copy"]
    BY <1>2, <1>5 DEF Goto
  <2> QED BY <1>1, <2>6, <2>7, EffectMoves DEF Steps
<1>6. CASE Answer(t, -1) /\ UNCHANGED <<free_blocks, inode_table>>
  <2>1. Same'
    BY <1>1, <1>4, <1>6, SameKept DEF tables
  <2> QED BY <1>1, <1>6, <2>1, RefusedDone, EffectAnswers
<1> QED BY <1>2, <1>3, <1>5, <1>6 DEF BlockAlloc
LEMMA EffectCopy ==
    ASSUME IInv, EffectInv, NEW t \in Threads, Copy(t)
    PROVE  EffectInv'
<1> USE Constants
<1>1. /\ pc[t] = "copy" /\ pc[t] # "idle" /\ UNCHANGED before
      /\ UNCHANGED <<freeinode_ts, inode_table, free_blocks, dir,
                     open_file_table, call>>
  BY DEF Copy, Stay
<1>2. PICK c \in Call : /\ c = call[t] /\ Effect("copy", c)
                        /\ call \in [Threads -> Call]
                        /\ HolderInv(t) /\ TablesInv /\ TablesType
  BY <1>1, InStep
<1>3. PICK h \in Handles, i \in Inodes, count \in 1 .. BLOCK_SIZE :
          /\ h = c.fhandle /\ i = c.inum /\ count = c.count
          /\ open_file_table[h].of_offset \in 0 .. BLOCK_SIZE
          /\ open_file_table[h].of_offset + count <= BLOCK_SIZE
          /\ freeinode_ts[i] = "TAKEN"
  BY <1>1, <1>2, WritingNow
<1>4. PICK pos, buffer, b, size :
          /\ pos = open_file_table[h].of_offset /\ buffer = c.buffer
          /\ b = inode_table[i].i_data_block /\ size = inode_table[i].i_size
          /\ pos \in 0 .. BLOCK_SIZE /\ size \in 0 .. BLOCK_SIZE
  <2>1. inode_table[i].i_size \in 0 .. BLOCK_SIZE
    BY <1>2 DEF TablesType
  <2> QED BY <1>3, <2>1
<1>5. c.data = NoData /\ Same
      /\ c.count = WriteCount(open_file_table[c.fhandle], Cardinality(DOMAIN c.buffer))
  BY <1>2 DEF Effect
<1>6. BlocksInv(-1, i) /\ Owner(i, -1, i)
  BY <1>1, <1>2, <1>3 DEF HolderInv, Owner
<1>7. b \in Blocks
  BY <1>4, <1>6 DEF BlocksInv
<1>8. PICK row : row = [k \in Offsets |-> IF k \in pos .. pos + count - 1
                                            THEN buffer[k - pos] ELSE fs_data[b][k]]
  OBVIOUS
<1>9. fs_data' = [fs_data EXCEPT ![b] = row]
  BY <1>2, <1>3, <1>4, <1>8 DEF Copy
<1>10. fs_data'[b] = row /\ \A d \in Blocks \ {b} : fs_data'[d] = fs_data[d]
  BY <1>2, <1>7, <1>9 DEF TablesType
<1>11. \A j \in Inodes \ {i} : BytesNow'[j] = BytesNow[j]
  <2>1. TAKE j \in Inodes \ {i}
  <2>2. ASSUME freeinode_ts[j] = "TAKEN", inode_table[j].i_size # 0
        PROVE  inode_table[j].i_data_block \in Blocks \ {b}
    <3>1. inode_table[j].i_size > 0
      <4>1. PICK m \in 0 .. BLOCK_SIZE : m = inode_table[j].i_size
        BY <1>2 DEF TablesType
      <4> QED BY <2>2, <4>1
    <3>2. Owner(j, -1, i)
      BY <2>2, <3>1 DEF Owner
    <3> QED BY <1>4, <1>6, <3>2 DEF BlocksInv
  <2> QED BY <1>1, <1>10, <2>2, FileKept
<1>12. /\ names' = names /\ bytes' = bytes /\ handles' = handles
       /\ NamesNow' = NamesNow /\ HandlesNow' = HandlesNow
  BY <1>1, ViewsKept
<1>13. /\ SameNames' /\ SameHandles'
       /\ \A j \in Inodes \ {i} : BytesNow'[j] = bytes'[j]
  BY <1>5, <1>11, <1>12 DEF Same, SameNames, SameHandles, SameBytes
<1>14. HalfWritten(i, pos, count, buffer)'
  <2>1. HasBytes(i)
    BY <1>2, <1>3, <1>4, <1>7, FileBytes
  <2>2. /\ Len(bytes[i]) = size
        /\ \A k \in 1 .. size : bytes[i][k] = fs_data[b][k - 1]
    BY <1>4, <1>5, <2>1 DEF HasBytes, Same, SameBytes
  <2>3. \A k \in pos .. pos + count - 1 : row[k] = buffer[k - pos]
    <3>1. \A k \in pos .. pos + count - 1 : k \in Offsets
      BY <1>3, <1>4 DEF Offsets
    <3> QED BY <1>8, <3>1
  <2>4. ASSUME NEW k \in 0 .. size - 1, k \notin pos .. pos + count - 1
        PROVE  row[k] = bytes[i][k + 1]
    <3>1. k \in Offsets /\ k + 1 \in 1 .. size /\ (k + 1) - 1 = k
      BY <1>4 DEF Offsets
    <3>2. row[k] = fs_data[b][k]
      BY <1>8, <2>4, <3>1
    <3> QED BY <2>2, <3>1, <3>2
  <2>5. inode_table'[i].i_data_block = b /\ inode_table'[i].i_size = size
    BY <1>1, <1>4
  <2> QED BY <1>10, <1>12, <2>2, <2>3, <2>4, <2>5 DEF HalfWritten
<1>15. Effect("advance", c)'
  <2>1. /\ open_file_table'[c.fhandle].of_offset = pos
        /\ c.count = WriteCount(open_file_table'[c.fhandle], Cardinality(DOMAIN c.buffer))
    BY <1>1, <1>3, <1>4, <1>5
  <2>2. HalfWritten(c.inum, pos, c.count, c.buffer)'
    BY <1>3, <1>4, <1>14
  <2>3. HalfWritten(c.inum, open_file_table[c.fhandle].of_offset, c.count, c.buffer)'
    BY <1>1, <2>1, <2>2 DEF HalfWritten
  <2>4. \A j \in Inodes \ {c.inum} : BytesNow'[j] = bytes'[j]
    BY <1>3, <1>13
  <2> QED BY <1>5, <1>13, <2>1, <2>3, <2>4 DEF Effect
<1>16. call' = [call EXCEPT ![t] = c] /\ pc' = [pc EXCEPT ![t] = "advance"]
  BY <1>1, <1>2 DEF Copy, Goto
<1> QED BY <1>1, <1>15, <1>16, EffectMoves DEF Steps
\* A block after the memcpy, of a file that has the bytes old.
HalfRow(block, old, pos, count, buffer) ==
    /\ \A k \in pos .. pos + count - 1 : block[k] = buffer[k - pos]
    /\ \A k \in 0 .. Len(old) - 1 :
          k \notin pos .. pos + count - 1 => block[k] = old[k + 1]

\* The bytes of the file once its size is set are those AbstractFS promises.
LEMMA WrittenBytes ==
    ASSUME NEW block \in [Offsets -> Contents], NEW old \in Seq(Contents),
           NEW pos \in 0 .. BLOCK_SIZE, NEW count \in 1 .. BLOCK_SIZE,
           pos + count <= BLOCK_SIZE, Len(old) \in 0 .. BLOCK_SIZE, pos <= Len(old),
           NEW buffer,
           HalfRow(block, old, pos, count, buffer),
           NEW size \in 0 .. BLOCK_SIZE,
           size = IF pos + count > Len(old) THEN pos + count ELSE Len(old),
           NEW new, Written(old, pos, count, buffer, new),
           NEW s, s = FirstBytes(block, size)
    PROVE  s = new
<1> USE Constants
<1>1. /\ \A k \in pos .. pos + count - 1 : block[k] = buffer[k - pos]
      /\ \A k \in 0 .. Len(old) - 1 :
            k \notin pos .. pos + count - 1 => block[k] = old[k + 1]
  BY DEF HalfRow
<1>2. /\ s \in Seq(Contents) /\ Len(s) = size
      /\ \A k \in 1 .. size : s[k] = block[k - 1]
  <2>1. /\ size \in 0 .. BLOCK_SIZE /\ block \in [Offsets -> Contents]
        /\ s = FirstBytes(block, size)
    OBVIOUS
  <2> QED BY ONLY <2>1, ArrayIsSeq
<1>3. new \in Seq(Contents) /\ Len(new) = size
  BY DEF Written
<1>4. ASSUME NEW k \in 1 .. size PROVE s[k] = new[k]
  <2>1. k \in 1 .. BLOCK_SIZE
    OBVIOUS
  <2>2. new[k] = IF pos < k /\ k <= pos + count THEN buffer[k - pos - 1] ELSE old[k]
    BY <1>3 DEF Written
  <2>3. CASE pos < k /\ k <= pos + count
    <3>1. k - 1 \in pos .. pos + count - 1 /\ k - 1 - pos = k - pos - 1
      BY <2>1, <2>3
    <3> QED BY <1>1, <1>2, <2>2, <2>3, <3>1
  <2>4. CASE ~(pos < k /\ k <= pos + count)
    <3>1. /\ k - 1 \in 0 .. Len(old) - 1 /\ k - 1 \notin pos .. pos + count - 1
          /\ (k - 1) + 1 = k
      BY <2>1, <2>4
    <3> QED BY <1>1, <1>2, <2>2, <2>4, <3>1
  <2> QED BY <2>3, <2>4
<1> QED BY <1>2, <1>3, <1>4, SameSequence

LEMMA EffectAdvance ==
    ASSUME IInv, EffectInv, NEW t \in Threads, Advance(t)
    PROVE  EffectInv'
<1> USE Constants
<1>1. /\ pc[t] = "advance" /\ pc[t] # "idle" /\ pc[t] # "unlock" /\ UNCHANGED before
      /\ UNCHANGED <<freeinode_ts, free_blocks, fs_data, dir>>
  BY DEF Advance, Stay
<1>2. PICK c \in Call : /\ c = call[t] /\ Effect("advance", c) /\ BeforeTyped
                        /\ HolderInv(t) /\ TablesInv /\ TablesType /\ HandlesInv
  BY <1>1, InStep
<1>3. PICK h \in Handles, i \in Inodes, count \in 1 .. BLOCK_SIZE :
          /\ h = c.fhandle /\ i = c.inum /\ count = c.count
          /\ open_file_table[h].of_inumber = i
          /\ open_file_table[h].of_offset \in 0 .. BLOCK_SIZE
          /\ open_file_table[h].of_offset + count <= BLOCK_SIZE
          /\ freeinode_ts[i] = "TAKEN"
  BY <1>1, <1>2, WritingNow
<1>4. PICK pos, buffer, b, size, n :
          /\ pos = open_file_table[h].of_offset
          /\ buffer = c.buffer /\ n = Cardinality(DOMAIN buffer)
          /\ b = inode_table[i].i_data_block /\ size = inode_table[i].i_size
          /\ pos \in 0 .. BLOCK_SIZE /\ size \in 0 .. BLOCK_SIZE
  <2>1. inode_table[i].i_size \in 0 .. BLOCK_SIZE
    BY <1>2 DEF TablesType
  <2> QED BY <1>3, <2>1
<1>5. /\ SameNames /\ SameHandles
      /\ \A j \in Inodes \ {i} : BytesNow[j] = bytes[j]
      /\ HalfWritten(i, pos, count, buffer)
      /\ count = IF n + pos > BLOCK_SIZE THEN BLOCK_SIZE - pos ELSE n
  BY <1>2, <1>3, <1>4 DEF Effect, WriteCount
<1>6. b \in Blocks
  BY <1>1, <1>2, <1>3, <1>4 DEF HolderInv, Owner, BlocksInv
<1>7. PICK block : block = fs_data[b] /\ block \in [Offsets -> Contents]
  BY <1>2, <1>6 DEF TablesType
<1>8. PICK old : old = bytes[i]
  OBVIOUS
<1>9. /\ old \in Seq(Contents) /\ Len(old) = size
      /\ HalfRow(block, old, pos, count, buffer)
  BY <1>2, <1>4, <1>5, <1>7, <1>8 DEF HalfWritten, HalfRow, BeforeTyped
<1>10. open_file_table[h] # NoFile /\ pos <= size
  <2>1. open_file_table[h] # NoFile
    BY <1>3 DEF NoFile
  <2> QED BY <1>2, <1>3, <1>4, <2>1 DEF HandlesInv
<1>11. PICK data, kept, new : /\ data = BytesOfBuffer(buffer)
                              /\ kept = Promise!Stored(pos, data)
                              /\ new = Promise!Overwritten(old, pos, kept)
  OBVIOUS
<1>12. buffer \in Buffers
  BY <1>4 DEF Call
<1>13. /\ data \in Promise!Data /\ Len(kept) = count
       /\ Written(old, pos, count, buffer, new)
  <2>1. data \in Promise!Data
    BY <1>4, <1>11, <1>12, BufferData
  <2>2. pos \in 0 .. BLOCK_SIZE /\ pos <= Len(old)
    BY <1>4, <1>9, <1>10
  <2>3. Len(kept) = count /\ Written(old, pos, count, buffer, new)
    BY ONLY <1>4, <1>5, <1>9, <1>11, <1>12, <2>2, BufferStored
  <2> QED BY <2>1, <2>3
<1>14. PICK larger \in 0 .. BLOCK_SIZE :
           larger = IF pos + count > size THEN pos + count ELSE size
  BY <1>3, <1>4
<1>15. /\ open_file_table' = [open_file_table EXCEPT ![h].of_offset = pos + count]
       /\ inode_table' = [inode_table EXCEPT ![i].i_size = larger]
       /\ Answer(t, count)
  BY <1>2, <1>3, <1>4, <1>14 DEF Advance
<1>16. /\ inode_table'[i].i_size = larger /\ inode_table'[i].i_data_block = b
       /\ \A j \in Inodes \ {i} : inode_table'[j] = inode_table[j]
  BY <1>2, <1>4, <1>15 DEF TablesType
<1>17. \A j \in Inodes \ {i} : BytesNow'[j] = bytes[j]
  <2>1. \A j \in Inodes \ {i} : BytesNow'[j] = BytesNow[j]
    BY <1>1, <1>16, FileKept
  <2> QED BY <1>5, <2>1
<1>18. BytesNow'[i] = new
  <2>1. BytesShown'
    BY BytesAre, PTL
  <2>2. BytesNow'[i] = [k \in 1 .. larger |-> block[k - 1]]
    BY <1>1, <1>3, <1>7, <1>16, <2>1 DEF BytesShown
  <2>3. larger = IF pos + count > Len(old) THEN pos + count ELSE Len(old)
    BY <1>9, <1>14
  <2>4. pos + count <= BLOCK_SIZE /\ pos <= Len(old) /\ Len(old) \in 0 .. BLOCK_SIZE
    BY <1>3, <1>4, <1>9, <1>10
  <2>5. PICK s : s = FirstBytes(block, larger)
    OBVIOUS
  <2>6. /\ block \in [Offsets -> Contents] /\ old \in Seq(Contents)
        /\ pos \in 0 .. BLOCK_SIZE /\ count \in 1 .. BLOCK_SIZE
        /\ larger \in 0 .. BLOCK_SIZE
        /\ HalfRow(block, old, pos, count, buffer)
        /\ Written(old, pos, count, buffer, new)
    BY <1>4, <1>7, <1>9, <1>13
  <2>7. s = new
    BY ONLY <2>3, <2>4, <2>5, <2>6, WrittenBytes
  <2> QED BY <2>2, <2>5, <2>7 DEF FirstBytes
<1>19. /\ names' = names /\ bytes' = bytes /\ handles' = handles
       /\ NamesNow' = NamesNow
  BY <1>1, ViewsKept
<1>20. BytesNow' = [bytes EXCEPT ![i] = new]
  <2>1. Shaped'
    BY Shapes, PTL
  <2> QED BY <1>2, <1>17, <1>18, <2>1 DEF Shaped, BeforeTyped
<1>21. /\ handles[h] = [file |-> i, pos |-> pos]
       /\ handles[h].file = i /\ handles[h].pos = pos /\ handles[h] # None
  <2>1. pos \in Nat
    BY <1>4
  <2>2. i = open_file_table[h].of_inumber /\ pos = open_file_table[h].of_offset
    BY <1>3, <1>4
  <2>4. h \in Handles /\ i \in Inodes
    OBVIOUS
  <2>3. /\ HandlesNow[h] = [file |-> i, pos |-> pos]
        /\ HandlesNow[h].file = i /\ HandlesNow[h].pos = pos
        /\ HandlesNow[h] # None
    BY ONLY <1>10, <2>1, <2>2, <2>4, HandleHeld
  <2> QED BY <1>5, <2>3 DEF SameHandles
<1>22. HandlesNow' = [handles EXCEPT ![h].pos = pos + count]
  <2>1. /\ i = open_file_table[h].of_inumber
        /\ handles[h] = [file |-> i, pos |-> open_file_table[h].of_offset]
    BY <1>3, <1>4, <1>21
  <2>2. PICK end : end = pos + count
    OBVIOUS
  <2>3. HandlesNow' = [handles EXCEPT ![h].pos = end]
    BY <1>2, <1>5, <1>10, <1>15, <2>1, <2>2, CursorMoves
  <2> QED BY <2>2, <2>3
<1>23. HasWritten(h, data, count, <<>>)'
  BY <1>5, <1>8, <1>11, <1>13, <1>19, <1>20, <1>21, <1>22 DEF HasWritten, SameNames
<1>24. Done(count, <<>>)'
  BY <1>13, <1>23 DEF Done
<1>25. count \in Int
  OBVIOUS
<1> QED BY <1>1, <1>15, <1>24, <1>25, EffectAnswers
(***************************************************************************)
(* tfs_read                                                                *)
(***************************************************************************)
ReadCount(size, pos, len) == IF size - pos > len THEN len ELSE size - pos
BytesFrom(block, pos, count) == [k \in 0 .. count - 1 |-> block[pos + k]]
Taken(all, pos, len) ==
    SubSeq(all, pos + 1, IF pos + len > Len(all) THEN Len(all) ELSE pos + len)
Holds(all, block) == \A k \in 1 .. Len(all) : all[k] = block[k - 1]
Follows(d, all, pos) == \A k \in 1 .. Len(d) : d[k] = all[pos + k]

\* The bytes tfs_read gives are those AbstractFS does.
LEMMA BytesTaken ==
    ASSUME NEW all \in Seq(Contents), NEW size \in 0 .. BLOCK_SIZE, Len(all) = size,
           NEW pos \in 0 .. BLOCK_SIZE, pos <= size,
           NEW len \in 0 .. MAX_LEN,
           NEW count, count = ReadCount(size, pos, len),
           NEW d, d = Taken(all, pos, len)
    PROVE  /\ count \in 0 .. BLOCK_SIZE /\ pos + count <= size
           /\ d \in Seq(Contents) /\ Len(d) = count
           /\ Follows(d, all, pos)
<1> USE Constants
<1>1. /\ count \in 0 .. BLOCK_SIZE /\ pos + count <= size
      /\ pos \in Nat /\ len \in Nat /\ size \in Nat
  BY DEF ReadCount
<1>2. PICK last : last = IF pos + len > Len(all) THEN Len(all) ELSE pos + len
  OBVIOUS
<1>3. last = pos + count
  BY <1>1, <1>2 DEF ReadCount
<1>4. d = SubSeq(all, pos + 1, last)
  BY <1>2 DEF Taken
<1>5. pos + 1 \in Int /\ last \in Int
  BY <1>1, <1>3
<1>6. \A k \in pos + 1 .. last : all[k] \in Contents
  BY <1>1, <1>3, ElementOfSeq
<1>7. /\ d \in Seq(Contents)
      /\ Len(d) = IF pos + 1 <= last THEN last - (pos + 1) + 1 ELSE 0
      /\ \A k \in 1 .. last - (pos + 1) + 1 : d[k] = all[pos + 1 + k - 1]
  BY <1>4, <1>5, <1>6, SubSeqProperties
<1>8. Len(d) = count
  BY <1>1, <1>3, <1>7
<1>9. ASSUME NEW k \in 1 .. count PROVE d[k] = all[pos + k]
  <2>1. k \in 1 .. last - (pos + 1) + 1 /\ pos + 1 + k - 1 = pos + k
    BY <1>1, <1>3
  <2> QED BY <1>7, <2>1
<1> QED BY <1>1, <1>7, <1>8, <1>9 DEF Follows

LEMMA BytesGiven ==
    ASSUME NEW all, NEW size \in 0 .. BLOCK_SIZE, Len(all) = size,
           NEW pos \in 0 .. BLOCK_SIZE,
           NEW count \in 0 .. BLOCK_SIZE, pos + count <= size,
           NEW d, d \in Seq(Contents), Len(d) = count, Follows(d, all, pos),
           NEW block, Holds(all, block),
           NEW data, data = BytesFrom(block, pos, count)
    PROVE  BytesRead(data) = d
<1> USE Constants
<1>1. /\ pos \in Nat /\ size \in Nat /\ count \in Nat
      /\ \A k \in 1 .. count : d[k] = all[pos + k]
  BY DEF Follows
<1>2. data = [k \in 0 .. count - 1 |-> block[pos + k]]
  BY DEF BytesFrom
<1>3. Cardinality(DOMAIN data) = count
  <2>1. DOMAIN data = 0 .. count - 1 /\ 0 \in Int /\ count - 1 \in Int
    BY <1>1, <1>2
  <2>2. Cardinality(0 .. count - 1) = IF 0 > count - 1 THEN 0 ELSE count - 1 - 0 + 1
    BY <2>1, FS_Interval
  <2> QED BY <1>1, <2>1, <2>2
<1>4. BytesRead(data) = [k \in 1 .. count |-> data[k - 1]]
  BY <1>3 DEF BytesRead
<1>5. ASSUME NEW k \in 1 .. count PROVE data[k - 1] = d[k]
  <2>1. /\ k - 1 \in 0 .. count - 1 /\ pos + k \in 1 .. size
        /\ pos + (k - 1) = (pos + k) - 1
    BY <1>1
  <2>2. all[pos + k] = block[(pos + k) - 1]
    BY <2>1 DEF Holds
  <2> QED BY <1>1, <1>2, <2>1, <2>2
<1>6. d = [k \in 1 .. count |-> d[k]]
  BY <1>1, LenProperties
<1> QED BY <1>4, <1>5, <1>6

LEMMA EffectReadStart ==
    ASSUME IInv, EffectInv, NEW t \in Threads, ReadStart(t)
    PROVE  EffectInv'
<1> USE Constants
<1>1. /\ pc[t] = "read" /\ pc[t] # "idle" /\ pc[t] # "unlock" /\ UNCHANGED before
      /\ UNCHANGED tables
  BY DEF ReadStart, Stay
<1>2. PICK c \in Call : /\ c = call[t] /\ Effect("read", c) /\ BeforeTyped
                        /\ call \in [Threads -> Call]
                        /\ HolderInv(t) /\ TablesInv /\ TablesType
  BY <1>1, InStep
<1>3. PICK h \in Handles : h = c.fhandle
  BY <1>1, <1>2 DEF HolderInv
<1>4. c.data = NoData /\ Same /\ Same' /\ Rest
  BY <1>1, <1>2, SameKept DEF Effect, HolderInv
<1>5. PICK len \in 0 .. MAX_LEN : len = c.len
  BY DEF Call
<1>6. PICK file : file = open_file_table[h]
  OBVIOUS
<1>7. CASE Answer(t, -1)
  BY <1>1, <1>4, <1>7, RefusedDone, EffectAnswers
<1>8. ASSUME file # NoFile
      PROVE  \E i \in Inodes, pos \in 0 .. BLOCK_SIZE, size \in 0 .. BLOCK_SIZE :
               /\ i = file.of_inumber /\ pos = file.of_offset
               /\ size = inode_table[i].i_size
               /\ pos <= size
               /\ handles[h] = [file |-> i, pos |-> pos]
               /\ handles[h].file = i /\ handles[h].pos = pos
               /\ handles[h] # None
               /\ bytes[i] \in Seq(Contents) /\ Len(bytes[i]) = size
  <2>1. PICK i \in Inodes, pos \in 0 .. BLOCK_SIZE, size \in 0 .. BLOCK_SIZE :
               /\ i = open_file_table[h].of_inumber
               /\ pos = open_file_table[h].of_offset
               /\ size = inode_table[i].i_size
               /\ pos <= size
               /\ handles[h] = [file |-> i, pos |-> pos]
               /\ handles[h].file = i /\ handles[h].pos = pos
               /\ handles[h] # None
               /\ HasBytes(i)
    BY <1>2, <1>4, <1>6, <1>8, HandleShown DEF Same
  <2>2. bytes[i] \in Seq(Contents) /\ Len(bytes[i]) = size
    BY <1>4, <2>1 DEF HasBytes, Same, SameBytes
  <2> QED BY <1>6, <2>1, <2>2
<1>9. ASSUME file # NoFile,
             ReadCount(inode_table[file.of_inumber].i_size, file.of_offset, len) = 0,
             Answer(t, 0)
      PROVE  EffectInv'
  <2>1. PICK i \in Inodes, pos \in 0 .. BLOCK_SIZE, size \in 0 .. BLOCK_SIZE :
               /\ i = file.of_inumber /\ pos = file.of_offset
               /\ size = inode_table[i].i_size
               /\ pos <= size
               /\ handles[h] = [file |-> i, pos |-> pos]
               /\ handles[h].file = i /\ handles[h].pos = pos
               /\ handles[h] # None
               /\ bytes[i] \in Seq(Contents) /\ Len(bytes[i]) = size
    BY <1>8, <1>9
  <2>2. PICK all, d : all = bytes[i] /\ d = Taken(all, pos, len)
    OBVIOUS
  <2>3. PICK count : count = 0 /\ count = ReadCount(size, pos, len)
    BY <1>9, <2>1
  <2>4. d \in Seq(Contents) /\ Len(d) = count
    BY ONLY <2>1, <2>2, <2>3, len \in 0 .. MAX_LEN, BytesTaken
  <2>5. d = <<>> /\ Len(d) = 0
    BY <2>3, <2>4, EmptySeq
  <2>6. names' = names /\ bytes' = bytes /\ handles' = handles
    BY <1>1, ViewsKept
  <2>7. HandlesNow' = [handles EXCEPT ![h].pos = pos + Len(d)]
    <3>1. pos + Len(d) = pos
      BY <2>5
    <3>2. [handles EXCEPT ![h].pos = pos] = handles
      <4>1. handles = [g \in Handles |-> handles[g]]
        BY <1>2 DEF BeforeTyped
      <4>2. [handles EXCEPT ![h].pos = pos] = [handles EXCEPT ![h] = [file |-> i, pos |-> pos]]
        BY <2>1, <4>1
      <4> QED BY <2>1, <4>1, <4>2
    <3> QED BY <1>4, <2>6, <3>1, <3>2 DEF Same, SameHandles
  <2>8. HasRead(h, len, 0, <<>>)'
    BY <1>4, <2>1, <2>2, <2>5, <2>6, <2>7 DEF HasRead, Same, Taken
  <2>9. Done(0, <<>>)'
    BY <2>8 DEF Done
  <2> QED BY <1>1, <1>9, <2>9, EffectAnswers
<1>10. ASSUME NEW i, i = file.of_inumber,
              NEW count, count = ReadCount(inode_table[i].i_size, file.of_offset, len),
              file # NoFile, count > 0,
              call' = [call EXCEPT ![t].inum = i, ![t].count = count],
              Goto(t, "deliver")
       PROVE  EffectInv'
  <2>1. PICK pos \in 0 .. BLOCK_SIZE, size \in 0 .. BLOCK_SIZE :
               /\ i \in Inodes /\ pos = file.of_offset
               /\ size = inode_table[i].i_size /\ pos <= size
    BY <1>8, <1>10
  <2>2. count \in 1 .. BLOCK_SIZE
    BY <1>10, <2>1 DEF ReadCount
  <2>3. PICK mine : mine = [c EXCEPT !.inum = i, !.count = count]
    OBVIOUS
  <2>4. /\ mine \in Call /\ mine.inum = i /\ mine.count = count /\ mine.data = NoData
        /\ mine.fhandle = h /\ mine.len = len
    <3>1. i \in Inodes \cup {-1} /\ count \in 0 .. BLOCK_SIZE
      BY <2>1, <2>2
    <3> QED BY <1>3, <1>4, <1>5, <2>3, <3>1 DEF Call
  <2>5. call' = [call EXCEPT ![t] = mine] /\ pc' = [pc EXCEPT ![t] = "deliver"]
    BY <1>2, <1>10, <2>3 DEF Goto
  <2>6. file = open_file_table'[h] /\ inode_table'[i] = inode_table[i]
    BY <1>1, <1>6 DEF tables
  <2>7. Effect("deliver", mine)'
    BY <1>4, <1>10, <2>4, <2>6 DEF Effect, ReadCount
  <2> QED BY <1>1, <2>4, <2>5, <2>7, EffectMoves DEF Steps
<1> QED BY <1>2, <1>3, <1>5, <1>6, <1>7, <1>9, <1>10 DEF ReadStart, ReadCount
LEMMA BytesTyped ==
    ASSUME NEW block \in [Offsets -> Contents],
           NEW pos \in 0 .. BLOCK_SIZE, NEW count \in 0 .. BLOCK_SIZE,
           pos + count <= BLOCK_SIZE,
           NEW data, data = BytesFrom(block, pos, count)
    PROVE  data \in Delivered
<1> USE Constants
<1>1. \A k \in 0 .. count - 1 : pos + k \in Offsets
  BY DEF Offsets
<1>2. data \in [0 .. count - 1 -> Contents]
  BY <1>1 DEF BytesFrom
<1> QED BY <1>2 DEF Delivered

LEMMA EffectDeliver ==
    ASSUME IInv, EffectInv, NEW t \in Threads, Deliver(t)
    PROVE  EffectInv'
<1> USE Constants
<1>1. /\ pc[t] = "deliver" /\ pc[t] # "idle" /\ UNCHANGED before
      /\ UNCHANGED <<freeinode_ts, inode_table, free_blocks, fs_data, dir>>
  BY DEF Deliver, Stay
<1>2. PICK c \in Call : /\ c = call[t] /\ Effect("deliver", c) /\ BeforeTyped
                        /\ call \in [Threads -> Call]
                        /\ HolderInv(t) /\ TablesInv /\ TablesType
  BY <1>1, InStep
<1>3. c.data = NoData /\ Same /\ Rest /\ Reading(t)
  BY <1>1, <1>2 DEF Effect, HolderInv
<1>4. PICK h \in Handles, i \in Inodes : /\ h = c.fhandle /\ i = c.inum
                                         /\ open_file_table[h].of_inumber = i
  BY <1>2, <1>3 DEF Reading, Transfer
<1>5. open_file_table[h] # NoFile
  BY <1>4 DEF NoFile
<1>6. PICK pos \in 0 .. BLOCK_SIZE, size \in 0 .. BLOCK_SIZE :
               /\ pos = open_file_table[h].of_offset
               /\ size = inode_table[i].i_size
               /\ pos <= size
               /\ handles[h] = [file |-> i, pos |-> pos]
               /\ handles[h].file = i /\ handles[h].pos = pos
               /\ handles[h] # None
               /\ HasBytes(i)
  <2>1. PICK j \in Inodes, pos \in 0 .. BLOCK_SIZE, size \in 0 .. BLOCK_SIZE :
               /\ j = open_file_table[h].of_inumber
               /\ pos = open_file_table[h].of_offset
               /\ size = inode_table[j].i_size
               /\ pos <= size
               /\ handles[h] = [file |-> j, pos |-> pos]
               /\ handles[h].file = j /\ handles[h].pos = pos
               /\ handles[h] # None
               /\ HasBytes(j)
    BY <1>2, <1>3, <1>5, HandleShown DEF Same
  <2>2. i = j
    BY <1>4, <2>1
  <2> QED BY <2>1, <2>2
<1>7. PICK len \in 0 .. MAX_LEN : len = c.len
  BY DEF Call
<1>8. PICK count : count = c.count /\ count = ReadCount(size, pos, len)
  BY <1>2, <1>4, <1>6, <1>7 DEF Effect, ReadCount
<1>9. PICK b, block : b = inode_table[i].i_data_block /\ block = fs_data[b]
  OBVIOUS
<1>10. PICK all, d, data : /\ all = bytes[i] /\ d = Taken(all, pos, len)
                           /\ data = BytesFrom(block, pos, count)
  OBVIOUS
<1>11. all \in Seq(Contents) /\ Len(all) = size /\ Holds(all, block)
  BY <1>3, <1>6, <1>9, <1>10 DEF HasBytes, Holds, Same, SameBytes
<1>12. /\ count \in 0 .. BLOCK_SIZE /\ pos + count <= size
       /\ d \in Seq(Contents) /\ Len(d) = count
       /\ BytesRead(data) = d
  <2>1. len \in 0 .. MAX_LEN /\ pos \in 0 .. BLOCK_SIZE /\ size \in 0 .. BLOCK_SIZE
    OBVIOUS
  <2>2. /\ count \in 0 .. BLOCK_SIZE /\ pos + count <= size
        /\ d \in Seq(Contents) /\ Len(d) = count /\ Follows(d, all, pos)
    BY ONLY <1>6, <1>8, <1>10, <1>11, <2>1, BytesTaken
  <2>3. BytesRead(data) = d
    BY ONLY <1>10, <1>11, <2>1, <2>2, BytesGiven
  <2> QED BY <2>2, <2>3
<1>13. PICK end : end = pos + count
  OBVIOUS
<1>14. /\ open_file_table' = [open_file_table EXCEPT ![h].of_offset = end]
       /\ call' = [call EXCEPT ![t].ret = count, ![t].data = data]
       /\ pc' = [pc EXCEPT ![t] = "unlock"]
       /\ b \in Blocks
  BY <1>2, <1>4, <1>6, <1>8, <1>9, <1>10, <1>13 DEF Deliver, BytesFrom, Goto
<1>15. PICK mine : mine = [c EXCEPT !.ret = count, !.data = data]
  OBVIOUS
<1>16. /\ mine \in Call /\ mine.ret = count /\ mine.data = data
       /\ call' = [call EXCEPT ![t] = mine]
  <2>1. call' = [call EXCEPT ![t] = mine]
    BY <1>2, <1>14, <1>15
  <2>2. block \in [Offsets -> Contents]
    BY <1>2, <1>9, <1>14 DEF TablesType
  <2>3. data \in Delivered
    <3>1. pos + count <= BLOCK_SIZE /\ pos \in 0 .. BLOCK_SIZE
      BY <1>6, <1>12
    <3> QED BY ONLY <1>10, <1>12, <2>2, <3>1, BytesTyped
  <2>4. count \in Int
    BY <1>12
  <2> QED BY <1>15, <2>1, <2>3, <2>4 DEF Call
<1>17. /\ names' = names /\ bytes' = bytes /\ handles' = handles
       /\ NamesNow' = NamesNow /\ BytesNow' = BytesNow
  BY <1>1, ViewsKept
<1>18. HandlesNow' = [handles EXCEPT ![h].pos = pos + Len(d)]
  <2>1. /\ i = open_file_table[h].of_inumber
        /\ handles[h] = [file |-> i, pos |-> open_file_table[h].of_offset]
    BY <1>4, <1>6
  <2>2. HandlesNow' = [handles EXCEPT ![h].pos = end]
    BY <1>2, <1>3, <1>5, <1>14, <2>1, CursorMoves DEF Same
  <2> QED BY <1>12, <1>13, <2>2
<1>19. HasRead(h, len, count, d)'
  BY <1>3, <1>6, <1>10, <1>12, <1>17, <1>18 DEF HasRead, Same, SameNames, SameBytes, Taken
<1>20. Done(mine.ret, BytesRead(mine.data))'
  <2>1. PICK q, given : q = mine.ret /\ given = BytesRead(mine.data)
    OBVIOUS
  <2>2. q = count /\ given = d
    BY <1>12, <1>16, <2>1
  <2>3. Done(q, given)'
    BY <1>19, <2>2 DEF Done
  <2> QED BY <2>1, <2>3
<1>21. Effect("unlock", mine)'
  BY <1>16, <1>20 DEF Effect
<1> QED BY <1>1, <1>14, <1>16, <1>21, EffectMoves DEF Steps

(***************************************************************************)
(* Every step                                                              *)
(***************************************************************************)
LEMMA DoneKept ==
    ASSUME names' = names, bytes' = bytes, handles' = handles,
           NamesNow' = NamesNow, BytesNow' = BytesNow, HandlesNow' = HandlesNow,
           NEW r, NEW d, Done(r, d)
    PROVE  Done(r, d)'
<1> USE DEF SameNames, SameBytes, SameHandles, Same
<1>1. CASE Refused(r, d)
  BY <1>1 DEF Done, Refused
<1>2. ASSUME NEW n \in Names, NEW mode \in Modes, HasOpened(n, mode, r, d)
      PROVE  Done(r, d)'
  <2>1. HasOpened(n, mode, r, d)'
    BY <1>2 DEF HasOpened, Located, Fresh
  <2> QED BY <2>1 DEF Done
<1>3. ASSUME NEW h \in Handles, HasClosed(h, r, d) PROVE Done(r, d)'
  <2>1. HasClosed(h, r, d)'
    BY <1>3 DEF HasClosed
  <2> QED BY <2>1 DEF Done
<1>4. ASSUME NEW h \in Handles, NEW data \in Promise!Data, HasWritten(h, data, r, d)
      PROVE  Done(r, d)'
  <2>1. HasWritten(h, data, r, d)'
    BY <1>4 DEF HasWritten
  <2> QED BY <2>1 DEF Done
<1>5. ASSUME NEW h \in Handles, NEW len \in 0 .. MAX_LEN, HasRead(h, len, r, d)
      PROVE  Done(r, d)'
  <2>1. HasRead(h, len, r, d)'
    BY <1>5 DEF HasRead
  <2> QED BY <2>1 DEF Done
<1>6. ASSUME NEW n \in Names, HasUnlinked(n, r, d) PROVE Done(r, d)'
  <2>1. HasUnlinked(n, r, d)'
    BY <1>6 DEF HasUnlinked
  <2> QED BY <2>1 DEF Done
<1> QED BY <1>1, <1>2, <1>3, <1>4, <1>5, <1>6 DEF Done

LEMMA EffectNext == ASSUME IInv, IInv', EffectInv, [Next]_vars PROVE EffectInv'
<1>1. CASE UNCHANGED vars
  <2>1. /\ UNCHANGED <<pc, call, before, freeinode_ts, inode_table, fs_data, dir,
                       open_file_table>>
    BY <1>1 DEF vars, tables
  <2>2. /\ names' = names /\ bytes' = bytes /\ handles' = handles
        /\ NamesNow' = NamesNow /\ BytesNow' = BytesNow /\ HandlesNow' = HandlesNow
    BY <2>1, ViewsKept
  <2>3. SUFFICES ASSUME NEW t \in Threads, pc'[t] # "idle"
                 PROVE  BeforeTyped' /\ \E s \in {pc'[t]}, c \in {call'[t]} : Effect(s, c)'
    BY DEF EffectInv
  <2>4. PICK step, c : step = pc[t] /\ c = call[t]
    OBVIOUS
  <2>5. BeforeTyped /\ Effect(step, c)
    BY <2>1, <2>3, <2>4, EffectNow
  <2>6. PICK r, d : r = c.ret /\ d = BytesRead(c.data)
    OBVIOUS
  <2>8. Done(r, d) => Done(r, d)'
    BY <2>2, DoneKept
  <2>7. Effect(step, c)'
    BY <2>1, <2>2, <2>5, <2>6, <2>8 DEF Effect, Located, Fresh, Same, SameNames, SameBytes,
       SameHandles, HalfWritten
  <2> QED BY <2>1, <2>2, <2>4, <2>5, <2>7 DEF BeforeTyped
<1>2. ASSUME NEW t \in Threads, Begin(t) PROVE EffectInv'
  BY <1>2, EffectBegins
<1>3. ASSUME NEW t \in Threads, Step(t) PROVE EffectInv'
  <2>1. CASE OpenFind(t) \/ Truncate(t) \/ InodeAlloc(t) \/ InodeCreate(t)
    BY <2>1, EffectOpenFind, EffectTruncate, EffectInodeAlloc, EffectInodeCreate
  <2>2. CASE AddDirEntry(t) \/ OpenUndo(t) \/ AddToOpenFileTable(t) \/ CloseFree(t)
    BY <2>2, EffectAddDirEntry, EffectOpenUndo, EffectAddToOpenFileTable, EffectCloseFree
  <2>3. CASE WriteStart(t) \/ BlockAlloc(t) \/ Copy(t) \/ Advance(t)
    BY <2>3, EffectWriteStart, EffectBlockAlloc, EffectCopy, EffectAdvance
  <2>4. CASE ReadStart(t) \/ Deliver(t)
    BY <2>4, EffectReadStart, EffectDeliver
  <2>5. CASE UnlinkFind(t) \/ UnlinkDelete(t) \/ UnlinkClear(t) \/ Unlock(t)
    BY <2>5, EffectUnlinkFind, EffectUnlinkDelete, EffectUnlinkClear, EffectEnds
  <2> QED BY <1>3, <2>1, <2>2, <2>3, <2>4, <2>5 DEF Step
<1> QED BY <1>1, <1>2, <1>3 DEF Next

\* Every call in progress has done to the tables what its step says.
THEOREM CallsTakeEffect == Spec => []EffectInv
<1>1. Init => EffectInv
  BY DEF Init, EffectInv
<1>2. IInv /\ IInv' /\ EffectInv /\ [Next]_vars => EffectInv'
  BY EffectNext
<1> QED BY <1>1, <1>2, TablesConsistent, PTL DEF Spec

(***************************************************************************)
(* The mapping to AbstractFS                                               *)
(***************************************************************************)
\* A call is seen when it unlocks the mutex.
Hidden == UNCHANGED Shown /\ UNCHANGED <<ret, buf>>

LEMMA HiddenMaps == Hidden => UNCHANGED Promise!avars
BY DEF Hidden, Promise!avars, NamesIn, Inode, BytesIn, BytesOf, HandlesIn, BytesRead

LEMMA LockHidden ==
    ASSUME NEW t \in Threads, Begin(t)
    PROVE  Hidden
<1>1. PICK step, args : Lock(t, step, args)
  BY DEF Begin, Open, Unlink, Close, Write, Read
<1>2. /\ g_library_mutex = NoThread /\ g_library_mutex' = t /\ before' = Snapshot
      /\ UNCHANGED <<ret, buf>>
  BY <1>1 DEF Lock
<1>3. Shown = Snapshot /\ Shown' = Snapshot
  BY <1>2, Constants DEF Shown
<1> QED BY <1>2, <1>3 DEF Hidden

LEMMA StepHidden ==
    ASSUME IInv, NEW t \in Threads, Step(t), ~Unlock(t)
    PROVE  Hidden
<1>1. pc[t] # "idle" /\ Stay
  BY DEF Step, OpenFind, Truncate, InodeAlloc, InodeCreate, AddDirEntry, OpenUndo,
     AddToOpenFileTable, CloseFree, WriteStart, BlockAlloc, Copy, Advance, ReadStart,
     Deliver, UnlinkFind, UnlinkDelete, UnlinkClear
<1>2. g_library_mutex = t
  BY <1>1, Holder
<1>3. UNCHANGED <<g_library_mutex, before, ret, buf>>
  BY <1>1 DEF Stay
<1>4. Shown = before /\ Shown' = before
  BY <1>2, <1>3, Constants DEF Shown
<1> QED BY <1>3, <1>4 DEF Hidden

\* What the caller sees at the unlocking.
Seen(r, d) ==
    /\ NamesIn(Shown) = names /\ NamesIn(Shown)' = NamesNow
    /\ BytesIn(Shown) = bytes /\ BytesIn(Shown)' = BytesNow
    /\ HandlesIn(Shown) = handles /\ HandlesIn(Shown)' = HandlesNow
    /\ ret' = r /\ BytesRead(buf)' = d

LEMMA UnlockSeen ==
    ASSUME IInv, NEW t \in Threads, Unlock(t),
           NEW c, c = call[t]
    PROVE  Seen(c.ret, BytesRead(c.data))
<1>1. g_library_mutex = t
  BY Holder DEF Unlock
<1>2. g_library_mutex' = NoThread /\ UNCHANGED tables /\ ret' = c.ret /\ buf' = c.data
  BY DEF Unlock
<1>3. Shown = before /\ Shown' = Snapshot'
  BY <1>1, <1>2, Constants DEF Shown
<1>4. Shown' = Snapshot
  BY <1>2, <1>3 DEF Snapshot, tables
<1>5. NamesIn(Shown) = names /\ BytesIn(Shown) = bytes /\ HandlesIn(Shown) = handles
  BY <1>3 DEF names, bytes, handles
<1>6. /\ NamesIn(Shown)' = NamesNow /\ BytesIn(Shown)' = BytesNow
      /\ HandlesIn(Shown)' = HandlesNow
  BY <1>4 DEF NamesNow, BytesNow, HandlesNow, NamesIn, Inode, BytesIn, BytesOf, HandlesIn
<1>7. BytesRead(buf)' = BytesRead(c.data)
  BY <1>2 DEF BytesRead
<1> QED BY <1>2, <1>5, <1>6, <1>7 DEF Seen

LEMMA UnlockMaps ==
    ASSUME NEW r, NEW d, Done(r, d), Seen(r, d)
    PROVE  Promise!Next
<1> USE DEF Promise!Answer
<1>1. CASE Refused(r, d)
  <2>1. Promise!Refuse
    BY <1>1 DEF Refused, Seen, Same, SameNames, SameBytes, SameHandles, Promise!Refuse
  <2> QED BY <2>1 DEF Promise!Next
<1>2. ASSUME NEW n \in Names, NEW mode \in Modes, HasOpened(n, mode, r, d)
      PROVE  Promise!Next
  <2>1. PICK i \in Inodes, pos \in 0 .. BLOCK_SIZE :
          /\ Located(n, mode, i, pos)
          /\ \/ /\ r \in Handles /\ handles[r] = None
                /\ HandlesNow = [handles EXCEPT ![r] = [file |-> i, pos |-> pos]]
             \/ r = -1 /\ SameHandles
    BY <1>2 DEF HasOpened
  <2>2. Promise!Grant(i, pos, r)
    BY <2>1 DEF Promise!Grant, Seen, SameHandles
  <2>3. Promise!OpenTo(n, mode, r)
    <3>1. NamesIn(Shown) = names /\ NamesIn(Shown)' = NamesNow
      BY DEF Seen
    <3>2. BytesIn(Shown) = bytes /\ BytesIn(Shown)' = BytesNow
      BY DEF Seen
    <3>3. i # None /\ n \in Names
      BY LockedAssumption DEF Inodes
    <3>4. ASSUME names[n] = i, SameNames,
                 NEW all, all = (IF "TFS_O_TRUNC" \in mode THEN <<>> ELSE bytes[i]),
                 BytesNow = [bytes EXCEPT ![i] = all],
                 pos = IF "TFS_O_APPEND" \in mode THEN Len(all) ELSE 0
          PROVE  Promise!OpenOld(n, mode, r)
      <4>1. Promise!Resolve(n) = i
        BY <3>1, <3>4 DEF Promise!Resolve
      <4> QED BY <2>2, <3>1, <3>2, <3>3, <3>4, <4>1 DEF Promise!OpenOld, SameNames
    <3>5. ASSUME names[n] = None, "TFS_O_CREAT" \in mode, Fresh(i),
                 NamesNow = [names EXCEPT ![n] = i],
                 BytesNow = [bytes EXCEPT ![i] = <<>>], pos = 0
          PROVE  Promise!OpenNew(n, mode, r)
      <4>1. Promise!Unused(i)
        BY <3>1, <3>5 DEF Promise!Unused, Promise!NamesOf, Fresh, Seen
      <4>2. ~Promise!Exists(n)
        BY <3>1, <3>5 DEF Promise!Exists
      <4> QED BY <2>2, <3>1, <3>2, <3>5, <4>1, <4>2 DEF Promise!OpenNew
    <3> QED BY <2>1, <3>4, <3>5 DEF Located, Promise!OpenTo
  <2>4. Promise!Open(n, mode)
    BY <1>2, <2>1, <2>3 DEF Promise!Open, HasOpened, Seen
  <2> QED BY <2>4 DEF Promise!Next, Promise!Modes, Modes
<1>3. ASSUME NEW h \in Handles, HasClosed(h, r, d) PROVE Promise!Next
  <2>1. Promise!Close(h)
    BY <1>3 DEF HasClosed, Seen, SameNames, SameBytes, Promise!Close
  <2> QED BY <2>1 DEF Promise!Next
<1>4. ASSUME NEW h \in Handles, NEW data \in Promise!Data, HasWritten(h, data, r, d)
      PROVE  Promise!Next
  <2>1. Promise!Write(h, data)
    BY <1>4 DEF HasWritten, Seen, SameNames, Promise!Write, Promise!Put
  <2> QED BY <2>1 DEF Promise!Next
<1>5. ASSUME NEW h \in Handles, NEW len \in 0 .. MAX_LEN, HasRead(h, len, r, d)
      PROVE  Promise!Next
  <2>1. Promise!Read(h, len)
    BY <1>5 DEF HasRead, Seen, SameNames, SameBytes, Promise!Read
  <2> QED BY <2>1 DEF Promise!Next
<1>6. ASSUME NEW n \in Names, HasUnlinked(n, r, d) PROVE Promise!Next
  <2>1. Promise!Unlink(n)
    BY <1>6 DEF HasUnlinked, Seen, SameHandles, Promise!Unlink, Promise!NamesOf
  <2> QED BY <2>1 DEF Promise!Next
<1> QED BY <1>1, <1>2, <1>3, <1>4, <1>5, <1>6 DEF Done

LEMMA InitMaps == ASSUME Init PROVE Promise!Init
<1> USE Constants
<1>1. TablesInv
  BY InitProof DEF IInv
<1>2. Shown = Snapshot
  BY DEF Init, Shown
<1>3. PICK left \in [Slots -> StaleNames \cup {NoName}] :
          dir = [s \in Slots |-> [d_name |-> left[s], d_inumber |-> -1]]
  BY DEF Init
<1>4. NamesNow = [n \in Names |-> None]
  <2>1. \A n \in Names : NamesNow[n] = None
    BY <1>3, NameMissing DEF Entry
  <2> QED BY <2>1, Shapes DEF Shaped
<1>5. BytesNow = [i \in Inodes |-> <<>>]
  <2>1. \A i \in Inodes : BytesNow[i] = <<>>
    BY BytesAre DEF Init, BytesShown
  <2> QED BY <2>1, Shapes DEF Shaped
<1>6. HandlesNow = [h \in Handles |-> None]
  <2>1. \A h \in Handles : HandlesNow[h] = None
    BY HandleFree DEF Init
  <2> QED BY <2>1, Shapes DEF Shaped
<1>7. ret = 0 /\ BytesRead(buf) = <<>>
  BY NoBytesRead DEF Init
<1> QED BY <1>2, <1>4, <1>5, <1>6, <1>7 DEF Promise!Init, NamesNow, BytesNow, HandlesNow

LEMMA StepMaps == ASSUME IInv, EffectInv, [Next]_vars PROVE [Promise!Next]_(Promise!avars)
<1>1. CASE UNCHANGED vars
  <2>1. Hidden
    BY <1>1 DEF Hidden, Shown, Snapshot, vars, tables
  <2> QED BY <2>1, HiddenMaps
<1>2. ASSUME NEW t \in Threads, Begin(t) PROVE [Promise!Next]_(Promise!avars)
  BY <1>2, LockHidden, HiddenMaps
<1>3. ASSUME NEW t \in Threads, Unlock(t) PROVE [Promise!Next]_(Promise!avars)
  <2>1. PICK step, c : step = pc[t] /\ c = call[t]
    OBVIOUS
  <2>2. step = "unlock" /\ step # "idle"
    BY <1>3, <2>1 DEF Unlock
  <2>3. Done(c.ret, BytesRead(c.data))
    <3>1. Effect(step, c)
      BY <2>1, <2>2, EffectNow
    <3>2. step = "unlock" => Done(c.ret, BytesRead(c.data))
      BY <3>1 DEF Effect
    <3> QED BY <2>2, <3>2
  <2>4. Seen(c.ret, BytesRead(c.data))
    BY <1>3, <2>1, UnlockSeen
  <2> QED BY <2>3, <2>4, UnlockMaps
<1>4. ASSUME NEW t \in Threads, Step(t), ~Unlock(t) PROVE [Promise!Next]_(Promise!avars)
  BY <1>4, StepHidden, HiddenMaps
<1> QED BY <1>1, <1>2, <1>3, <1>4 DEF Next

\* Whatever the threads call at once, the calls of Projeto2's library do what
\* AbstractFS promises, one after the other in the order they unlock
\* g_library_mutex, and no caller sees the tables between two steps of a call.
THEOREM OverlappingCallsKeepPromise == Spec => KeepsPromise
<1>1. Init => Promise!Init
  BY InitMaps
<1>2. IInv /\ EffectInv /\ [Next]_vars => [Promise!Next]_(Promise!avars)
  BY StepMaps
<1> QED BY <1>1, <1>2, TablesConsistent, CallsTakeEffect, PTL
        DEF Spec, KeepsPromise, Promise!Spec
=============================================================================
