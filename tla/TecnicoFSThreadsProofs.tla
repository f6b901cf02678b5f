------------------------ MODULE TecnicoFSThreadsProofs ------------------------
(***************************************************************************)
(* Proof that a handle of Projeto1 is given to one thread only, for any    *)
(* number of threads, tables of any size and any interleaving of their     *)
(* calls: the mutex of state.c excludes although the others do not.        *)
(***************************************************************************)
EXTENDS TecnicoFSThreads, TLAPS

(***************************************************************************)
(* The inductive invariant                                                 *)
(***************************************************************************)
Local == [name : Names \cup {NoName}, inum : Int, k : Nat, fhandle : Int]

\* Between locking open_file_allocation_table_mutex and unlocking it.
Inside == {"slot_test", "slot_take", "slot_fill", "opened", "full",
           "close_free", "close_unlock"}

Outside == {"idle", "find", "found", "create", "inode_test", "inode_take",
            "inode_create", "inode_reset", "entry_test", "entry_number",
            "entry_name",
            "inode_delete", "inode_size", "block_give", "inode_give", "fail",
            "lock", "write", "block_test", "block_take", "block_set", "copy", "advance", "grow", "close", "close_lock"}

\* Types of what a handle is made from, and the indexes a step is about to use.
LocalsInv ==
    /\ dir \in [Slots -> [d_name : Names \cup {NoName}, d_inumber : Int]]
    /\ open_file_table \in
           [Handles -> [of_inumber : Int, of_offset : Int, name : Names \cup {NoName}]]
    /\ pc \in [Threads -> Inside \cup Outside]
    /\ local \in [Threads -> Local]
    /\ \A t \in Threads : /\ pc[t] = "found" => local[t].k \in Slots
                          /\ pc[t] = "write" => local[t].fhandle \in Handles

MutexInv == \A t \in Threads : pc[t] \in Inside => mutex = t

\* The entry a thread is about to take is free; the one it has taken and not
\* returned is nobody's handle yet.
HandlesInv ==
    /\ free_open_file_entries \in [Handles -> {"FREE", "TAKEN"}]
    /\ held \in [Threads -> SUBSET Handles]
    /\ HandlesExclusive
    /\ \A t \in Threads : pc[t] = "slot_take" =>
          /\ local[t].k \in Handles
          /\ free_open_file_entries[local[t].k] = "FREE"
    /\ \A t \in Threads : pc[t] \in {"slot_fill", "opened"} =>
          /\ local[t].k \in Handles
          /\ free_open_file_entries[local[t].k] = "TAKEN"
          /\ \A u \in Threads : local[t].k \notin held[u]

IInv == LocalsInv /\ MutexInv /\ HandlesInv

\* The sizes of the tables and the variables of a call that begins.
LEMMA Constants ==
    /\ MAX_INODES \in Nat /\ MAX_BLOCKS \in Nat /\ MAX_OPEN_FILES \in Nat
    /\ MAX_DIR_ENTRIES \in Nat
    /\ NoThread \notin Threads
    /\ Handles \subseteq Nat
    /\ NoCall \in Local
    /\ Inside \cap Outside = {}
BY ThreadsAssumption DEF Handles, NoCall, Local, Inside, Outside

(***************************************************************************)
(* Steps outside the mutex                                                 *)
(***************************************************************************)
\* What all of them do: thread t moves, from outside to outside.
OutsideStep(t) ==
    /\ pc[t] \in Outside /\ pc'[t] \in Outside
    /\ \A u \in Threads \ {t} : pc'[u] = pc[u] /\ local'[u] = local[u]
    /\ UNCHANGED <<free_open_file_entries, mutex, held>>

LEMMA OutsideKeeps ==
    ASSUME IInv, LocalsInv', NEW t \in Threads, OutsideStep(t)
    PROVE  IInv'
<1> USE Constants
<1>1. MutexInv'
  BY DEF IInv, MutexInv, OutsideStep
<1>2. HandlesInv'
  <2>1. HandlesExclusive'
    BY DEF IInv, HandlesInv, HandlesExclusive, OutsideStep
  <2>2. \A u \in Threads : pc'[u] \in Inside =>
            pc'[u] = pc[u] /\ local'[u] = local[u]
    BY DEF OutsideStep
  <2> QED BY <2>1, <2>2 DEF IInv, HandlesInv, OutsideStep, Inside
<1> QED BY <1>1, <1>2 DEF IInv

\* Thread t goes to step with the variables mine.
LEMMA OutsideMoves ==
    ASSUME IInv, NEW t \in Threads, NEW step \in Outside, NEW mine \in Local,
           pc[t] \in Outside,
           step = "found" => mine.k \in Slots,
           step = "write" => mine.fhandle \in Handles,
           pc' = [pc EXCEPT ![t] = step],
           local' = [local EXCEPT ![t] = mine],
           UNCHANGED <<dir, open_file_table>>,
           UNCHANGED <<free_open_file_entries, mutex, held>>
    PROVE  IInv'
<1>1. /\ pc \in [Threads -> Inside \cup Outside] /\ local \in [Threads -> Local]
      /\ \A u \in Threads : /\ pc[u] = "found" => local[u].k \in Slots
                            /\ pc[u] = "write" => local[u].fhandle \in Handles
  BY DEF IInv, LocalsInv
<1>2. /\ pc' \in [Threads -> Inside \cup Outside] /\ local' \in [Threads -> Local]
      /\ pc'[t] = step /\ local'[t] = mine
      /\ \A u \in Threads \ {t} : pc'[u] = pc[u] /\ local'[u] = local[u]
  BY <1>1
<1>3. \A u \in Threads : /\ pc'[u] = "found" => local'[u].k \in Slots
                         /\ pc'[u] = "write" => local'[u].fhandle \in Handles
  BY <1>1, <1>2
<1>4. LocalsInv'
  BY <1>2, <1>3 DEF IInv, LocalsInv, Slots, Handles
<1>5. OutsideStep(t)
  BY <1>2 DEF OutsideStep
<1> QED BY <1>4, <1>5, OutsideKeeps

\* A call begins.
LEMMA CallsStep ==
    ASSUME IInv, NEW t \in Threads, NEW step \in {"find", "write", "close"},
           NEW call \in Local, step = "write" => call.fhandle \in Handles,
           Calls(t, step, call)
    PROVE  IInv'
<1>1. /\ pc[t] = "idle"
      /\ pc' = [pc EXCEPT ![t] = step]
      /\ local' = [local EXCEPT ![t] = call]
      /\ UNCHANGED <<dir, free_open_file_entries, open_file_table, mutex, held>>
  BY DEF Calls, At, Goto, files, opens
<1>2. step \in Outside /\ step # "found" /\ pc[t] \in Outside
  BY <1>1 DEF Outside
<1> QED BY <1>1, <1>2, OutsideMoves

\* A step that changes no variable of its call.
LEMMA MoveStep ==
    ASSUME IInv, NEW t \in Threads, NEW step \in Outside,
           pc[t] \in Outside,
           step = "found" => local[t].k \in Slots, step # "write",
           pc' = [pc EXCEPT ![t] = step],
           UNCHANGED <<local, dir, open_file_table>>,
           UNCHANGED <<free_open_file_entries, mutex, held>>
    PROVE  IInv'
<1>1. local[t] \in Local /\ local' = [local EXCEPT ![t] = local[t]]
  BY DEF IInv, LocalsInv
<1> QED BY <1>1, OutsideMoves

\* The calls' loops over the tables of inodes, entries and blocks.
LEMMA LoopSteps ==
    ASSUME IInv, NEW t \in Threads,
           Find(t) \/ InodeTest(t) \/ EntryTest(t) \/ BlockTest(t)
    PROVE  IInv'
<1> USE Constants
<1>1. /\ pc[t] \in {"find", "inode_test", "entry_test", "block_test"}
      /\ UNCHANGED <<dir, open_file_table, free_open_file_entries, mutex, held>>
  BY DEF Find, InodeTest, EntryTest, BlockTest, At, Loop, files, opens, client
<1>2. local[t] \in Local /\ local[t].k \in Nat
  BY DEF IInv, LocalsInv, Local
<1>3. \/ /\ pc' = pc
         /\ local' = [local EXCEPT ![t].k = @ + 1]
      \/ /\ UNCHANGED local
         /\ \E step \in {"create", "inode_take", "fail", "entry_number",
                         "inode_delete", "block_take"} :
                pc' = [pc EXCEPT ![t] = step]
      \/ /\ UNCHANGED local
         /\ pc' = [pc EXCEPT ![t] = "found"] /\ local[t].k \in Slots
  <2>1. CASE Find(t)
    BY <1>2, <2>1 DEF Find, Loop, Goto, Slots
  <2>2. CASE InodeTest(t) \/ EntryTest(t) \/ BlockTest(t)
    BY <1>2, <2>2 DEF InodeTest, EntryTest, BlockTest, Loop, Goto
  <2> QED BY <2>1, <2>2
<1>4. CASE pc' = pc /\ local' = [local EXCEPT ![t].k = @ + 1]
  <2> DEFINE mine == [local[t] EXCEPT !.k = @ + 1]
  <2>1. mine \in Local /\ local' = [local EXCEPT ![t] = mine]
    <3>1. local[t].k + 1 \in Nat
      BY <1>2
    <3>2. mine \in Local
      BY <1>2, <3>1 DEF Local
    <3>3. local' = [local EXCEPT ![t] = mine]
      BY <1>2, <1>4 DEF IInv, LocalsInv
    <3> QED BY <3>2, <3>3
  <2>2. pc' = [pc EXCEPT ![t] = pc[t]]
    BY <1>4 DEF IInv, LocalsInv
  <2>3. pc[t] \in Outside /\ pc[t] # "found" /\ pc[t] # "write"
    BY <1>1 DEF Outside
  <2> HIDE DEF mine
  <2> QED BY <1>1, <2>1, <2>2, <2>3, OutsideMoves
<1>5. ASSUME UNCHANGED local,
             NEW step \in {"create", "inode_take", "fail", "entry_number",
                           "inode_delete", "block_take"},
             pc' = [pc EXCEPT ![t] = step]
      PROVE  IInv'
  <2>1. step \in Outside /\ step # "found" /\ step # "write"
    BY DEF Outside
  <2>2. pc[t] \in Outside
    BY <1>1 DEF Outside
  <2> QED BY <1>1, <1>5, <2>1, <2>2, MoveStep
<1>6. CASE /\ UNCHANGED local
           /\ pc' = [pc EXCEPT ![t] = "found"] /\ local[t].k \in Slots
  <2>1. pc[t] \in Outside /\ "found" \in Outside
    BY <1>1 DEF Outside
  <2> QED BY <1>1, <1>6, <2>1, MoveStep
<1> QED BY <1>3, <1>4, <1>5, <1>6

\* Steps that only move on, or that store in a table of no interest here.
LEMMA PlainSteps ==
    ASSUME IInv, NEW t \in Threads,
           \/ InodeCreate(t) \/ InodeReset(t) \/ InodeDelete(t) \/ InodeSize(t)
           \/ BlockGive(t) \/ InodeGive(t) \/ BlockTake(t) \/ BlockSet(t) \/ Copy(t) \/ CloseStart(t)
    PROVE  IInv'
<1>1. /\ UNCHANGED <<local, dir, open_file_table>>
      /\ UNCHANGED <<free_open_file_entries, mutex, held>>
  BY DEF InodeCreate, InodeReset, InodeDelete, InodeSize, BlockGive, InodeGive, BlockTake,
         BlockSet, Copy, CloseStart, Stay, files, opens, client
<1>2. /\ pc[t] \in {"inode_create", "inode_reset", "inode_delete", "inode_size", "block_give",
                    "inode_give", "block_take", "block_set", "copy", "close"}
      /\ \E step \in {"inode_reset", "entry_test", "inode_size", "block_give",
                      "inode_give", "fail", "block_set", "copy", "advance", "close_lock"} :
            pc' = [pc EXCEPT ![t] = step]
  <2>1. CASE InodeCreate(t)
    BY <2>1 DEF InodeCreate, At, Goto
  <2>2. CASE InodeDelete(t)
    BY <2>2 DEF InodeDelete, At, Goto
  <2>3. CASE BlockTake(t)
    BY <2>3 DEF BlockTake, At, Goto
  <2>4. CASE BlockSet(t)
    BY <2>4 DEF BlockSet, At, Goto
  <2>5. CASE Copy(t)
    BY <2>5 DEF Copy, At, Goto
  <2>6. CASE CloseStart(t)
    BY <2>6 DEF CloseStart, At, Goto
  <2>7. CASE InodeSize(t)
    BY <2>7 DEF InodeSize, At, Goto
  <2>8. CASE BlockGive(t)
    BY <2>8 DEF BlockGive, At, Goto
  <2>9. CASE InodeGive(t)
    BY <2>9 DEF InodeGive, At, Goto
  <2>10. CASE InodeReset(t)
    BY <2>10 DEF InodeReset, At, Goto
  <2> QED BY <2>1, <2>2, <2>3, <2>4, <2>5, <2>6, <2>7, <2>8, <2>9, <2>10
<1>3. PICK step \in {"inode_reset", "entry_test", "inode_size", "block_give",
                    "inode_give", "fail", "block_set", "copy", "advance", "close_lock"} :
        pc' = [pc EXCEPT ![t] = step]
  BY <1>2
<1>4. pc[t] \in Outside /\ step \in Outside /\ step # "found" /\ step # "write"
  BY <1>2 DEF Outside
<1> QED BY <1>1, <1>3, <1>4, MoveStep

\* Steps that set a variable of the call.
LEMMA LocalSteps ==
    ASSUME IInv, NEW t \in Threads,
           \/ Found(t) \/ Create(t) \/ InodeTake(t) \/ Fail(t) \/ Grow(t)
    PROVE  IInv'
<1> USE Constants
<1>1. local[t] \in Local /\ local \in [Threads -> Local]
  BY DEF IInv, LocalsInv
<1>2. /\ UNCHANGED <<dir, open_file_table>>
      /\ UNCHANGED <<free_open_file_entries, mutex, held>>
  BY DEF Found, Create, InodeTake, Fail, Grow, files, opens, client
<1>3. /\ pc[t] \in {"found", "create", "inode_take", "fail", "grow"}
      /\ \E step \in {"lock", "inode_test", "inode_create", "idle"}, mine \in Local :
            pc' = [pc EXCEPT ![t] = step] /\ local' = [local EXCEPT ![t] = mine]
  <2>1. CASE Found(t)
    <3> DEFINE mine == [local[t] EXCEPT !.inum = dir[local[t].k].d_inumber, !.k = 0]
    <3>1. dir[local[t].k].d_inumber \in Int
      BY <2>1 DEF IInv, LocalsInv, Found, At
    <3>2. mine \in Local
      BY <1>1, <3>1 DEF Local
    <3>3. local' = [local EXCEPT ![t] = mine]
      BY <1>1, <2>1 DEF Found
    <3> QED BY <2>1, <3>2, <3>3 DEF Found, At, Goto
  <2>2. CASE Create(t)
    <3> DEFINE mine == [local[t] EXCEPT !.k = 1]
    <3>1. mine \in Local /\ local' = [local EXCEPT ![t] = mine]
      <4>1. mine \in Local
        BY <1>1 DEF Local
      <4>2. local' = [local EXCEPT ![t] = mine]
        BY <1>1, <2>2 DEF Create
      <4> QED BY <4>1, <4>2
    <3> QED BY <2>2, <3>1 DEF Create, At, Goto
  <2>3. CASE InodeTake(t)
    <3> DEFINE mine == [local[t] EXCEPT !.inum = local[t].k, !.k = 0]
    <3>1. local[t].k \in Nat /\ local[t].k \in Int
      BY <1>1 DEF Local
    <3>2. mine \in Local
      BY <1>1, <3>1 DEF Local
    <3>3. local' = [local EXCEPT ![t] = mine]
      BY <1>1, <2>3 DEF InodeTake
    <3> QED BY <2>3, <3>2, <3>3 DEF InodeTake, At, Goto
  <2>4. CASE Fail(t) \/ Grow(t)
    BY <2>4 DEF Fail, Grow, At, Return
  <2> QED BY <2>1, <2>2, <2>3, <2>4
<1>4. PICK step \in {"lock", "inode_test", "inode_create", "idle"}, mine \in Local :
        pc' = [pc EXCEPT ![t] = step] /\ local' = [local EXCEPT ![t] = mine]
  BY <1>3
<1>5. pc[t] \in Outside /\ step \in Outside /\ step # "found" /\ step # "write"
  BY <1>3 DEF Outside
<1> QED BY <1>2, <1>4, <1>5, OutsideMoves

\* The start of a write reads its handle's entry.
LEMMA WriteStartStep ==
    ASSUME IInv, NEW t \in Threads, WriteStart(t)
    PROVE  IInv'
<1> DEFINE file_ == open_file_table[local[t].fhandle]
           mine == [local[t] EXCEPT !.inum = file_.of_inumber, !.name = file_.name,
                                    !.k = 1]
<1>1. /\ pc[t] \in Outside /\ local[t] \in Local /\ local \in [Threads -> Local]
      /\ file_ \in [of_inumber : Int, of_offset : Int, name : Names \cup {NoName}]
  BY DEF IInv, LocalsInv, WriteStart, At, Outside
<1>2. mine \in Local
  BY <1>1 DEF Local
<1>3. /\ UNCHANGED <<dir, open_file_table>>
      /\ UNCHANGED <<free_open_file_entries, mutex, held>>
  BY DEF WriteStart, files, opens, client
<1>4. \/ UNCHANGED local /\ pc' = [pc EXCEPT ![t] = "fail"]
      \/ /\ local' = [local EXCEPT ![t] = mine]
         /\ \E step \in {"block_test", "copy"} : pc' = [pc EXCEPT ![t] = step]
  BY <1>1 DEF WriteStart, Goto, Local
<1>5. CASE UNCHANGED local /\ pc' = [pc EXCEPT ![t] = "fail"]
  BY <1>1, <1>3, <1>5, MoveStep DEF Outside
<1>6. ASSUME local' = [local EXCEPT ![t] = mine],
             NEW step \in {"block_test", "copy"}, pc' = [pc EXCEPT ![t] = step]
      PROVE  IInv'
  <2>1. step \in Outside /\ step # "found" /\ step # "write"
    BY DEF Outside
  <2> HIDE DEF mine
  <2> QED BY <1>1, <1>2, <1>3, <1>6, <2>1, OutsideMoves
<1> QED BY <1>4, <1>5, <1>6

\* Steps that store in the directory or in an entry of the open file table.
LEMMA StoreSteps ==
    ASSUME IInv, NEW t \in Threads, EntryNumber(t) \/ EntryName(t) \/ Advance(t)
    PROVE  IInv'
<1> USE Constants
<1>1. local[t] \in Local
  BY DEF IInv, LocalsInv
<1>2. dir' \in [Slots -> [d_name : Names \cup {NoName}, d_inumber : Int]]
  <2>1. local[t].inum \in Int /\ local[t].name \in Names \cup {NoName}
    BY <1>1 DEF Local
  <2>2. dir \in [Slots -> [d_name : Names \cup {NoName}, d_inumber : Int]]
    BY DEF IInv, LocalsInv
  <2>3. CASE EntryNumber(t)
    BY <2>1, <2>2, <2>3 DEF EntryNumber
  <2>4. CASE EntryName(t)
    BY <2>1, <2>2, <2>4 DEF EntryName
  <2>5. CASE Advance(t)
    BY <2>2, <2>5 DEF Advance, files
  <2> QED BY <2>3, <2>4, <2>5
<1>3. open_file_table' \in
          [Handles -> [of_inumber : Int, of_offset : Int, name : Names \cup {NoName}]]
  BY DEF EntryNumber, EntryName, Advance, opens, IInv, LocalsInv
<1>4. /\ pc[t] \in {"entry_number", "entry_name", "advance"}
      /\ \E step \in {"entry_name", "lock", "grow"} : pc' = [pc EXCEPT ![t] = step]
      /\ UNCHANGED local
      /\ UNCHANGED <<free_open_file_entries, mutex, held>>
  BY DEF EntryNumber, EntryName, Advance, At, Goto, Stay, opens, client
<1>5. PICK step \in {"entry_name", "lock", "grow"} : pc' = [pc EXCEPT ![t] = step]
  BY <1>4
<1>6. pc[t] \in Outside /\ step \in Outside /\ step # "found" /\ step # "write"
  BY <1>4 DEF Outside
<1>7. LocalsInv'
  BY <1>2, <1>3, <1>4, <1>5, <1>6 DEF IInv, LocalsInv
<1>8. OutsideStep(t)
  BY <1>4, <1>5, <1>6 DEF IInv, LocalsInv, OutsideStep
<1> QED BY <1>7, <1>8, OutsideKeeps

(***************************************************************************)
(* Entering the mutex, inside it and leaving it                            *)
(***************************************************************************)
\* Nobody is inside but its holder.
LEMMA Alone ==
    ASSUME IInv, NEW t \in Threads, mutex \in {t, NoThread}
    PROVE  \A u \in Threads \ {t} : pc[u] \notin Inside
BY Constants DEF IInv, MutexInv

\* A step of t into, inside or out of the mutex, with the variables mine.
InsideStep(t, step, mine) ==
    /\ mutex \in {t, NoThread}
    /\ step \in Inside => mutex' = t
    /\ pc' = [pc EXCEPT ![t] = step]
    /\ local' = [local EXCEPT ![t] = mine]
    /\ UNCHANGED dir

LEMMA InsideKeeps ==
    ASSUME IInv, NEW t \in Threads, NEW step \in Inside \cup {"idle", "fail"},
           NEW mine \in Local, InsideStep(t, step, mine),
           open_file_table' \in
             [Handles -> [of_inumber : Int, of_offset : Int, name : Names \cup {NoName}]]
    PROVE  /\ LocalsInv'
           /\ MutexInv'
           /\ pc'[t] = step /\ local'[t] = mine
           /\ \A u \in Threads \ {t} : pc'[u] \notin Inside
<1> USE Constants
<1>1. /\ pc \in [Threads -> Inside \cup Outside] /\ local \in [Threads -> Local]
      /\ \A u \in Threads : /\ pc[u] = "found" => local[u].k \in Slots
                            /\ pc[u] = "write" => local[u].fhandle \in Handles
  BY DEF IInv, LocalsInv
<1>2. step \in Inside \cup Outside /\ step # "found" /\ step # "write"
  BY DEF Inside, Outside
<1>3. /\ pc' \in [Threads -> Inside \cup Outside] /\ local' \in [Threads -> Local]
      /\ pc'[t] = step /\ local'[t] = mine
      /\ \A u \in Threads \ {t} : pc'[u] = pc[u] /\ local'[u] = local[u]
  BY <1>1, <1>2 DEF InsideStep
<1>4. \A u \in Threads : /\ pc'[u] = "found" => local'[u].k \in Slots
                         /\ pc'[u] = "write" => local'[u].fhandle \in Handles
  BY <1>1, <1>2, <1>3
<1>5. LocalsInv'
  BY <1>3, <1>4 DEF IInv, LocalsInv, InsideStep, Slots, Handles
<1>6. \A u \in Threads \ {t} : pc'[u] \notin Inside
  BY <1>3, Alone DEF InsideStep
<1>7. MutexInv'
  BY <1>3, <1>6 DEF MutexInv, InsideStep
<1> QED BY <1>3, <1>5, <1>6, <1>7

\* The two ways in.
LEMMA EnterStep ==
    ASSUME IInv, NEW t \in Threads, Lock(t) \/ CloseLock(t)
    PROVE  IInv'
<1> USE Constants
<1>1. local[t] \in Local /\ local \in [Threads -> Local]
  BY DEF IInv, LocalsInv
<1>2. \E mine \in Local, step \in {"slot_test", "close_free"} : InsideStep(t, step, mine)
  <2>1. CASE Lock(t)
    <3> DEFINE mine == [local[t] EXCEPT !.k = 0]
    <3>1. mine \in Local /\ local' = [local EXCEPT ![t] = mine]
      <4>1. mine \in Local
        BY <1>1 DEF Local
      <4>2. local' = [local EXCEPT ![t] = mine]
        BY <1>1, <2>1 DEF Lock
      <4> QED BY <4>1, <4>2
    <3> QED BY <2>1, <3>1 DEF Lock, Goto, InsideStep, files
  <2>2. CASE CloseLock(t)
    <3>1. local' = [local EXCEPT ![t] = local[t]]
      BY <1>1, <2>2 DEF CloseLock, Stay
    <3> QED BY <1>1, <2>2, <3>1 DEF CloseLock, Goto, InsideStep, files
  <2> QED BY <2>1, <2>2
<1>3. PICK mine \in Local, step \in {"slot_test", "close_free"} : InsideStep(t, step, mine)
  BY <1>2
<1>4. UNCHANGED <<free_open_file_entries, open_file_table, held>>
  BY DEF Lock, CloseLock, Stay, client
<1>5. step \in Inside
  BY DEF Inside
<1>6. /\ LocalsInv' /\ MutexInv'
      /\ pc'[t] = step
      /\ \A u \in Threads \ {t} : pc'[u] \notin Inside
  BY <1>3, <1>4, <1>5, InsideKeeps DEF IInv, LocalsInv
<1>7. HandlesInv'
  BY <1>4, <1>6 DEF IInv, HandlesInv, HandlesExclusive, Inside
<1> QED BY <1>6, <1>7 DEF IInv

\* The two steps that look for a free entry and take it.
LEMMA SlotTestStep ==
    ASSUME IInv, NEW t \in Threads, SlotTest(t)
    PROVE  IInv'
<1> USE Constants
<1>1. /\ pc[t] = "slot_test" /\ mutex = t
      /\ UNCHANGED <<dir, free_open_file_entries, open_file_table, mutex, held>>
  BY DEF IInv, MutexInv, SlotTest, At, Loop, files, opens, client, Inside
<1>2. local[t] \in Local /\ local[t].k \in Nat /\ local \in [Threads -> Local]
  BY DEF IInv, LocalsInv, Local
<1>3. \/ UNCHANGED local /\ pc' = [pc EXCEPT ![t] = "full"]
      \/ /\ UNCHANGED local /\ pc' = [pc EXCEPT ![t] = "slot_take"]
         /\ local[t].k \in Handles /\ free_open_file_entries[local[t].k] = "FREE"
      \/ local' = [local EXCEPT ![t].k = @ + 1] /\ UNCHANGED pc
  BY <1>2 DEF SlotTest, Loop, Goto, Handles
<1>4. \E mine \in Local, step \in {"full", "slot_take", "slot_test"} :
        /\ InsideStep(t, step, mine)
        /\ step = "slot_take" => /\ mine.k \in Handles
                                 /\ free_open_file_entries[mine.k] = "FREE"
  <2>1. CASE UNCHANGED local
    <3>1. local' = [local EXCEPT ![t] = local[t]]
      BY <1>2, <2>1
    <3>2. UNCHANGED pc => pc' = [pc EXCEPT ![t] = "slot_test"]
      BY <1>1 DEF IInv, LocalsInv
    <3> QED BY <1>1, <1>2, <1>3, <2>1, <3>1, <3>2 DEF InsideStep
  <2>2. CASE local' = [local EXCEPT ![t].k = @ + 1] /\ UNCHANGED pc
    <3> DEFINE mine == [local[t] EXCEPT !.k = @ + 1]
    <3>1. mine \in Local /\ local' = [local EXCEPT ![t] = mine]
      <4>1. local[t].k + 1 \in Nat
        BY <1>2
      <4>2. mine \in Local
        BY <1>2, <4>1 DEF Local
      <4>3. local' = [local EXCEPT ![t] = mine]
        BY <1>2, <2>2
      <4> QED BY <4>2, <4>3
    <3>2. pc' = [pc EXCEPT ![t] = "slot_test"]
      BY <1>1, <2>2 DEF IInv, LocalsInv
    <3> HIDE DEF mine
    <3> QED BY <1>1, <3>1, <3>2 DEF InsideStep
  <2> QED BY <1>3, <2>1, <2>2
<1>5. PICK mine \in Local, step \in {"full", "slot_take", "slot_test"} :
        /\ InsideStep(t, step, mine)
        /\ step = "slot_take" => /\ mine.k \in Handles
                                 /\ free_open_file_entries[mine.k] = "FREE"
  BY <1>4
<1>6. step \in Inside
  BY DEF Inside
<1>7. /\ LocalsInv' /\ MutexInv'
      /\ pc'[t] = step /\ local'[t] = mine
      /\ \A u \in Threads \ {t} : pc'[u] \notin Inside
  BY <1>1, <1>5, <1>6, InsideKeeps DEF IInv, LocalsInv
<1>8. HandlesInv'
  BY <1>1, <1>5, <1>7 DEF IInv, HandlesInv, HandlesExclusive, Inside
<1> QED BY <1>7, <1>8 DEF IInv

LEMMA SlotTakeStep ==
    ASSUME IInv, NEW t \in Threads, SlotTake(t)
    PROVE  IInv'
<1> USE Constants
<1> DEFINE h == local[t].k
<1>1. /\ pc[t] = "slot_take" /\ mutex = t
      /\ h \in Handles /\ free_open_file_entries[h] = "FREE"
  BY DEF IInv, MutexInv, HandlesInv, SlotTake, At, Inside
<1>2. /\ free_open_file_entries' = [free_open_file_entries EXCEPT ![h] = "TAKEN"]
      /\ pc' = [pc EXCEPT ![t] = "slot_fill"]
      /\ UNCHANGED <<dir, open_file_table, mutex, local, held>>
  BY DEF SlotTake, Goto, Stay, files, client
<1>3. local[t] \in Local /\ local' = [local EXCEPT ![t] = local[t]]
  BY <1>2 DEF IInv, LocalsInv
<1>4. /\ LocalsInv' /\ MutexInv'
      /\ pc'[t] = "slot_fill"
      /\ \A u \in Threads \ {t} : pc'[u] \notin Inside
  BY <1>1, <1>2, <1>3, InsideKeeps DEF IInv, LocalsInv, InsideStep, Inside
<1>5. \A u \in Threads : h \notin held[u]
  BY <1>1 DEF IInv, HandlesInv, HandlesExclusive
<1>6. HandlesInv'
  BY <1>1, <1>2, <1>4, <1>5 DEF IInv, HandlesInv, HandlesExclusive, Inside
<1> QED BY <1>4, <1>6 DEF IInv

LEMMA SlotFillStep ==
    ASSUME IInv, NEW t \in Threads, SlotFill(t)
    PROVE  IInv'
<1> USE Constants
<1>1. pc[t] = "slot_fill" /\ mutex = t /\ local[t] \in Local
  BY DEF IInv, MutexInv, LocalsInv, SlotFill, At, Inside
<1>2. /\ open_file_table' = [open_file_table EXCEPT ![local[t].k] =
           [of_inumber |-> local[t].inum, of_offset |-> 0, name |-> local[t].name]]
      /\ pc' = [pc EXCEPT ![t] = "opened"]
      /\ UNCHANGED <<dir, free_open_file_entries, mutex, local, held>>
  BY DEF SlotFill, Goto, Stay, files, client
<1>3. open_file_table' \in
        [Handles -> [of_inumber : Int, of_offset : Int, name : Names \cup {NoName}]]
  <2> DEFINE entry == [of_inumber |-> local[t].inum, of_offset |-> 0,
                       name |-> local[t].name]
  <2>1. entry \in [of_inumber : Int, of_offset : Int, name : Names \cup {NoName}]
    BY <1>1 DEF Local
  <2>2. open_file_table' = [open_file_table EXCEPT ![local[t].k] = entry]
    BY <1>2
  <2> HIDE DEF entry
  <2> QED BY <2>1, <2>2 DEF IInv, LocalsInv
<1>4. local' = [local EXCEPT ![t] = local[t]]
  BY <1>2 DEF IInv, LocalsInv
<1>5. /\ LocalsInv' /\ MutexInv'
      /\ pc'[t] = "opened"
      /\ \A u \in Threads \ {t} : pc'[u] \notin Inside
  BY <1>1, <1>2, <1>3, <1>4, InsideKeeps DEF InsideStep, Inside
<1>6. HandlesInv'
  BY <1>1, <1>2, <1>5 DEF IInv, HandlesInv, HandlesExclusive, Inside
<1> QED BY <1>5, <1>6 DEF IInv

\* The handle becomes the thread's as the mutex is unlocked.
LEMMA OpenedStep ==
    ASSUME IInv, NEW t \in Threads, Opened(t)
    PROVE  IInv'
<1> USE Constants
<1> DEFINE h == local[t].k
<1>1. /\ pc[t] = "opened" /\ mutex = t
      /\ h \in Handles /\ free_open_file_entries[h] = "TAKEN"
      /\ \A u \in Threads : h \notin held[u]
  BY DEF IInv, MutexInv, HandlesInv, Opened, At, Inside
<1>2. /\ held' = [held EXCEPT ![t] = @ \cup {h}]
      /\ pc' = [pc EXCEPT ![t] = "idle"]
      /\ local' = [local EXCEPT ![t] = NoCall]
      /\ UNCHANGED <<dir, free_open_file_entries, open_file_table>>
  BY DEF Opened, Return, files
<1>3. /\ LocalsInv' /\ MutexInv'
      /\ pc'[t] = "idle"
      /\ \A u \in Threads \ {t} : pc'[u] \notin Inside
  BY <1>1, <1>2, InsideKeeps DEF IInv, LocalsInv, InsideStep, Inside
<1>4. \A u \in Threads : held'[u] = IF u = t THEN held[t] \cup {h} ELSE held[u]
  BY <1>2 DEF IInv, HandlesInv
<1>5. held' \in [Threads -> SUBSET Handles]
  BY <1>1, <1>2 DEF IInv, HandlesInv
<1>6. HandlesExclusive'
  BY <1>1, <1>2, <1>4 DEF IInv, HandlesInv, HandlesExclusive
<1>7. HandlesInv'
  BY <1>2, <1>3, <1>5, <1>6 DEF IInv, HandlesInv, Inside
<1> QED BY <1>3, <1>7 DEF IInv

\* The other ways out.
LEMMA LeaveStep ==
    ASSUME IInv, NEW t \in Threads, Full(t) \/ CloseUnlock(t)
    PROVE  IInv'
<1> USE Constants
<1>1. mutex = t
  BY DEF IInv, MutexInv, Full, CloseUnlock, At, Inside
<1>2. /\ pc' = [pc EXCEPT ![t] = "idle"]
      /\ local' = [local EXCEPT ![t] = NoCall]
      /\ UNCHANGED <<dir, free_open_file_entries, open_file_table, held>>
  BY DEF Full, CloseUnlock, Return, files, client
<1>3. /\ LocalsInv' /\ MutexInv'
      /\ pc'[t] = "idle"
      /\ \A u \in Threads \ {t} : pc'[u] \notin Inside
  BY <1>1, <1>2, InsideKeeps DEF IInv, LocalsInv, InsideStep, Inside
<1>4. HandlesInv'
  BY <1>2, <1>3 DEF IInv, HandlesInv, HandlesExclusive, Inside
<1> QED BY <1>3, <1>4 DEF IInv

\* A handle that is closed is nobody's any more.
LEMMA CloseFreeStep ==
    ASSUME IInv, NEW t \in Threads, CloseFree(t)
    PROVE  IInv'
<1> USE Constants
<1> DEFINE h == local[t].fhandle
<1>1. pc[t] = "close_free" /\ mutex = t
  BY DEF IInv, MutexInv, CloseFree, At, Inside
<1>2. /\ free_open_file_entries' = [free_open_file_entries EXCEPT ![h] = "FREE"]
      /\ held' = [u \in Threads |-> held[u] \ {h}]
      /\ pc' = [pc EXCEPT ![t] = "close_unlock"]
      /\ UNCHANGED <<dir, open_file_table, mutex, local>>
  BY DEF CloseFree, Goto, files
<1>3. local[t] \in Local /\ local' = [local EXCEPT ![t] = local[t]]
  BY <1>2 DEF IInv, LocalsInv
<1>4. /\ LocalsInv' /\ MutexInv'
      /\ pc'[t] = "close_unlock"
      /\ \A u \in Threads \ {t} : pc'[u] \notin Inside
  BY <1>1, <1>2, <1>3, InsideKeeps DEF IInv, LocalsInv, InsideStep, Inside
<1>5. /\ free_open_file_entries' \in [Handles -> {"FREE", "TAKEN"}]
      /\ held' \in [Threads -> SUBSET Handles]
      /\ \A g \in Handles \ {h} : free_open_file_entries'[g] = free_open_file_entries[g]
      /\ \A u \in Threads : held'[u] = held[u] \ {h}
  BY <1>2 DEF IInv, HandlesInv
<1>6. HandlesExclusive'
  BY <1>5 DEF IInv, HandlesInv, HandlesExclusive
<1>7. HandlesInv'
  BY <1>4, <1>5, <1>6 DEF HandlesInv, Inside
<1> QED BY <1>4, <1>7 DEF IInv

(***************************************************************************)
(* Theorems                                                                *)
(***************************************************************************)
\* Before the first call every entry is free and nobody is inside.
LEMMA Initially == Init => IInv
<1> USE Constants
<1> SUFFICES ASSUME Init PROVE IInv
  OBVIOUS
<1>1. LocalsInv
  BY DEF Init, LocalsInv, Outside
<1>2. MutexInv
  BY DEF Init, MutexInv, Inside
<1>3. HandlesInv
  BY DEF Init, HandlesInv, HandlesExclusive
<1> QED BY <1>1, <1>2, <1>3 DEF IInv

\* The mutex is held by who is inside it and no entry is taken twice, for any
\* number of threads and of calls and tables of any size.
THEOREM ThreadsConsistent == Spec => []IInv
<1>1. IInv /\ [Next]_vars => IInv'
  <2> SUFFICES ASSUME IInv, [Next]_vars PROVE IInv'
    OBVIOUS
  <2>1. CASE UNCHANGED vars
    BY <2>1 DEF IInv, LocalsInv, MutexInv, HandlesInv, HandlesExclusive, Handles, Slots,
                vars, files, opens, client
  <2>2. ASSUME NEW t \in Threads, NEW n \in Files[t], OpenCall(t, n)
        PROVE  IInv'
    <3> DEFINE call == [NoCall EXCEPT !.name = n]
    <3>1. n \in Names
      BY ThreadsAssumption
    <3>2. call \in Local
      BY <3>1 DEF NoCall, Local
    <3> QED BY <2>2, <3>2, CallsStep DEF OpenCall
  <2>3. ASSUME NEW t \in Threads, NEW fh \in held[t], WriteCall(t, fh) \/ CloseCall(t, fh)
        PROVE  IInv'
    <3> DEFINE call == [NoCall EXCEPT !.fhandle = fh]
    <3>1. fh \in Handles /\ fh \in Int
      BY Constants DEF IInv, HandlesInv
    <3>2. call \in Local /\ call.fhandle \in Handles
      BY <3>1 DEF NoCall, Local
    <3> QED BY <2>3, <3>2, CallsStep DEF WriteCall, CloseCall
  <2>4. ASSUME NEW t \in Threads, Step(t)
        PROVE  IInv'
    BY <2>4, LoopSteps, PlainSteps, LocalSteps, WriteStartStep, StoreSteps, EnterStep,
       SlotTestStep, SlotTakeStep, SlotFillStep, OpenedStep, LeaveStep, CloseFreeStep
       DEF Step
  <2> QED BY <2>1, <2>2, <2>3, <2>4 DEF Next
<1> QED BY <1>1, Initially, PTL DEF Spec

\* A handle is given to one thread only, however the calls interleave.
THEOREM HandlesExclusiveCorrect == Spec => []HandlesExclusive
<1>1. IInv => HandlesExclusive
  BY DEF IInv, HandlesInv
<1> QED BY <1>1, ThreadsConsistent, PTL
=============================================================================
