--------------------------- MODULE TecnicoFSProofs ---------------------------
(***************************************************************************)
(* Proofs that the tables of TecnicoFS stay consistent for every caller    *)
(* and every size of the tables.  None of the invariants of TecnicoFS is   *)
(* inductive: together, and with the four facts below, they are.           *)
(***************************************************************************)
EXTENDS TecnicoFSCalls, FiniteSetTheorems, TLAPS

(***************************************************************************)
(* The inductive invariant                                                 *)
(***************************************************************************)
\* tfs_link refuses soft links, so the inode of one has a single name.
SoftLinksOnce ==
    \A i \in Inodes : /\ freeinode_ts[i] = "TAKEN"
                      /\ inode_table[i].i_node_type = "T_SOFT_LINK"
                      => inode_table[i].hard_links_count = 1

\* add_dir_entry is given a name.
EntriesNamed ==
    \A s \in Slots : dir[s].d_inumber # -1 => dir[s].d_name \in Names

\* Entries are filled from the first on and clear_dir_entry blanks the name:
\* an entry that still has the name malloc left in it comes after all others.
StaleEntriesLast ==
    \A s, t \in Slots :
        dir[s].d_inumber = -1 /\ dir[s].d_name # NoName /\ s < t
            => dir[t].d_inumber = -1

TablesType ==
    /\ freeinode_ts \in [Inodes -> {"FREE", "TAKEN"}]
    /\ inode_table \in [Inodes -> InodeRecord]
    /\ free_blocks \in [Blocks -> {"FREE", "TAKEN"}]
    /\ dir \in [Slots -> [d_name : Names \cup {NoName},
                          d_inumber : Inodes \cup {-1}]]
    /\ open_file_table \in [Handles -> OpenFile \cup {NoFile}]

NamesInv ==
    /\ SoftLinksOnce
    /\ EntriesNamed
    /\ StaleEntriesLast
    /\ EntriesAllocated
    /\ LinkCount

TablesInv == TablesType /\ NamesInv /\ BlocksOwned

\* The root's inode is allocated, so that no file is given its number, and the
\* copy in progress holds an open handle.
CallInv ==
    /\ status = "running" => freeinode_ts[ROOT_DIR_INUM] = "TAKEN"
    /\ status = "uninit" => copying = NoCopy
    /\ status \in {"uninit", "running", "aborted", "undefined"}
    /\ fs_data \in [Addr -> Bytes \cup {Junk}]
    /\ ret \in Int
    /\ copying \in [fhandle : Handles, left : Nat] \cup {NoCopy}
    /\ copying # NoCopy => open_file_table[copying.fhandle] # NoFile

IInv == TablesInv /\ CallInv

(***************************************************************************)
(* Directory entries and link counts                                       *)
(***************************************************************************)
\* The slots of an inode are finitely many.
LEMMA LinksFinite == \A i : IsFiniteSet(Links(i))
<1> TAKE i
<1>1. IsFiniteSet(Slots)
  BY SizesAssumption, FS_Interval DEF Slots
<1>2. Links(i) \subseteq Slots
  BY DEF Links
<1> QED BY <1>1, <1>2, FS_Subset

\* Filling an empty entry adds it to the links of its inode only.
LEMMA LinkAdded ==
    ASSUME TablesType, NEW s \in Slots, NEW i \in Inodes, NEW n,
           dir[s].d_inumber = -1,
           dir' = [dir EXCEPT ![s] = [d_name |-> n, d_inumber |-> i]]
    PROVE  /\ \A j \in Inodes \ {i} : Links(j)' = Links(j)
           /\ Links(i)' = Links(i) \cup {s}
           /\ Cardinality(Links(i)') = Cardinality(Links(i)) + 1
<1>1. \A j \in Inodes \ {i} : Links(j)' = Links(j)
  BY DEF Links, TablesType, Inodes
<1>2. Links(i)' = Links(i) \cup {s}
  BY DEF Links, TablesType, Inodes
<1>3. s \notin Links(i)
  BY DEF Links, Inodes
<1> QED BY <1>1, <1>2, <1>3, LinksFinite, FS_AddElement

\* Clearing an entry takes it from the links of its inode only.
LEMMA LinkRemoved ==
    ASSUME TablesType, NEW s \in Slots, NEW i \in Inodes,
           dir[s].d_inumber = i,
           dir' = [dir EXCEPT ![s] = [d_name |-> NoName, d_inumber |-> -1]]
    PROVE  /\ \A j \in Inodes \ {i} : Links(j)' = Links(j)
           /\ Links(i)' = Links(i) \ {s}
           /\ s \in Links(i)
           /\ Cardinality(Links(i)') = Cardinality(Links(i)) - 1
<1>1. \A j \in Inodes \ {i} : Links(j)' = Links(j)
  BY DEF Links, TablesType, Inodes
<1>2. Links(i)' = Links(i) \ {s}
  BY DEF Links, TablesType, Inodes
<1>3. s \in Links(i)
  BY DEF Links, Inodes
<1> QED BY <1>1, <1>2, <1>3, LinksFinite, FS_RemoveElement

\* An inode has no link when its count is 0, and a single one when it is 1.
LEMMA SingleLink ==
    ASSUME NEW i, NEW s \in Links(i), Cardinality(Links(i)) = 1
    PROVE  Links(i) = {s}
<1>1. Cardinality(Links(i) \ {s}) = 0
  BY LinksFinite, FS_RemoveElement
<1>2. IsFiniteSet(Links(i) \ {s})
  BY LinksFinite, FS_RemoveElement
<1>3. Links(i) \ {s} = {}
  BY <1>1, <1>2, FS_EmptySet
<1> QED BY <1>3

\* The entry tfs_unlink clears is the one its lookup found.
LEMMA ClearedIsFound ==
    ASSUME TablesType, EntriesNamed, StaleEntriesLast,
           NEW n \in Names, NEW s \in Slots, NEW c \in Slots,
           Found(n, s), ClearedSlot(n, c)
    PROVE  c = s
<1>1. s \in Matches(n) /\ \A t \in Matches(n) : s <= t
  BY DEF Found, tfs_lookup, IsFirst
<1>2. dir[s].d_inumber # -1 /\ dir[s].d_name = n
  BY <1>1 DEF Matches
<1>3. dir[c].d_name = n /\ c <= s
  BY <1>2 DEF ClearedSlot, IsFirst
<1>4. dir[c].d_inumber # -1
  BY <1>2, <1>3, NamesAssumption DEF StaleEntriesLast, Slots
<1>5. s <= c
  BY <1>1, <1>3, <1>4 DEF Matches
<1> QED BY <1>3, <1>5 DEF Slots

(***************************************************************************)
(* What leaves a part of the invariant alone                               *)
(***************************************************************************)
\* NamesInv reads the directory and, of allocated inodes, type and links.
LEMMA NamesKept ==
    ASSUME TablesType, NamesInv, UNCHANGED <<dir, freeinode_ts>>,
           \A i \in Inodes : freeinode_ts[i] = "TAKEN" =>
              /\ inode_table'[i].i_node_type = inode_table[i].i_node_type
              /\ inode_table'[i].hard_links_count = inode_table[i].hard_links_count
    PROVE  NamesInv'
<1>1. SoftLinksOnce'
  BY DEF NamesInv, SoftLinksOnce
<1>2. EntriesNamed' /\ StaleEntriesLast' /\ EntriesAllocated'
  BY DEF NamesInv, EntriesNamed, StaleEntriesLast, EntriesAllocated
<1>3. \A i \in Inodes : Links(i)' = Links(i)
  BY DEF Links
<1>4. LinkCount'
  BY <1>3 DEF NamesInv, LinkCount
<1> QED BY <1>1, <1>2, <1>4 DEF NamesInv

\* BlocksOwned holds after a step that gives no inode a block it did not own.
LEMMA BlocksKept ==
    ASSUME BlocksOwned,
           \A i \in Inodes :
              freeinode_ts'[i] = "TAKEN" /\ inode_table'[i].i_size > 0
              => /\ freeinode_ts[i] = "TAKEN" /\ inode_table[i].i_size > 0
                 /\ inode_table'[i].i_data_block = inode_table[i].i_data_block
                 /\ free_blocks'[inode_table[i].i_data_block] = "TAKEN"
    PROVE  BlocksOwned'
  BY DEF BlocksOwned

\* A call that changes no table keeps TablesInv.
LEMMA TablesKept ==
    ASSUME TablesInv, UNCHANGED tables
    PROVE  TablesInv'
<1>1. TablesType'
  BY DEF TablesInv, TablesType, tables
<1>2. NamesInv'
  BY NamesKept DEF TablesInv, tables
<1>3. BlocksOwned'
  BY BlocksKept DEF TablesInv, BlocksOwned, tables
<1> QED BY <1>1, <1>2, <1>3 DEF TablesInv

(***************************************************************************)
(* The changes operations make to the tables                               *)
(***************************************************************************)
\* inode_create on an inode that is not kept, as add_dir_entry failed.
LEMMA ScratchInode ==
    ASSUME TablesInv, NEW i \in Inodes, freeinode_ts[i] = "FREE",
           NEW rec \in InodeRecord,
           inode_table' = [inode_table EXCEPT ![i] = rec],
           UNCHANGED <<freeinode_ts, free_blocks, dir, open_file_table>>
    PROVE  TablesInv'
<1>1. TablesType'
  BY DEF TablesInv, TablesType
<1>2. NamesInv'
  BY NamesKept DEF TablesInv, TablesType
<1>3. BlocksOwned'
  BY DEF TablesInv, TablesType, BlocksOwned
<1> QED BY <1>1, <1>2, <1>3 DEF TablesInv

\* A new inode and its first entry.
LEMMA NewEntry ==
    ASSUME TablesInv, NEW n \in Names,
           NEW i \in Inodes, i # ROOT_DIR_INUM, freeinode_ts[i] = "FREE",
           NEW rec \in InodeRecord, rec.hard_links_count = 1, rec.i_size = 0,
           inode_table' = [inode_table EXCEPT ![i] = rec],
           freeinode_ts' = [freeinode_ts EXCEPT ![i] = "TAKEN"],
           add_dir_entry(n, i),
           free_blocks' = free_blocks,
           open_file_table' \in [Handles -> OpenFile \cup {NoFile}]
    PROVE  TablesInv'
<1>1. PICK s \in Slots :
          /\ IsFirst(s, EmptySlots)
          /\ dir' = [dir EXCEPT ![s] = [d_name |-> n, d_inumber |-> i]]
  BY DEF add_dir_entry
<1>2. dir[s].d_inumber = -1 /\ \A t \in Slots : t < s => dir[t].d_inumber # -1
  BY <1>1 DEF IsFirst, EmptySlots, Slots
<1>3. TablesType'
  BY <1>1 DEF TablesInv, TablesType
<1>4. /\ \A j \in Inodes \ {i} : Links(j)' = Links(j)
      /\ Links(i)' = Links(i) \cup {s}
      /\ Cardinality(Links(i)') = Cardinality(Links(i)) + 1
  BY <1>1, <1>2, LinkAdded DEF TablesInv
<1>5. SoftLinksOnce'
  BY DEF TablesInv, TablesType, NamesInv, SoftLinksOnce
<1>6. EntriesNamed'
  BY <1>1 DEF TablesInv, TablesType, NamesInv, EntriesNamed
<1>7. StaleEntriesLast'
  <2> SUFFICES ASSUME NEW u \in Slots, NEW t \in Slots,
                      dir'[u].d_inumber = -1, dir'[u].d_name # NoName, u < t
               PROVE  dir'[t].d_inumber = -1
    BY DEF StaleEntriesLast
  <2>1. u # s /\ dir'[u] = dir[u]
    BY <1>1 DEF TablesInv, TablesType, Inodes
  <2>2. s < u
    BY <1>2, <2>1 DEF Slots
  <2>3. dir'[t] = dir[t]
    BY <1>1, <2>2 DEF TablesInv, TablesType, Slots
  <2> QED BY <2>1, <2>3 DEF TablesInv, NamesInv, StaleEntriesLast
<1>8. EntriesAllocated'
  BY <1>1 DEF TablesInv, TablesType, NamesInv, EntriesAllocated
<1>9. Links(i) = {}
  BY DEF TablesInv, NamesInv, EntriesAllocated, Links, Inodes
<1>10. LinkCount'
  <2> SUFFICES ASSUME NEW j \in Inodes \ {ROOT_DIR_INUM},
                      freeinode_ts'[j] = "TAKEN"
               PROVE  /\ inode_table'[j].hard_links_count = Cardinality(Links(j)')
                      /\ Links(j)' # {}
    BY DEF LinkCount
  <2>1. CASE j = i
    <3>1. Cardinality(Links(i)) = 0
      BY <1>9, FS_EmptySet
    <3> QED BY <2>1, <3>1, <1>4 DEF TablesInv, TablesType
  <2>2. CASE j # i
    BY <2>2, <1>4 DEF TablesInv, TablesType, NamesInv, LinkCount
  <2> QED BY <2>1, <2>2
<1>11. BlocksOwned'
  BY BlocksKept DEF TablesInv, TablesType, BlocksOwned
<1> QED BY <1>3, <1>5, <1>6, <1>7, <1>8, <1>10, <1>11 DEF TablesInv, NamesInv

\* One more name for an inode that is no soft link.
LEMMA NewHardLink ==
    ASSUME TablesInv, NEW n \in Names,
           NEW i \in Inodes, i # ROOT_DIR_INUM, freeinode_ts[i] = "TAKEN",
           inode_table[i].i_node_type # "T_SOFT_LINK",
           inode_table' = [inode_table EXCEPT ![i].hard_links_count = @ + 1],
           add_dir_entry(n, i),
           UNCHANGED <<freeinode_ts, free_blocks, open_file_table>>
    PROVE  TablesInv'
<1>1. PICK s \in Slots :
          /\ IsFirst(s, EmptySlots)
          /\ dir' = [dir EXCEPT ![s] = [d_name |-> n, d_inumber |-> i]]
  BY DEF add_dir_entry
<1>2. dir[s].d_inumber = -1 /\ \A t \in Slots : t < s => dir[t].d_inumber # -1
  BY <1>1 DEF IsFirst, EmptySlots, Slots
<1>3. TablesType'
  <2>1. inode_table[i] \in InodeRecord
    BY DEF TablesInv, TablesType
  <2>2. [inode_table[i] EXCEPT !.hard_links_count = @ + 1] \in InodeRecord
    BY <2>1 DEF InodeRecord
  <2> QED BY <1>1, <2>2 DEF TablesInv, TablesType
<1>4. /\ \A j \in Inodes \ {i} : Links(j)' = Links(j)
      /\ Links(i)' = Links(i) \cup {s}
      /\ Cardinality(Links(i)') = Cardinality(Links(i)) + 1
  BY <1>1, <1>2, LinkAdded DEF TablesInv
<1>5. SoftLinksOnce'
  BY DEF TablesInv, TablesType, InodeRecord, NamesInv, SoftLinksOnce
<1>6. EntriesNamed'
  BY <1>1 DEF TablesInv, TablesType, NamesInv, EntriesNamed
<1>7. StaleEntriesLast'
  <2> SUFFICES ASSUME NEW u \in Slots, NEW t \in Slots,
                      dir'[u].d_inumber = -1, dir'[u].d_name # NoName, u < t
               PROVE  dir'[t].d_inumber = -1
    BY DEF StaleEntriesLast
  <2>1. u # s /\ dir'[u] = dir[u]
    BY <1>1 DEF TablesInv, TablesType, Inodes
  <2>2. s < u
    BY <1>2, <2>1 DEF Slots
  <2>3. dir'[t] = dir[t]
    BY <1>1, <2>2 DEF TablesInv, TablesType, Slots
  <2> QED BY <2>1, <2>3 DEF TablesInv, NamesInv, StaleEntriesLast
<1>8. EntriesAllocated'
  BY <1>1 DEF TablesInv, TablesType, NamesInv, EntriesAllocated
<1>9. LinkCount'
  <2> SUFFICES ASSUME NEW j \in Inodes \ {ROOT_DIR_INUM},
                      freeinode_ts'[j] = "TAKEN"
               PROVE  /\ inode_table'[j].hard_links_count = Cardinality(Links(j)')
                      /\ Links(j)' # {}
    BY DEF LinkCount
  <2>1. CASE j = i
    BY <2>1, <1>4 DEF TablesInv, TablesType, InodeRecord, NamesInv, LinkCount
  <2>2. CASE j # i
    BY <2>2, <1>4 DEF TablesInv, TablesType, NamesInv, LinkCount
  <2> QED BY <2>1, <2>2
<1>10. BlocksOwned'
  BY BlocksKept DEF TablesInv, TablesType, InodeRecord, BlocksOwned
<1> QED BY <1>3, <1>5, <1>6, <1>7, <1>8, <1>9, <1>10 DEF TablesInv, NamesInv

\* The entry of an inode that is no soft link goes, with the inode if it was
\* the last one.
LEMMA EntryRemoved ==
    ASSUME TablesInv, NEW s \in Slots, NEW i \in Inodes,
           dir[s].d_inumber = i,
           inode_table[i].i_node_type # "T_SOFT_LINK",
           dir' = [dir EXCEPT ![s] = [d_name |-> NoName, d_inumber |-> -1]],
           inode_table' = [inode_table EXCEPT ![i].hard_links_count = @ - 1],
           IF Deleted(i) THEN inode_delete(i)
                         ELSE UNCHANGED <<free_blocks, freeinode_ts>>,
           open_file_table' = open_file_table
    PROVE  TablesInv' /\ freeinode_ts'[ROOT_DIR_INUM] = freeinode_ts[ROOT_DIR_INUM]
<1>1. i # ROOT_DIR_INUM /\ freeinode_ts[i] = "TAKEN"
  BY DEF TablesInv, NamesInv, EntriesAllocated, Inodes
<1>2. /\ \A j \in Inodes \ {i} : Links(j)' = Links(j)
      /\ Links(i)' = Links(i) \ {s}
      /\ s \in Links(i)
      /\ Cardinality(Links(i)') = Cardinality(Links(i)) - 1
  BY LinkRemoved DEF TablesInv
<1>3. inode_table[i].hard_links_count = Cardinality(Links(i))
  BY <1>1 DEF TablesInv, NamesInv, LinkCount
<1>4. Cardinality(Links(i)) \in Nat \ {0}
  BY <1>2, LinksFinite, FS_EmptySet, FS_CardinalityType
<1>5. /\ inode_table[i].i_size > 0
            => /\ inode_table[i].i_data_block \in Blocks
               /\ free_blocks[inode_table[i].i_data_block] = "TAKEN"
      /\ \A j \in Inodes : j # i /\ freeinode_ts[j] = "TAKEN"
               /\ inode_table[j].i_size > 0 /\ inode_table[i].i_size > 0
            => inode_table[j].i_data_block # inode_table[i].i_data_block
  BY <1>1 DEF TablesInv, BlocksOwned
<1>6. TablesType'
  <2>1. inode_table[i] \in InodeRecord
    BY DEF TablesInv, TablesType
  <2>2. [inode_table[i] EXCEPT !.hard_links_count = @ - 1] \in InodeRecord
    BY <2>1, <1>3, <1>4 DEF InodeRecord
  <2>3. inode_table' \in [Inodes -> InodeRecord]
    BY <2>2 DEF TablesInv, TablesType
  <2>4. /\ freeinode_ts' \in [Inodes -> {"FREE", "TAKEN"}]
        /\ free_blocks' \in [Blocks -> {"FREE", "TAKEN"}]
    BY DEF TablesInv, TablesType, inode_delete
  <2> QED BY <2>3, <2>4 DEF TablesInv, TablesType
<1>7. /\ \A j \in Inodes : j # i => freeinode_ts'[j] = freeinode_ts[j]
      /\ freeinode_ts'[i] = IF Deleted(i) THEN "FREE" ELSE "TAKEN"
  BY <1>1 DEF inode_delete, TablesInv, TablesType
<1>8. SoftLinksOnce'
  BY <1>7 DEF TablesInv, TablesType, InodeRecord, NamesInv, SoftLinksOnce
<1>9. EntriesNamed' /\ StaleEntriesLast'
  BY DEF TablesInv, TablesType, NamesInv, EntriesNamed, StaleEntriesLast, Slots
<1>10. Deleted(i) => Links(i)' = {}
  BY <1>2, <1>3, SingleLink DEF Deleted
<1>11. EntriesAllocated'
  <2> SUFFICES ASSUME NEW t \in Slots, dir'[t].d_inumber # -1
               PROVE  /\ freeinode_ts'[dir'[t].d_inumber] = "TAKEN"
                      /\ dir'[t].d_inumber # ROOT_DIR_INUM
    BY DEF EntriesAllocated
  <2>1. t # s /\ dir'[t] = dir[t] /\ dir[t].d_inumber \in Inodes
    BY DEF TablesInv, TablesType
  <2>2. dir[t].d_inumber # ROOT_DIR_INUM /\ freeinode_ts[dir[t].d_inumber] = "TAKEN"
    BY <2>1 DEF TablesInv, NamesInv, EntriesAllocated
  <2>3. dir[t].d_inumber = i => ~Deleted(i)
    BY <2>1, <1>10 DEF Links
  <2> QED BY <2>1, <2>2, <2>3, <1>7
<1>12. LinkCount'
  <2> SUFFICES ASSUME NEW j \in Inodes \ {ROOT_DIR_INUM},
                      freeinode_ts'[j] = "TAKEN"
               PROVE  /\ inode_table'[j].hard_links_count = Cardinality(Links(j)')
                      /\ Links(j)' # {}
    BY DEF LinkCount
  <2>1. CASE j = i
    <3>1. ~Deleted(i) /\ inode_table[i].hard_links_count # 1
      BY <2>1, <1>7 DEF Deleted
    <3>2. inode_table'[i].hard_links_count = Cardinality(Links(i)')
      BY <1>2, <1>3, <1>4 DEF TablesInv, TablesType, InodeRecord
    <3>3. Cardinality(Links(i)') # 0
      BY <3>1, <1>2, <1>3, <1>4
    <3>4. Links(i)' # {}
      BY <3>3, FS_EmptySet
    <3> QED BY <2>1, <3>2, <3>4
  <2>2. CASE j # i
    BY <2>2, <1>2, <1>7 DEF TablesInv, TablesType, NamesInv, LinkCount
  <2> QED BY <2>1, <2>2
<1>13. BlocksOwned'
  <2> SUFFICES ASSUME NEW j \in Inodes,
                      freeinode_ts'[j] = "TAKEN", inode_table'[j].i_size > 0
               PROVE  /\ freeinode_ts[j] = "TAKEN" /\ inode_table[j].i_size > 0
                      /\ inode_table'[j].i_data_block = inode_table[j].i_data_block
                      /\ free_blocks'[inode_table[j].i_data_block] = "TAKEN"
    BY BlocksKept DEF TablesInv
  <2>1. /\ freeinode_ts[j] = "TAKEN" /\ inode_table[j].i_size > 0
        /\ inode_table'[j].i_data_block = inode_table[j].i_data_block
    BY <1>1, <1>7 DEF TablesInv, TablesType, InodeRecord
  <2>2. /\ inode_table[j].i_data_block \in Blocks
        /\ free_blocks[inode_table[j].i_data_block] = "TAKEN"
    BY <2>1 DEF TablesInv, BlocksOwned
  <2>3. CASE j = i
    BY <2>1, <2>2, <2>3, <1>7
  <2>4. CASE j # i
    BY <2>1, <2>2, <2>4, <1>5 DEF inode_delete, TablesInv, TablesType
  <2> QED BY <2>1, <2>3, <2>4
<1> QED BY <1>1, <1>6, <1>7, <1>8, <1>9, <1>11, <1>12, <1>13, SizesAssumption
        DEF TablesInv, NamesInv, Inodes, ROOT_DIR_INUM

\* TFS_O_TRUNC, or no truncation, of an allocated inode.
LEMMA SizeSet ==
    ASSUME TablesInv, NEW i \in Inodes, freeinode_ts[i] = "TAKEN", NEW mode,
           inode_table' = [inode_table EXCEPT ![i].i_size =
               IF Truncates(i, mode) THEN 0 ELSE inode_table[i].i_size],
           free_blocks' = IF Truncates(i, mode)
                            THEN [free_blocks EXCEPT
                                    ![inode_table[i].i_data_block] = "FREE"]
                            ELSE free_blocks,
           UNCHANGED <<freeinode_ts, dir>>,
           open_file_table' \in [Handles -> OpenFile \cup {NoFile}]
    PROVE  TablesInv'
<1>1. inode_table[i] \in InodeRecord
  BY DEF TablesInv, TablesType
<1>2. [inode_table[i] EXCEPT !.i_size =
          IF Truncates(i, mode) THEN 0 ELSE inode_table[i].i_size] \in InodeRecord
  BY <1>1 DEF InodeRecord
<1>3. TablesType'
  BY <1>2 DEF TablesInv, TablesType
<1>4. NamesInv'
  BY NamesKept DEF TablesInv, TablesType, InodeRecord
<1>5. BlocksOwned'
  <2> SUFFICES ASSUME NEW j \in Inodes,
                      freeinode_ts'[j] = "TAKEN", inode_table'[j].i_size > 0
               PROVE  /\ freeinode_ts[j] = "TAKEN" /\ inode_table[j].i_size > 0
                      /\ inode_table'[j].i_data_block = inode_table[j].i_data_block
                      /\ free_blocks'[inode_table[j].i_data_block] = "TAKEN"
    BY BlocksKept DEF TablesInv
  <2>1. /\ freeinode_ts[j] = "TAKEN" /\ inode_table[j].i_size > 0
        /\ inode_table'[j].i_data_block = inode_table[j].i_data_block
    BY DEF TablesInv, TablesType, InodeRecord
  <2>2. /\ inode_table[j].i_data_block \in Blocks
        /\ free_blocks[inode_table[j].i_data_block] = "TAKEN"
    BY <2>1 DEF TablesInv, BlocksOwned
  <2>3. CASE j = i
    BY <2>2, <2>3, <1>1 DEF TablesInv, TablesType, InodeRecord
  <2>4. CASE j # i
    <3>1. Truncates(i, mode) => inode_table[j].i_data_block # inode_table[i].i_data_block
      BY <2>1, <2>4 DEF TablesInv, BlocksOwned, Truncates
    <3> QED BY <2>1, <2>2, <3>1 DEF TablesInv, TablesType
  <2> QED BY <2>1, <2>3, <2>4
<1> QED BY <1>3, <1>4, <1>5 DEF TablesInv

\* Nobody is given an entry of the open file table that is no file.
LEMMA HandleAdded ==
    ASSUME TablesType, NEW i \in Inodes, NEW offset \in Nat,
           NEW fh \in Handles \cup {-1}, add_to_open_file_table(i, offset, fh)
    PROVE  /\ open_file_table' \in [Handles -> OpenFile \cup {NoFile}]
           /\ fh # -1 => open_file_table'[fh] # NoFile
<1>1. [of_inumber |-> i, of_offset |-> offset] \in OpenFile
  BY DEF OpenFile
<1>2. [of_inumber |-> i, of_offset |-> offset] # NoFile
  BY DEF NoFile, Inodes
<1>3. CASE fh = -1 /\ UNCHANGED open_file_table
  BY <1>3 DEF TablesType
<1>4. CASE /\ IsFirst(fh, FreeHandles)
           /\ open_file_table' = [open_file_table EXCEPT
                  ![fh] = [of_inumber |-> i, of_offset |-> offset]]
  BY <1>1, <1>2, <1>4 DEF IsFirst, FreeHandles, TablesType
<1> QED BY <1>3, <1>4 DEF add_to_open_file_table

(***************************************************************************)
(* The calls                                                               *)
(***************************************************************************)
\* A lookup gives an allocated inode that is not the root's.
LEMMA FoundInode ==
    ASSUME TablesInv, NEW n, NEW s \in Slots, Found(n, s)
    PROVE  /\ dir[s].d_inumber \in Inodes \ {ROOT_DIR_INUM}
           /\ freeinode_ts[dir[s].d_inumber] = "TAKEN"
<1>1. dir[s].d_inumber # -1
  BY DEF Found, IsFirst, tfs_lookup, Matches
<1> QED BY <1>1 DEF TablesInv, TablesType, NamesInv, EntriesAllocated

\* A fresh inode is of the type of inodes.
LEMMA CreatedInode ==
    ASSUME TablesType, NEW i \in Inodes, NEW type \in {"T_FILE", "T_SOFT_LINK"}
    PROVE  /\ inode_create(i, type)[i] \in InodeRecord
           /\ inode_create(i, type)[i].hard_links_count = 1
           /\ inode_create(i, type)[i].i_size = 0
           /\ inode_create(i, type)
                = [inode_table EXCEPT ![i] = inode_create(i, type)[i]]
<1>1. inode_table[i] \in InodeRecord
  BY DEF TablesType
<1>2. inode_table[i].i_target \in Names \cup {NoName}
  BY <1>1 DEF InodeRecord
<1>3. inode_create(i, type)[i] =
         [i_node_type |-> type, hard_links_count |-> 1, i_size |-> 0,
          i_data_block |-> -1, i_target |-> inode_table[i].i_target]
  BY DEF inode_create, TablesType
<1>4. inode_create(i, type)[i] \in InodeRecord
  BY <1>2, <1>3 DEF InodeRecord
<1> QED BY <1>3, <1>4 DEF inode_create, TablesType

\* tfs_open, by itself or from tfs_copy_from_external_fs.
LEMMA OpenStep ==
    ASSUME TablesInv, freeinode_ts[ROOT_DIR_INUM] = "TAKEN",
           NEW n \in Names, NEW mode, NEW fh \in Handles \cup {-1},
           Open(n, mode, fh)
    PROVE  /\ TablesInv'
           /\ freeinode_ts'[ROOT_DIR_INUM] = "TAKEN"
           /\ fh # -1 => open_file_table'[fh] # NoFile
<1>1. CASE OpenExisting(n, mode, fh)
  <2>1. PICK s \in Slots, inum \in Inodes :
           /\ Found(n, s)
           /\ inode_table' = [inode_table EXCEPT ![dir[s].d_inumber].i_size =
                  IF Truncates(dir[s].d_inumber, mode) THEN 0
                  ELSE inode_table[dir[s].d_inumber].i_size]
           /\ free_blocks' = IF Truncates(dir[s].d_inumber, mode)
                  THEN [free_blocks EXCEPT
                          ![inode_table[dir[s].d_inumber].i_data_block] = "FREE"]
                  ELSE free_blocks
           /\ \E offset \in {0, inode_table[dir[s].d_inumber].i_size} :
                  add_to_open_file_table(inum, offset, fh)
           /\ UNCHANGED <<freeinode_ts, dir>>
    BY <1>1 DEF OpenExisting
  <2>2. /\ dir[s].d_inumber \in Inodes
        /\ freeinode_ts[dir[s].d_inumber] = "TAKEN"
    BY <2>1, FoundInode
  <2>3. inode_table[dir[s].d_inumber].i_size \in Nat
    BY <2>2 DEF TablesInv, TablesType, InodeRecord
  <2>4. /\ open_file_table' \in [Handles -> OpenFile \cup {NoFile}]
        /\ fh # -1 => open_file_table'[fh] # NoFile
    BY <2>1, <2>3, HandleAdded DEF TablesInv
  <2>5. TablesInv'
    BY <2>1, <2>2, <2>4, SizeSet
  <2> QED BY <2>1, <2>4, <2>5
<1>2. CASE OpenCreates(n, mode, fh)
  <2>1. PICK i \in Inodes :
           /\ IsFirst(i, FreeInodes)
           /\ inode_table' = inode_create(i, "T_FILE")
           /\ freeinode_ts' = [freeinode_ts EXCEPT ![i] = "TAKEN"]
           /\ add_dir_entry(n, i)
           /\ add_to_open_file_table(i, 0, fh)
    BY <1>2 DEF OpenCreates
  <2>2. freeinode_ts[i] = "FREE" /\ i # ROOT_DIR_INUM
    BY <2>1 DEF IsFirst, FreeInodes
  <2>3. /\ open_file_table' \in [Handles -> OpenFile \cup {NoFile}]
        /\ fh # -1 => open_file_table'[fh] # NoFile
    BY <2>1, HandleAdded DEF TablesInv
  <2>4. free_blocks' = free_blocks
    BY <1>2 DEF OpenCreates
  <2>5. TablesInv'
    BY <2>1, <2>2, <2>3, <2>4, CreatedInode, NewEntry DEF TablesInv
  <2> QED BY <2>1, <2>2, <2>3, <2>5 DEF TablesInv, TablesType
<1>3. CASE fh = -1 /\ OpenCannotCreate(n, mode)
  <2>1. PICK i \in Inodes : /\ IsFirst(i, FreeInodes)
                            /\ inode_table' = inode_create(i, "T_FILE")
    BY <1>3 DEF OpenCannotCreate
  <2>2. freeinode_ts[i] = "FREE"
    BY <2>1 DEF IsFirst, FreeInodes
  <2>3. UNCHANGED <<freeinode_ts, free_blocks, dir, open_file_table>>
    BY <1>3 DEF OpenCannotCreate
  <2>4. TablesInv'
    BY <2>1, <2>2, <2>3, CreatedInode, ScratchInode DEF TablesInv
  <2> QED BY <1>3, <2>3, <2>4
<1>4. CASE fh = -1 /\ OpenRefused(n, mode) /\ UNCHANGED tables
  BY <1>4, TablesKept DEF tables
<1> QED BY <1>1, <1>2, <1>3, <1>4 DEF Open

\* The bytes a write that stays inside its block stores are bytes of the buffer.
LEMMA CountWithinBuffer ==
    ASSUME NEW fh \in Handles, open_file_table[fh] \in OpenFile,
           NEW to_write \in Nat,
           WriteCount(fh, to_write) > 0,
           open_file_table[fh].of_offset + WriteCount(fh, to_write) <= BLOCK_SIZE
    PROVE  WriteCount(fh, to_write) \in 1 .. to_write
<1> DEFINE offset == open_file_table[fh].of_offset
<1>1. offset \in Nat
  BY DEF OpenFile
<1>2. CASE to_write + offset <= BLOCK_SIZE
  BY <1>1, <1>2, SizesAssumption DEF WriteCount
<1>3. CASE to_write + offset > BLOCK_SIZE
  <2>1. WriteCount(fh, to_write) = (BLOCK_SIZE - offset) % SIZE_T
    BY <1>3 DEF WriteCount
  <2>2. (BLOCK_SIZE - offset) % SIZE_T \in Nat
    BY <1>1, SizesAssumption
  <2>3. offset <= BLOCK_SIZE
    BY <1>1, <2>1, <2>2, SizesAssumption
  <2>4. (BLOCK_SIZE - offset) % SIZE_T = BLOCK_SIZE - offset
    BY <1>1, <2>3, SizesAssumption
  <2> QED BY <1>1, <1>3, <2>1, <2>3, <2>4, SizesAssumption
<1> QED BY <1>1, <1>2, <1>3, SizesAssumption

\* tfs_write, by itself or from tfs_copy_from_external_fs.
LEMMA WriteStep ==
    ASSUME TablesInv, fs_data \in [Addr -> Bytes \cup {Junk}],
           status = "running",
           NEW fh \in Handles, open_file_table[fh] # NoFile,
           NEW to_write \in Nat, NEW buffer \in Buffers(to_write), NEW r \in Int,
           Write(fh, to_write, buffer, r)
    PROVE  /\ TablesInv'
           /\ fs_data' \in [Addr -> Bytes \cup {Junk}]
           /\ status' \in {"running", "undefined"}
           /\ freeinode_ts' = freeinode_ts
           /\ \A h \in Handles : open_file_table[h] # NoFile
                                    => open_file_table'[h] # NoFile
<1> DEFINE i == open_file_table[fh].of_inumber
           offset == open_file_table[fh].of_offset
           count == WriteCount(fh, to_write)
<1>1. open_file_table[fh] \in OpenFile
  BY DEF TablesInv, TablesType
<1>2. i \in Inodes /\ offset \in Nat
  BY <1>1 DEF OpenFile
<1>3. CASE UNCHANGED <<tables, fs_data>> /\ status' \in {"running", "undefined"}
  BY <1>3, TablesKept DEF tables
<1>4. ASSUME count > 0, NEW b \in Blocks, WriteBlock(i, b),
             offset + count <= BLOCK_SIZE, WriteData(fh, b, count, buffer),
             UNCHANGED <<status, freeinode_ts, dir>>
      PROVE  /\ TablesInv'
             /\ fs_data' \in [Addr -> Bytes \cup {Junk}]
             /\ \A h \in Handles : open_file_table[h] # NoFile
                                      => open_file_table'[h] # NoFile
  <2> DEFINE size == inode_table[i].i_size
             newsize == IF offset + count > size THEN offset + count ELSE size
             rec == [inode_table[i] EXCEPT !.i_data_block = b, !.i_size = newsize]
  <2>1. count \in 1 .. to_write
    BY <1>1, <1>4, CountWithinBuffer
  <2>2. /\ open_file_table' = [open_file_table EXCEPT ![fh].of_offset = @ + count]
        /\ inode_table' = [inode_table EXCEPT ![i].i_data_block = b,
                                              ![i].i_size = newsize]
        /\ free_blocks' = [free_blocks EXCEPT ![b] =
                               IF size = 0 THEN "TAKEN" ELSE @]
        /\ fs_data' = [a \in Addr |->
              IF a \in b * BLOCK_SIZE + offset .. b * BLOCK_SIZE + offset + count - 1
                THEN buffer[a - (b * BLOCK_SIZE + offset)] ELSE fs_data[a]]
    BY <1>4 DEF WriteData
  <2>3. fs_data' \in [Addr -> Bytes \cup {Junk}]
    <3> DEFINE first == b * BLOCK_SIZE + offset
    <3>1. first \in Int
      BY <1>2, SizesAssumption DEF Blocks
    <3> HIDE DEF first
    <3>2. \A a \in Addr : a \in first .. first + count - 1
                              => a - first \in 0 .. to_write - 1
      BY <2>1, <3>1 DEF Addr
    <3>3. \A a \in Addr : a \in first .. first + count - 1
                              => buffer[a - first] \in Bytes
      BY <3>2 DEF Buffers
    <3>4. fs_data' = [a \in Addr |-> IF a \in first .. first + count - 1
                                       THEN buffer[a - first] ELSE fs_data[a]]
      BY <2>2 DEF first
    <3> QED BY <3>3, <3>4
  <2>4. inode_table[i] \in InodeRecord /\ size \in Nat
    BY <1>2 DEF TablesInv, TablesType, InodeRecord
  <2>5. newsize \in Nat /\ newsize > 0
    BY <1>2, <2>1, <2>4
  <2>6. rec \in InodeRecord
    BY <2>4, <2>5 DEF InodeRecord
  <2>7. inode_table' = [inode_table EXCEPT ![i] = rec]
    BY <2>2, <1>2 DEF TablesInv, TablesType
  <2>8. [open_file_table[fh] EXCEPT !.of_offset = @ + count] \in OpenFile
    BY <1>1, <2>1 DEF OpenFile
  <2>9. /\ open_file_table' \in [Handles -> OpenFile \cup {NoFile}]
        /\ \A h \in Handles \ {fh} : open_file_table'[h] = open_file_table[h]
        /\ open_file_table'[fh] \in OpenFile
    BY <2>2, <2>8 DEF TablesInv, TablesType
  <2>10. NoFile \notin OpenFile
    BY DEF NoFile, OpenFile, Inodes
  <2>11. TablesType'
    <3> HIDE DEF rec
    <3>1. inode_table' \in [Inodes -> InodeRecord]
      BY <2>6, <2>7 DEF TablesInv, TablesType
    <3>2. free_blocks' \in [Blocks -> {"FREE", "TAKEN"}]
      BY <2>2 DEF TablesInv, TablesType
    <3> QED BY <1>4, <2>9, <3>1, <3>2 DEF TablesInv, TablesType
  <2>12. NamesInv'
    BY <1>4, <2>4, <2>7, NamesKept DEF TablesInv, TablesType, InodeRecord
  <2>13. BlocksOwned'
    <3>1. /\ inode_table'[i].i_data_block = b
          /\ \A j \in Inodes \ {i} : inode_table'[j] = inode_table[j]
      BY <2>4, <2>7, <1>2 DEF TablesInv, TablesType, InodeRecord
    <3>2. CASE size = 0
      <4>1. free_blocks[b] = "FREE" /\ free_blocks'[b] = "TAKEN"
        BY <1>4, <2>2, <3>2 DEF WriteBlock, IsFirst, FreeBlocks, TablesInv, TablesType
      <4>2. \A c \in Blocks \ {b} : free_blocks'[c] = free_blocks[c]
        BY <2>2 DEF TablesInv, TablesType
      <4> QED BY <1>4, <3>1, <4>1, <4>2 DEF TablesInv, BlocksOwned
    <3>3. CASE size # 0
      <4>1. size > 0 /\ b = inode_table[i].i_data_block /\ free_blocks' = free_blocks
        BY <1>4, <2>2, <2>4, <3>3 DEF WriteBlock, TablesInv, TablesType
      <4> QED BY <1>4, <3>1, <4>1 DEF TablesInv, BlocksOwned
    <3> QED BY <3>2, <3>3
  <2> QED BY <2>3, <2>9, <2>10, <2>11, <2>12, <2>13 DEF TablesInv
<1> QED BY <1>3, <1>4 DEF Write, tables

\* Calls that change no table and no call in progress.
LEMMA CallKept ==
    ASSUME IInv, UNCHANGED <<tables, fs_data, copying>>, ret' \in Int,
           status' \in {status, "aborted", "undefined"}
    PROVE  IInv'
<1>1. TablesInv'
  BY TablesKept DEF IInv
<1>2. CallInv'
  BY DEF IInv, CallInv, tables
<1> QED BY <1>1, <1>2 DEF IInv

\* Calls that change tables, made when no copy is in progress.
LEMMA CallOnTables ==
    ASSUME IInv, Idle, TablesInv', freeinode_ts'[ROOT_DIR_INUM] = "TAKEN",
           UNCHANGED <<status, fs_data, copying>>, ret' \in Int
    PROVE  IInv'
  BY DEF IInv, CallInv, Idle

LEMMA tfs_initStep == ASSUME IInv, tfs_init PROVE IInv'
<1>1. 0 \in Inodes /\ 0 \in Blocks /\ BLOCK_SIZE \in Nat \ {0}
  BY SizesAssumption DEF Inodes, Blocks
<1>2. TablesType'
  <2>1. /\ RawInode \in InodeRecord
        /\ [i_node_type |-> "T_DIRECTORY", hard_links_count |-> 1,
            i_size |-> BLOCK_SIZE, i_data_block |-> 0, i_target |-> NoName]
              \in InodeRecord
    BY <1>1 DEF RawInode, InodeRecord
  <2>2. inode_table' \in [Inodes -> InodeRecord]
    BY <2>1 DEF tfs_init
  <2>3. dir' \in [Slots -> [d_name : Names \cup {NoName},
                            d_inumber : Inodes \cup {-1}]]
    BY NamesAssumption DEF tfs_init
  <2> QED BY <2>2, <2>3 DEF tfs_init, TablesType
<1>3. \A s \in Slots : dir'[s].d_inumber = -1
  BY DEF tfs_init
<1>4. NamesInv'
  <2>1. SoftLinksOnce'
    BY <1>1 DEF tfs_init, SoftLinksOnce, ROOT_DIR_INUM
  <2>2. EntriesNamed' /\ StaleEntriesLast' /\ EntriesAllocated'
    BY <1>3 DEF EntriesNamed, StaleEntriesLast, EntriesAllocated
  <2>3. LinkCount'
    BY DEF tfs_init, LinkCount
  <2> QED BY <2>1, <2>2, <2>3 DEF NamesInv
<1>5. BlocksOwned'
  BY <1>1 DEF tfs_init, BlocksOwned, ROOT_DIR_INUM
<1>6. CallInv'
  BY <1>1 DEF tfs_init, IInv, CallInv, Returns, ROOT_DIR_INUM
<1> QED BY <1>2, <1>4, <1>5, <1>6 DEF IInv, TablesInv

\* The tables as Init and tfs_destroy leave them.
NoTables ==
    /\ freeinode_ts = [i \in Inodes |-> "FREE"]
    /\ inode_table = [i \in Inodes |-> RawInode]
    /\ free_blocks = [b \in Blocks |-> "FREE"]
    /\ dir = [s \in Slots |-> [d_name |-> NoName, d_inumber |-> -1]]
    /\ open_file_table = [h \in Handles |-> NoFile]

LEMMA EmptyTables == NoTables => TablesInv
<1> SUFFICES ASSUME NoTables PROVE TablesInv
  OBVIOUS
<1> USE DEF NoTables
<1>1. TablesType
  <2>1. RawInode \in InodeRecord
    BY DEF RawInode, InodeRecord
  <2> QED BY <2>1 DEF TablesType
<1>2. SoftLinksOnce /\ EntriesNamed /\ StaleEntriesLast /\ EntriesAllocated
  BY DEF SoftLinksOnce, EntriesNamed, StaleEntriesLast, EntriesAllocated
<1>3. LinkCount /\ BlocksOwned
  BY DEF LinkCount, BlocksOwned
<1> QED BY <1>1, <1>2, <1>3 DEF TablesInv, NamesInv

LEMMA tfs_destroyStep == ASSUME IInv, tfs_destroy PROVE IInv'
<1>1. TablesInv'
  <2>1. NoTables'
    BY DEF tfs_destroy, NoTables
  <2> QED BY <2>1, EmptyTables, PTL
<1>2. CallInv'
  BY DEF tfs_destroy, IInv, CallInv, Idle, Returns
<1> QED BY <1>1, <1>2 DEF IInv

LEMMA tfs_openStep ==
    ASSUME IInv, NEW n \in Names, NEW mode \in Modes, tfs_open(n, mode)
    PROVE  IInv'
<1>1. PICK fh \in Handles \cup {-1} : Open(n, mode, fh) /\ ret' = fh
  BY DEF tfs_open, Returns
<1>2. TablesInv' /\ freeinode_ts'[ROOT_DIR_INUM] = "TAKEN"
  BY <1>1, OpenStep DEF tfs_open, Idle, IInv, CallInv
<1>3. ret' \in Int
  BY <1>1 DEF Handles
<1> QED BY <1>2, <1>3, CallOnTables DEF tfs_open

LEMMA Closed ==
    ASSUME TablesInv, NEW fh \in Handles, remove_from_open_file_table(fh),
           UNCHANGED <<freeinode_ts, inode_table, free_blocks, dir>>
    PROVE  TablesInv'
<1>1. TablesType'
  BY DEF TablesInv, TablesType, remove_from_open_file_table
<1>2. NamesInv'
  BY NamesKept DEF TablesInv
<1>3. BlocksOwned'
  BY BlocksKept DEF TablesInv, BlocksOwned
<1> QED BY <1>1, <1>2, <1>3 DEF TablesInv

LEMMA tfs_closeStep ==
    ASSUME IInv, NEW fh \in Handles, tfs_close(fh)
    PROVE  IInv'
<1>1. CASE Fails
  BY <1>1, CallKept DEF Fails, Returns
<1>2. CASE /\ remove_from_open_file_table(fh)
           /\ Returns(0)
           /\ UNCHANGED <<status, freeinode_ts, inode_table, free_blocks,
                          fs_data, dir, copying>>
  <2>1. TablesInv'
    BY <1>2, Closed DEF IInv
  <2>2. freeinode_ts'[ROOT_DIR_INUM] = "TAKEN"
    BY <1>2 DEF tfs_close, Idle, IInv, CallInv
  <2> QED BY <1>2, <2>1, <2>2, CallOnTables DEF tfs_close, Returns
<1> QED BY <1>1, <1>2 DEF tfs_close

LEMMA tfs_linkStep ==
    ASSUME IInv, NEW target \in Names, NEW name \in Names, tfs_link(target, name)
    PROVE  IInv'
<1>1. CASE Fails
  BY <1>1, CallKept DEF Fails, Returns
<1>2. ASSUME NEW s \in Slots,
             Found(target, s),
             inode_table[dir[s].d_inumber].i_node_type # "T_SOFT_LINK",
             add_dir_entry(name, dir[s].d_inumber),
             inode_table' = [inode_table EXCEPT
                 ![dir[s].d_inumber].hard_links_count = @ + 1],
             Returns(0),
             UNCHANGED <<status, freeinode_ts, free_blocks, fs_data,
                         open_file_table, copying>>
      PROVE  IInv'
  <2>1. /\ dir[s].d_inumber \in Inodes
        /\ dir[s].d_inumber # ROOT_DIR_INUM
        /\ freeinode_ts[dir[s].d_inumber] = "TAKEN"
    BY <1>2, FoundInode DEF IInv
  <2>2. TablesInv'
    BY <1>2, <2>1, NewHardLink DEF IInv
  <2>3. freeinode_ts'[ROOT_DIR_INUM] = "TAKEN"
    BY <1>2 DEF tfs_link, Idle, IInv, CallInv
  <2> QED BY <1>2, <2>2, <2>3, CallOnTables DEF tfs_link, Returns
<1> QED BY <1>1, <1>2 DEF tfs_link

LEMMA tfs_sym_linkStep ==
    ASSUME IInv, NEW target \in Names, NEW name \in Names,
           tfs_sym_link(target, name)
    PROVE  IInv'
<1>1. CASE Fails
  BY <1>1, CallKept DEF Fails, Returns
<1>2. ASSUME NEW i \in Inodes,
             IsFirst(i, FreeInodes),
             inode_table' = SymLinkInode(i, target),
             UNCHANGED <<status, free_blocks, fs_data, open_file_table, copying>>,
             \/ /\ freeinode_ts' = [freeinode_ts EXCEPT ![i] = "TAKEN"]
                /\ add_dir_entry(name, i)
                /\ Returns(0)
             \/ /\ Returns(-1)
                /\ UNCHANGED <<freeinode_ts, dir>>
      PROVE  IInv'
  <2> DEFINE rec == [inode_create(i, "T_SOFT_LINK")[i] EXCEPT !.i_target = Cut[target]]
  <2>1. TablesInv /\ TablesType /\ freeinode_ts[ROOT_DIR_INUM] = "TAKEN"
    BY DEF IInv, TablesInv, CallInv, tfs_sym_link, Idle
  <2>2. freeinode_ts[i] = "FREE" /\ i # ROOT_DIR_INUM
    BY <1>2, <2>1 DEF IsFirst, FreeInodes
  <2>3. /\ rec \in InodeRecord /\ rec.hard_links_count = 1 /\ rec.i_size = 0
    BY <2>1, CreatedInode, NamesAssumption DEF InodeRecord
  <2>4. inode_table' = [inode_table EXCEPT ![i] = rec]
    BY <1>2, <2>1, CreatedInode DEF SymLinkInode, TablesType
  <2> HIDE DEF rec
  <2>5. CASE /\ freeinode_ts' = [freeinode_ts EXCEPT ![i] = "TAKEN"]
             /\ add_dir_entry(name, i)
             /\ Returns(0)
    <3>1. open_file_table' \in [Handles -> OpenFile \cup {NoFile}]
      BY <1>2, <2>1 DEF TablesType
    <3>2. TablesInv'
      BY <1>2, <2>1, <2>2, <2>3, <2>4, <2>5, <3>1, NewEntry
    <3>3. freeinode_ts'[ROOT_DIR_INUM] = "TAKEN"
      BY <2>1, <2>2, <2>5 DEF TablesType
    <3> QED BY <1>2, <2>5, <3>2, <3>3, CallOnTables DEF tfs_sym_link, Returns
  <2>6. CASE Returns(-1) /\ UNCHANGED <<freeinode_ts, dir>>
    <3>1. TablesInv'
      BY <1>2, <2>1, <2>2, <2>3, <2>4, <2>6, ScratchInode
    <3> QED BY <1>2, <2>1, <2>6, <3>1, CallOnTables DEF tfs_sym_link, Returns
  <2> QED BY <1>2, <2>5, <2>6
<1> QED BY <1>1, <1>2 DEF tfs_sym_link

LEMMA tfs_unlinkStep ==
    ASSUME IInv, NEW n \in Names, tfs_unlink(n)
    PROVE  IInv'
<1>1. CASE Fails
  BY <1>1, CallKept DEF Fails, Returns
<1>2. CASE Stops("aborted")
  BY <1>2, CallKept DEF Stops, IInv, CallInv
<1>3. ASSUME NEW s \in Slots, NEW c \in Slots,
             Found(n, s), ClearedSlot(n, c),
             ~DeletedTwice(dir[s].d_inumber),
             dir' = [dir EXCEPT ![c] = [d_name |-> NoName, d_inumber |-> -1]],
             inode_table' = [inode_table EXCEPT
                 ![dir[s].d_inumber].hard_links_count = @ - 1],
             IF Deleted(dir[s].d_inumber) THEN inode_delete(dir[s].d_inumber)
             ELSE UNCHANGED <<free_blocks, freeinode_ts>>,
             Returns(0),
             UNCHANGED <<status, fs_data, open_file_table, copying>>
      PROVE  IInv'
  <2>1. /\ dir[s].d_inumber \in Inodes
        /\ freeinode_ts[dir[s].d_inumber] = "TAKEN"
    BY <1>3, FoundInode DEF IInv
  <2>2. c = s
    BY <1>3, ClearedIsFound DEF IInv, TablesInv, NamesInv
  <2>3. inode_table[dir[s].d_inumber].i_node_type # "T_SOFT_LINK"
    BY <1>3, <2>1 DEF DeletedTwice, IInv, TablesInv, NamesInv, SoftLinksOnce
  <2>4. TablesInv' /\ freeinode_ts'[ROOT_DIR_INUM] = freeinode_ts[ROOT_DIR_INUM]
    BY <1>3, <2>1, <2>2, <2>3, EntryRemoved DEF IInv
  <2>5. freeinode_ts'[ROOT_DIR_INUM] = "TAKEN"
    BY <2>4 DEF tfs_unlink, Idle, IInv, CallInv
  <2> QED BY <1>3, <2>4, <2>5, CallOnTables DEF tfs_unlink, Returns
<1> QED BY <1>1, <1>2, <1>3 DEF tfs_unlink

LEMMA tfs_writeStep ==
    ASSUME IInv, NEW fh \in Handles, NEW to_write \in 0 .. MAX_LEN,
           NEW buffer \in Buffers(to_write), tfs_write(fh, to_write, buffer)
    PROVE  IInv'
<1>1. CASE Fails
  BY <1>1, CallKept DEF Fails, Returns
<1>2. ASSUME open_file_table[fh] # NoFile, NEW r \in -1 .. BLOCK_SIZE,
             Write(fh, to_write, buffer, r), Returns(r), UNCHANGED copying
      PROVE  IInv'
  <2>1. to_write \in Nat /\ r \in Int
    BY SizesAssumption
  <2>2. /\ TablesInv'
        /\ fs_data' \in [Addr -> Bytes \cup {Junk}]
        /\ status' \in {"running", "undefined"}
        /\ freeinode_ts' = freeinode_ts
    BY <1>2, <2>1, WriteStep DEF IInv, CallInv, tfs_write, Idle
  <2>3. CallInv'
    BY <1>2, <2>1, <2>2 DEF IInv, CallInv, tfs_write, Idle, Returns
  <2> QED BY <2>2, <2>3 DEF IInv
<1> QED BY <1>1, <1>2 DEF tfs_write

\* Sizes wrap to natural numbers.
LEMMA ReadCountNat ==
    ASSUME TablesInv, NEW fh \in Handles, open_file_table[fh] # NoFile, NEW len \in Nat
    PROVE  ReadCount(fh, len) \in Nat
<1>1. open_file_table[fh] \in OpenFile
  BY DEF TablesInv, TablesType
<1>2. /\ open_file_table[fh].of_inumber \in Inodes
      /\ open_file_table[fh].of_offset \in Nat
  BY <1>1 DEF OpenFile
<1>3. inode_table[open_file_table[fh].of_inumber].i_size \in Nat
  BY <1>2 DEF TablesInv, TablesType, InodeRecord
<1>4. (inode_table[open_file_table[fh].of_inumber].i_size
         - open_file_table[fh].of_offset) % SIZE_T \in Nat
  BY <1>2, <1>3, SizesAssumption
<1> QED BY <1>4 DEF ReadCount

LEMMA tfs_readStep ==
    ASSUME IInv, NEW fh \in Handles, NEW len \in 0 .. MAX_LEN, tfs_read(fh, len)
    PROVE  IInv'
<1>1. CASE Fails
  BY <1>1, CallKept DEF Fails, Returns
<1>2. CASE Stops("aborted") \/ Stops("undefined")
  BY <1>2, CallKept DEF Stops, IInv, CallInv
<1>3. CASE /\ open_file_table[fh] # NoFile
           /\ open_file_table' = [open_file_table EXCEPT
                                     ![fh].of_offset = @ + ReadCount(fh, len)]
           /\ ret' = ReadCount(fh, len)
           /\ UNCHANGED <<status, freeinode_ts, inode_table, free_blocks,
                          fs_data, dir, copying>>
  <2>1. ReadCount(fh, len) \in Nat
    BY <1>3, ReadCountNat, SizesAssumption DEF IInv
  <2>2. open_file_table[fh] \in OpenFile
    BY <1>3 DEF IInv, TablesInv, TablesType
  <2>3. [open_file_table[fh] EXCEPT !.of_offset = @ + ReadCount(fh, len)] \in OpenFile
    BY <2>1, <2>2 DEF OpenFile
  <2>4. TablesType'
    BY <1>3, <2>3 DEF IInv, TablesInv, TablesType
  <2>5. NamesInv'
    BY <1>3, NamesKept DEF IInv, TablesInv
  <2>6. BlocksOwned'
    BY <1>3, BlocksKept DEF IInv, TablesInv, BlocksOwned
  <2>7. freeinode_ts'[ROOT_DIR_INUM] = "TAKEN"
    BY <1>3 DEF tfs_read, Idle, IInv, CallInv
  <2> QED BY <1>3, <2>1, <2>4, <2>5, <2>6, <2>7, CallOnTables
          DEF TablesInv, tfs_read
<1> QED BY <1>1, <1>2, <1>3 DEF tfs_read

LEMMA CopyOpenStep ==
    ASSUME IInv, NEW n \in Names, NEW length \in -1 .. MAX_SOURCE, CopyOpen(n, length)
    PROVE  IInv'
<1>1. CASE Fails
  BY <1>1, CallKept DEF Fails, Returns
<1>2. ASSUME length >= 0, NEW fh \in Handles \cup {-1}, Open(n, CopyMode, fh),
             Returns(IF fh = -1 THEN -1 ELSE ret),
             copying' = IF fh = -1 THEN NoCopy ELSE [fhandle |-> fh, left |-> length],
             UNCHANGED <<status, fs_data>>
      PROVE  IInv'
  <2>1. /\ TablesInv'
        /\ freeinode_ts'[ROOT_DIR_INUM] = "TAKEN"
        /\ fh # -1 => open_file_table'[fh] # NoFile
    BY <1>2, OpenStep DEF CopyOpen, Idle, IInv, CallInv
  <2>2. length \in Nat
    BY <1>2, SizesAssumption
  <2>3. CallInv'
    BY <1>2, <2>1, <2>2 DEF IInv, CallInv, CopyOpen, Idle, Returns
  <2> QED BY <2>1, <2>3 DEF IInv
<1> QED BY <1>1, <1>2 DEF CopyOpen

\* The handle of the copy in progress is open.
LEMMA CopyHandle ==
    ASSUME IInv, copying # NoCopy
    PROVE  /\ copying.fhandle \in Handles
           /\ open_file_table[copying.fhandle] # NoFile
           /\ copying \in [fhandle : Handles, left : Nat]
  BY DEF IInv, CallInv

LEMMA CopyChunkStep ==
    ASSUME IInv, NEW chunk \in 1 .. MAX_SOURCE, NEW buffer \in Buffers(chunk),
           CopyChunk(chunk, buffer)
    PROVE  IInv'
<1>1. /\ copying # NoCopy /\ copying.fhandle \in Handles
      /\ open_file_table[copying.fhandle] # NoFile
      /\ copying \in [fhandle : Handles, left : Nat]
      /\ status = "running" /\ chunk \in Nat /\ chunk <= copying.left
  BY CopyHandle, SizesAssumption DEF CopyChunk
<1>2. CASE CopyStores(chunk, buffer)
  <2>1. PICK r \in -1 .. BLOCK_SIZE : Write(copying.fhandle, chunk, buffer, r)
    BY <1>2 DEF CopyStores
  <2>2. r \in Int
    BY <2>1
  <2>3. /\ TablesInv'
        /\ fs_data' \in [Addr -> Bytes \cup {Junk}]
        /\ status' \in {"running", "undefined"}
        /\ freeinode_ts' = freeinode_ts
        /\ \A h \in Handles : open_file_table[h] # NoFile
                                 => open_file_table'[h] # NoFile
    BY <1>1, <2>1, <2>2, WriteStep DEF IInv, CallInv
  <2>4. /\ copying' \in [fhandle : Handles, left : Nat]
        /\ copying'.fhandle = copying.fhandle
    BY <1>1, <1>2 DEF CopyStores
  <2>5. CallInv'
    BY <1>1, <1>2, <2>3, <2>4 DEF IInv, CallInv, CopyStores
  <2> QED BY <2>3, <2>5 DEF IInv
<1>3. CASE CopyGivesUp(chunk)
  <2>1. TablesInv'
    BY <1>1, <1>3, Closed DEF IInv, CopyGivesUp
  <2>2. CallInv'
    BY <1>1, <1>3 DEF IInv, CallInv, CopyGivesUp, Returns
  <2> QED BY <2>1, <2>2 DEF IInv
<1> QED BY <1>2, <1>3 DEF CopyChunk

LEMMA CopyReturnsStep == ASSUME IInv, CopyReturns PROVE IInv'
<1>1. TablesInv'
  BY CopyHandle, Closed DEF IInv, CopyReturns
<1>2. CallInv'
  BY DEF IInv, CallInv, CopyReturns, Returns
<1> QED BY <1>1, <1>2 DEF IInv

(***************************************************************************)
(* Theorems                                                                *)
(***************************************************************************)
\* Every step of every caller keeps the tables consistent.
LEMMA NextProof == ASSUME IInv, [Next]_vars PROVE IInv'
<1>1. CASE UNCHANGED vars
  BY <1>1, CallKept DEF vars, tables, IInv, CallInv
<1>2. CASE tfs_init
  BY <1>2, tfs_initStep
<1>3. CASE tfs_init_again
  BY <1>3, CallKept DEF tfs_init_again, Fails, Returns
<1>4. CASE tfs_destroy
  BY <1>4, tfs_destroyStep
<1>5. CASE \E n \in Names, mode \in Modes : tfs_open(n, mode)
  BY <1>5, tfs_openStep
<1>6. CASE \E fh \in Handles : tfs_close(fh)
  BY <1>6, tfs_closeStep
<1>7. CASE \E target, name \in Names : tfs_link(target, name)
  BY <1>7, tfs_linkStep
<1>8. CASE \E target, name \in Names : tfs_sym_link(target, name)
  BY <1>8, tfs_sym_linkStep
<1>9. CASE \E n \in Names : tfs_unlink(n)
  BY <1>9, tfs_unlinkStep
<1>10. CASE \E fh \in Handles, to_write \in 0 .. MAX_LEN :
              \E buffer \in Buffers(to_write) : tfs_write(fh, to_write, buffer)
  BY <1>10, tfs_writeStep
<1>11. CASE \E fh \in Handles, len \in 0 .. MAX_LEN : tfs_read(fh, len)
  BY <1>11, tfs_readStep
<1>12. CASE \E n \in Names, length \in -1 .. MAX_SOURCE : CopyOpen(n, length)
  BY <1>12, CopyOpenStep
<1>13. CASE \E chunk \in 1 .. MAX_SOURCE : \E buffer \in Buffers(chunk) :
              CopyChunk(chunk, buffer)
  BY <1>13, CopyChunkStep
<1>14. CASE CopyEnd \/ CopyReadFails
  BY <1>14, CopyReturnsStep DEF CopyEnd, CopyReadFails
<1> QED BY <1>1, <1>2, <1>3, <1>4, <1>5, <1>6, <1>7, <1>8, <1>9, <1>10,
           <1>11, <1>12, <1>13, <1>14 DEF Next

LEMMA InitProof == ASSUME Init PROVE IInv
<1>1. TablesInv
  BY EmptyTables DEF Init, NoTables
<1>2. CallInv
  BY DEF Init, CallInv
<1> QED BY <1>1, <1>2 DEF IInv

\* Init, and every call of every caller, keeps the tables consistent.
THEOREM Consistent == Spec => []IInv
<1>1. Init => IInv
  BY InitProof
<1>2. IInv /\ [Next]_vars => IInv'
  BY NextProof
<1> QED BY <1>1, <1>2, PTL DEF Spec

\* Every table of state.c holds values of its type, in particular no link
\* count goes below 0.
THEOREM TypeCorrect == Spec => []TypeOK
<1>1. IInv => TypeOK
  BY DEF IInv, TablesInv, TablesType, CallInv, TypeOK
<1> QED BY <1>1, Consistent, PTL

\* Every directory entry leads to an allocated inode other than the root's.
THEOREM EntriesAllocatedCorrect == Spec => []EntriesAllocated
<1>1. IInv => EntriesAllocated
  BY DEF IInv, TablesInv, NamesInv
<1> QED BY <1>1, Consistent, PTL

\* hard_links_count is the number of names of an allocated inode, which has one.
THEOREM LinkCountCorrect == Spec => []LinkCount
<1>1. IInv => LinkCount
  BY DEF IInv, TablesInv, NamesInv
<1> QED BY <1>1, Consistent, PTL

\* A non-empty allocated inode owns an allocated block, which no other has.
THEOREM BlocksOwnedCorrect == Spec => []BlocksOwned
<1>1. IInv => BlocksOwned
  BY DEF IInv, TablesInv
<1> QED BY <1>1, Consistent, PTL

\* The entry tfs_unlink clears is the one its lookup found.
THEOREM UnlinkClearsWhatItFoundCorrect == Spec => []UnlinkClearsWhatItFound
<1>1. IInv => UnlinkClearsWhatItFound
  BY ClearedIsFound DEF IInv, TablesInv, NamesInv, UnlinkClearsWhatItFound
<1> QED BY <1>1, Consistent, PTL

\* The bytes of a block are addresses of the data, and of no other block.
LEMMA BlockAddresses ==
    ASSUME NEW b \in Blocks, NEW k \in 0 .. BLOCK_SIZE - 1
    PROVE  /\ b * BLOCK_SIZE \in Nat
           /\ b * BLOCK_SIZE + k \in Addr
           /\ \A c \in Blocks, l \in 0 .. BLOCK_SIZE - 1 :
                 c # b => b * BLOCK_SIZE + k # c * BLOCK_SIZE + l
<1>1. /\ BLOCK_SIZE \in Nat /\ MAX_BLOCKS \in Nat
      /\ b \in Nat /\ b + 1 <= MAX_BLOCKS
  BY SizesAssumption DEF Blocks
<1>2. \A x, y \in Nat : x + 1 <= y => x * BLOCK_SIZE + BLOCK_SIZE <= y * BLOCK_SIZE
  BY <1>1
<1>3. b * BLOCK_SIZE \in Nat
  BY <1>1
<1>4. b * BLOCK_SIZE + k \in Addr
  BY <1>1, <1>2, <1>3 DEF Addr
<1>5. ASSUME NEW c \in Blocks, NEW l \in 0 .. BLOCK_SIZE - 1, c # b
      PROVE  b * BLOCK_SIZE + k # c * BLOCK_SIZE + l
  <2>1. c \in Nat /\ c * BLOCK_SIZE \in Nat
    BY <1>1 DEF Blocks
  <2>2. \/ b * BLOCK_SIZE + BLOCK_SIZE <= c * BLOCK_SIZE
        \/ c * BLOCK_SIZE + BLOCK_SIZE <= b * BLOCK_SIZE
    BY <1>1, <1>2, <1>5, <2>1
  <2> QED BY <1>1, <1>3, <2>1, <2>2
<1> QED BY <1>3, <1>4, <1>5

(***************************************************************************)
(* Calls that stop the library                                             *)
(***************************************************************************)
\* What an inode says of its contents is inside a block of the tables.
InodeFits(inode) == /\ inode.i_size <= BLOCK_SIZE
                    /\ inode.i_size > 0 => inode.i_data_block \in Blocks

\* That is so of every inode, the deleted ones included, and the cursor of the
\* import in progress is inside its block.
SizesInv ==
    /\ IInv
    /\ \A i \in Inodes : InodeFits(inode_table[i])
    /\ copying # NoCopy => open_file_table[copying.fhandle].of_offset <= BLOCK_SIZE

\* An empty inode fits, whatever else was set in it, and so does one that keeps
\* its size and block.
LEMMA FitsEmpty ==
    ASSUME NEW inode, inode.i_size = 0
    PROVE  InodeFits(inode)
BY SizesAssumption DEF InodeFits

LEMMA FitsKept ==
    ASSUME \A i \in Inodes : InodeFits(inode_table[i]),
           \A i \in Inodes :
              \/ inode_table'[i].i_size = 0
              \/ /\ inode_table'[i].i_size = inode_table[i].i_size
                 /\ inode_table'[i].i_data_block = inode_table[i].i_data_block
    PROVE  \A i \in Inodes : InodeFits(inode_table'[i])
BY FitsEmpty DEF InodeFits

\* tfs_open sets the cursor to a size.
LEMMA OpenFits ==
    ASSUME SizesInv, NEW n \in Names, NEW mode, NEW fh \in Handles \cup {-1},
           Open(n, mode, fh)
    PROVE  /\ \A i \in Inodes : InodeFits(inode_table'[i])
           /\ fh # -1 => open_file_table'[fh].of_offset <= BLOCK_SIZE
<1>1. TablesInv /\ TablesType /\ \A i \in Inodes : InodeFits(inode_table[i])
  BY DEF SizesInv, IInv, TablesInv
<1>2. ASSUME NEW inum, NEW offset, offset <= BLOCK_SIZE,
             add_to_open_file_table(inum, offset, fh), fh # -1
      PROVE  open_file_table'[fh].of_offset <= BLOCK_SIZE
  BY <1>1, <1>2 DEF add_to_open_file_table, IsFirst, FreeHandles, TablesType
<1>3. CASE OpenExisting(n, mode, fh)
  <2>1. PICK s \in Slots, inum \in Inodes :
           /\ Found(n, s)
           /\ \E size \in {0, inode_table[dir[s].d_inumber].i_size} :
                 /\ inode_table' = [inode_table EXCEPT ![dir[s].d_inumber].i_size = size]
                 /\ \E offset \in {0, size} : add_to_open_file_table(inum, offset, fh)
    BY <1>3 DEF OpenExisting
  <2>2. PICK i \in Inodes : i = dir[s].d_inumber
    BY <1>1, <2>1, FoundInode
  <2>3. PICK size \in {0, inode_table[i].i_size} :
           /\ inode_table' = [inode_table EXCEPT ![i].i_size = size]
           /\ \E offset \in {0, size} : add_to_open_file_table(inum, offset, fh)
    BY <2>1, <2>2
  <2>4. size <= BLOCK_SIZE
    BY <1>1, <2>3, SizesAssumption DEF InodeFits
  <2>5. inode_table[i] \in InodeRecord
    BY <1>1 DEF TablesType
  <2>6. /\ inode_table'[i].i_size = size
        /\ inode_table'[i].i_data_block = inode_table[i].i_data_block
        /\ \A j \in Inodes \ {i} : inode_table'[j] = inode_table[j]
    BY <1>1, <2>3, <2>5 DEF TablesType, InodeRecord
  <2>7. \A j \in Inodes : InodeFits(inode_table'[j])
    BY <1>1, <2>3, <2>6, FitsKept
  <2>8. \A offset \in {0, size} : offset <= BLOCK_SIZE
    BY <2>4, SizesAssumption
  <2> QED BY <1>2, <2>3, <2>7, <2>8
<1>4. ASSUME NEW i \in Inodes, inode_table' = inode_create(i, "T_FILE")
      PROVE  \A j \in Inodes : InodeFits(inode_table'[j])
  <2>1. /\ inode_table'[i].i_size = 0
        /\ \A j \in Inodes \ {i} : inode_table'[j] = inode_table[j]
    BY <1>1, <1>4, CreatedInode DEF TablesType
  <2> QED BY <1>1, <2>1, FitsKept
<1>5. CASE OpenCreates(n, mode, fh)
  <2>1. \E i \in Inodes : /\ inode_table' = inode_create(i, "T_FILE")
                          /\ add_to_open_file_table(i, 0, fh)
    BY <1>5 DEF OpenCreates
  <2>2. 0 <= BLOCK_SIZE
    BY SizesAssumption
  <2> QED BY <1>2, <1>4, <2>1, <2>2
<1>6. CASE fh = -1 /\ OpenCannotCreate(n, mode)
  <2>1. \E i \in Inodes : inode_table' = inode_create(i, "T_FILE")
    BY <1>6 DEF OpenCannotCreate
  <2> QED BY <1>4, <1>6, <2>1
<1>7. CASE fh = -1 /\ UNCHANGED tables
  BY <1>1, <1>7, FitsKept DEF tables
<1> QED BY <1>3, <1>5, <1>6, <1>7 DEF Open

\* tfs_write, from a cursor inside the block, stays inside it.
LEMMA WriteInside ==
    ASSUME SizesInv, Running, NEW fh \in Handles, open_file_table[fh] # NoFile,
           NEW to_write \in Nat, NEW buffer, NEW r, Write(fh, to_write, buffer, r)
    PROVE  /\ \A i \in Inodes : InodeFits(inode_table'[i])
           /\ status' # "running" => open_file_table[fh].of_offset > BLOCK_SIZE
           /\ open_file_table[fh].of_offset <= BLOCK_SIZE
                 => open_file_table'[fh].of_offset <= BLOCK_SIZE
<1>1. TablesType /\ \A i \in Inodes : InodeFits(inode_table[i])
  BY DEF SizesInv, IInv, TablesInv
<1>2. open_file_table[fh] \in OpenFile
  BY <1>1 DEF TablesType
<1>3. PICK i \in Inodes, offset \in Nat : /\ i = open_file_table[fh].of_inumber
                                          /\ offset = open_file_table[fh].of_offset
  BY <1>2 DEF OpenFile
<1>4. inode_table[i] \in InodeRecord /\ inode_table[i].i_size \in Nat
  BY <1>1 DEF TablesType, InodeRecord
<1>5. PICK count : count = WriteCount(fh, to_write)
  OBVIOUS
<1>6. count \in Nat
  BY <1>3, <1>5, SizesAssumption DEF WriteCount
<1>7. offset <= BLOCK_SIZE => offset + count <= BLOCK_SIZE
  <2> SUFFICES ASSUME offset <= BLOCK_SIZE PROVE offset + count <= BLOCK_SIZE
    OBVIOUS
  <2>1. (BLOCK_SIZE - offset) % SIZE_T = BLOCK_SIZE - offset
    BY <1>3, SizesAssumption
  <2> QED BY <1>3, <1>5, <2>1, SizesAssumption DEF WriteCount
<1>8. CASE UNCHANGED <<tables, fs_data>> /\ (status' = status \/ offset + count > BLOCK_SIZE)
  <2>1. status' # "running" => offset > BLOCK_SIZE
    BY <1>3, <1>6, <1>7, <1>8, SizesAssumption DEF Running
  <2> QED BY <1>1, <1>3, <1>8, <2>1, FitsKept DEF tables
<1>9. ASSUME count > 0, NEW b \in Blocks, offset + count <= BLOCK_SIZE,
             WriteData(fh, b, count, buffer), UNCHANGED status
      PROVE  /\ \A j \in Inodes : InodeFits(inode_table'[j])
             /\ open_file_table'[fh].of_offset <= BLOCK_SIZE
             /\ status' = "running"
  <2>1. PICK size : /\ size = IF offset + count > inode_table[i].i_size
                                THEN offset + count ELSE inode_table[i].i_size
                    /\ inode_table' = [inode_table EXCEPT
                          ![i].i_data_block = b, ![i].i_size = size]
                    /\ open_file_table' = [open_file_table EXCEPT ![fh].of_offset = @ + count]
    BY <1>3, <1>9 DEF WriteData
  <2>2. size <= BLOCK_SIZE
    BY <1>1, <1>9, <2>1 DEF InodeFits
  <2>3. /\ inode_table'[i].i_size = size /\ inode_table'[i].i_data_block = b
        /\ \A j \in Inodes \ {i} : inode_table'[j] = inode_table[j]
    BY <1>1, <1>4, <2>1 DEF TablesType, InodeRecord
  <2>4. open_file_table'[fh].of_offset = offset + count
    BY <1>1, <1>2, <1>3, <2>1 DEF TablesType, OpenFile
  <2>5. InodeFits(inode_table'[i])
    BY <1>9, <2>2, <2>3 DEF InodeFits
  <2>6. \A j \in Inodes : InodeFits(inode_table'[j])
    BY <1>1, <2>3, <2>5
  <2> QED BY <1>9, <2>4, <2>6 DEF Running
<1>10. \/ UNCHANGED <<tables, fs_data>> /\ (status' = status \/ offset + count > BLOCK_SIZE)
       \/ \E b \in Blocks : /\ count > 0 /\ offset + count <= BLOCK_SIZE
                            /\ WriteData(fh, b, count, buffer)
                            /\ UNCHANGED status
  BY <1>3, <1>5 DEF Write
<1> QED BY <1>3, <1>8, <1>9, <1>10

\* tfs_read, from a cursor inside the file, stays inside it.
LEMMA ReadStops ==
    ASSUME SizesInv, NEW fh \in Handles, NEW len \in 0 .. MAX_LEN, tfs_read(fh, len),
           status' # "running"
    PROVE  /\ open_file_table[fh] # NoFile
           /\ open_file_table[fh].of_offset
                 > inode_table[open_file_table[fh].of_inumber].i_size
<1>1. TablesType /\ \A i \in Inodes : InodeFits(inode_table[i])
  BY DEF SizesInv, IInv, TablesInv
<1>2. status = "running"
  BY DEF tfs_read, Idle
<1>3. open_file_table[fh] # NoFile
  BY <1>2 DEF tfs_read, Fails
<1>4. open_file_table[fh] \in OpenFile
  BY <1>1, <1>3 DEF TablesType
<1>5. PICK i \in Inodes, offset \in Nat : /\ i = open_file_table[fh].of_inumber
                                          /\ offset = open_file_table[fh].of_offset
  BY <1>4 DEF OpenFile
<1>6. PICK size \in Nat : size = inode_table[i].i_size
  BY <1>1 DEF TablesType, InodeRecord
<1>7. SUFFICES ASSUME offset <= size PROVE FALSE
  BY <1>3, <1>5, <1>6
<1>8. PICK count : count = ReadCount(fh, len)
  OBVIOUS
<1>9. size <= BLOCK_SIZE
  BY <1>1, <1>6 DEF InodeFits
<1>10. count \in Nat /\ offset + count <= BLOCK_SIZE
  <2>1. (size - offset) % SIZE_T = size - offset
    <3>1. PICK left \in Nat : left = size - offset
      BY <1>7
    <3>2. SIZE_T \in Nat /\ left < SIZE_T
      BY <1>9, <3>1, SizesAssumption
    <3>3. left % SIZE_T = left
      BY ONLY <3>1, <3>2, SMT
    <3> QED BY <3>1, <3>3
  <2> QED BY <1>5, <1>6, <1>7, <1>8, <1>9, <2>1, SizesAssumption DEF ReadCount
<1>11. count > 0 => size > 0
  <2>1. SUFFICES ASSUME size = 0 PROVE ~ (count > 0)
    BY <1>6
  <2>2. offset = 0 /\ (size - offset) % SIZE_T = 0
    BY <1>5, <1>7, <2>1, SizesAssumption
  <2> QED BY <1>5, <1>6, <1>8, <2>2, SizesAssumption DEF ReadCount
<1>12. count > 0 => inode_table[i].i_data_block \in Blocks
  BY <1>1, <1>6, <1>11 DEF InodeFits
<1>13. ASSUME count > 0
       PROVE  (inode_table[i].i_data_block * BLOCK_SIZE + offset) + count - 1 \in Addr
  <2>1. PICK k \in 0 .. BLOCK_SIZE - 1 : k = offset + count - 1
    BY <1>5, <1>10, <1>13, SizesAssumption
  <2>2. PICK base \in Nat : base = inode_table[i].i_data_block * BLOCK_SIZE
    BY <1>12, <1>13, <2>1, BlockAddresses
  <2>3. base + k \in Addr
    BY <1>12, <1>13, <2>2, BlockAddresses
  <2>4. (base + offset) + count - 1 = base + k
    BY <1>5, <1>10, <2>1, <2>2
  <2> QED BY <2>2, <2>3, <2>4
<1> QED BY <1>2, <1>3, <1>5, <1>8, <1>12, <1>13 DEF tfs_read, Stops

\* A step keeps what SizesInv adds, and stops the library as ThreeCallsStop says.
WaysToStop ==
    \/ \E n \in Names, s \in Slots :
          /\ tfs_unlink(n) /\ Found(n, s)
          /\ inode_table[dir[s].d_inumber].i_node_type = "T_SOFT_LINK"
    \/ \E fh \in Handles \ FreeHandles :
          LET file == open_file_table[fh]
          IN \/ /\ file.of_offset > inode_table[file.of_inumber].i_size
                /\ \E len \in 0 .. MAX_LEN : tfs_read(fh, len)
             \/ /\ file.of_offset > BLOCK_SIZE
                /\ \E to_write \in 0 .. MAX_LEN : \E buffer \in Buffers(to_write) :
                      tfs_write(fh, to_write, buffer)

LEMMA SizesStep ==
    ASSUME SizesInv, Next
    PROVE  /\ SizesInv'
           /\ Running /\ status' \in {"aborted", "undefined"} => WaysToStop
<1>1. IInv /\ IInv' /\ TablesInv /\ TablesType /\ \A i \in Inodes : InodeFits(inode_table[i])
  BY NextProof DEF SizesInv, IInv, TablesInv
<1> DEFINE Good == /\ \A i \in Inodes : InodeFits(inode_table'[i])
                   /\ copying' # NoCopy
                         => open_file_table'[copying'.fhandle].of_offset <= BLOCK_SIZE
                   /\ Running /\ status' \in {"aborted", "undefined"} => WaysToStop
<1>2. SUFFICES Good
  BY <1>1 DEF SizesInv
<1>3. ASSUME UNCHANGED <<inode_table, open_file_table, copying>>,
             status' = status \/ WaysToStop
      PROVE  Good
  BY <1>1, <1>3, FitsKept DEF SizesInv, Running
<1>4. CASE Fails
  BY <1>3, <1>4 DEF Fails, tables
<1>5. ASSUME copying' = NoCopy, \A i \in Inodes : InodeFits(inode_table'[i]),
             status' \in {status, "running", "uninit"}
      PROVE  Good
  BY <1>5 DEF Running
<1>6. CASE tfs_init
  <2>1. RawInode.i_size = 0 /\ copying = NoCopy
    BY <1>1, <1>6 DEF RawInode, IInv, CallInv, tfs_init
  <2>2. \A i \in Inodes : InodeFits(inode_table'[i])
    BY <1>6, <2>1, FitsEmpty, SizesAssumption DEF tfs_init, InodeFits, Blocks
  <2> QED BY <1>5, <1>6, <2>1, <2>2 DEF tfs_init
<1>7. CASE tfs_destroy
  <2>1. \A i \in Inodes : InodeFits(inode_table'[i])
    BY <1>7, FitsEmpty DEF tfs_destroy, RawInode
  <2> QED BY <1>5, <1>7, <2>1 DEF tfs_destroy, Idle
<1>8. ASSUME NEW n \in Names, NEW mode \in Modes, tfs_open(n, mode) PROVE Good
  BY <1>5, <1>8, OpenFits DEF tfs_open, Idle
<1>9. ASSUME NEW fh \in Handles, tfs_close(fh) PROVE Good
  <2>1. ASSUME ~Fails PROVE UNCHANGED <<inode_table, status, copying>> /\ copying = NoCopy
    BY <1>9, <2>1 DEF tfs_close, Idle
  <2> QED BY <1>1, <1>4, <1>5, <2>1, FitsKept
<1>10. ASSUME NEW target \in Names, NEW name \in Names, tfs_link(target, name) PROVE Good
  <2>1. ASSUME ~Fails PROVE Good
    <3>1. PICK s \in Slots :
             /\ Found(target, s)
             /\ inode_table' = [inode_table EXCEPT ![dir[s].d_inumber].hard_links_count = @ + 1]
      BY <1>10, <2>1 DEF tfs_link
    <3>2. PICK i \in Inodes : i = dir[s].d_inumber
      BY <1>1, <3>1, FoundInode
    <3>3. inode_table[i] \in InodeRecord
      BY <1>1 DEF TablesType
    <3>4. \A j \in Inodes : /\ inode_table'[j].i_size = inode_table[j].i_size
                            /\ inode_table'[j].i_data_block = inode_table[j].i_data_block
      BY <1>1, <3>1, <3>2, <3>3 DEF TablesType, InodeRecord
    <3> QED BY <1>1, <1>5, <1>10, <2>1, <3>4, FitsKept DEF tfs_link, Idle
  <2> QED BY <1>4, <2>1
<1>11. ASSUME NEW target \in Names, NEW name \in Names, tfs_sym_link(target, name) PROVE Good
  <2>1. ASSUME ~Fails PROVE Good
    <3>1. PICK i \in Inodes : inode_table' = SymLinkInode(i, target)
      BY <1>11, <2>1 DEF tfs_sym_link
    <3>2. PICK rec : /\ inode_create(i, "T_SOFT_LINK") = [inode_table EXCEPT ![i] = rec]
                     /\ rec \in InodeRecord /\ rec.i_size = 0
      BY <1>1, CreatedInode
    <3>3. PICK linked : linked = [rec EXCEPT !.i_target = Cut[target]]
      OBVIOUS
    <3>4. linked.i_size = 0
      BY <3>2, <3>3 DEF InodeRecord
    <3>5. inode_table' = [inode_table EXCEPT ![i] = linked]
      BY <1>1, <3>1, <3>2, <3>3 DEF SymLinkInode, TablesType
    <3>6. \A j \in Inodes : inode_table'[j].i_size = 0 \/ inode_table'[j] = inode_table[j]
      BY <1>1, <3>4, <3>5 DEF TablesType
    <3> QED BY <1>1, <1>5, <1>11, <2>1, <3>6, FitsKept DEF tfs_sym_link, Idle
  <2> QED BY <1>4, <2>1
<1>12. ASSUME NEW n \in Names, tfs_unlink(n) PROVE Good
  <2>1. ASSUME Stops("aborted") PROVE Good
    <3>1. status = "running"
      BY <1>12 DEF tfs_unlink, Idle
    <3>2. \E s \in Slots : Found(n, s) /\ DeletedTwice(dir[s].d_inumber)
      BY <1>12, <2>1, <3>1 DEF tfs_unlink, Stops, Fails
    <3>3. WaysToStop
      BY <1>12, <3>2 DEF WaysToStop, DeletedTwice
    <3> QED BY <1>3, <2>1, <3>3 DEF Stops, tables
  <2>2. ASSUME ~Fails, ~Stops("aborted") PROVE Good
    <3>1. PICK s \in Slots :
             /\ Found(n, s)
             /\ inode_table' = [inode_table EXCEPT ![dir[s].d_inumber].hard_links_count = @ - 1]
             /\ UNCHANGED <<status, copying>>
      BY <1>12, <2>2 DEF tfs_unlink
    <3>2. PICK i \in Inodes : i = dir[s].d_inumber
      BY <1>1, <3>1, FoundInode
    <3>3. inode_table[i] \in InodeRecord
      BY <1>1 DEF TablesType
    <3>4. \A j \in Inodes : /\ inode_table'[j].i_size = inode_table[j].i_size
                            /\ inode_table'[j].i_data_block = inode_table[j].i_data_block
      BY <1>1, <3>1, <3>2, <3>3 DEF TablesType, InodeRecord
    <3> QED BY <1>1, <1>5, <1>12, <3>1, <3>4, FitsKept DEF tfs_unlink, Idle
  <2> QED BY <1>4, <2>1, <2>2
<1>13. ASSUME NEW fh \in Handles, NEW to_write \in 0 .. MAX_LEN,
              NEW buffer \in Buffers(to_write), tfs_write(fh, to_write, buffer)
       PROVE  Good
  <2>1. ASSUME ~Fails PROVE Good
    <3>1. /\ open_file_table[fh] # NoFile /\ Running
          /\ \E r : Write(fh, to_write, buffer, r)
          /\ copying = NoCopy /\ UNCHANGED copying
      BY <1>13, <2>1 DEF tfs_write, Idle, Running
    <3>2. to_write \in Nat
      BY SizesAssumption
    <3>3. /\ \A i \in Inodes : InodeFits(inode_table'[i])
          /\ status' # "running" => open_file_table[fh].of_offset > BLOCK_SIZE
      BY <3>1, <3>2, WriteInside
    <3>4. status' # "running" => WaysToStop
      BY <1>13, <3>1, <3>3 DEF WaysToStop, FreeHandles
    <3> QED BY <3>1, <3>3, <3>4
  <2> QED BY <1>4, <2>1
<1>14. ASSUME NEW fh \in Handles, NEW len \in 0 .. MAX_LEN, tfs_read(fh, len) PROVE Good
  <2>1. UNCHANGED <<inode_table, copying>> /\ copying = NoCopy
    BY <1>14 DEF tfs_read, Idle, Fails, Stops, tables
  <2>2. status' # "running" => WaysToStop
    BY <1>14, ReadStops DEF WaysToStop, FreeHandles
  <2>3. \A i \in Inodes : InodeFits(inode_table'[i])
    BY <1>1, <2>1, FitsKept
  <2> QED BY <2>1, <2>2, <2>3
<1>15. ASSUME NEW n \in Names, NEW length \in -1 .. MAX_SOURCE, CopyOpen(n, length) PROVE Good
  <2>1. ASSUME ~Fails PROVE Good
    <3>1. PICK fh \in Handles \cup {-1} :
             /\ Open(n, CopyMode, fh)
             /\ copying' = IF fh = -1 THEN NoCopy ELSE [fhandle |-> fh, left |-> length]
             /\ UNCHANGED status
      BY <1>15, <2>1 DEF CopyOpen
    <3>2. /\ \A i \in Inodes : InodeFits(inode_table'[i])
          /\ fh # -1 => open_file_table'[fh].of_offset <= BLOCK_SIZE
      BY <3>1, OpenFits
    <3> QED BY <3>1, <3>2 DEF Running
  <2> QED BY <1>4, <2>1
<1>16. ASSUME NEW chunk \in 1 .. MAX_SOURCE, NEW buffer \in Buffers(chunk),
              CopyChunk(chunk, buffer)
       PROVE  Good
  <2>1. PICK fh \in Handles : /\ fh = copying.fhandle
                              /\ open_file_table[fh] # NoFile
                              /\ open_file_table[fh].of_offset <= BLOCK_SIZE
                              /\ open_file_table[fh].of_offset \in Nat
                              /\ copying \in [fhandle : Handles, left : Nat]
    BY <1>1, <1>16, CopyHandle DEF CopyChunk, SizesInv, TablesType, OpenFile
  <2>2. ASSUME CopyStores(chunk, buffer) PROVE Good
    <3>1. /\ \E r : Write(fh, chunk, buffer, r)
          /\ copying'.fhandle = fh
      BY <2>1, <2>2 DEF CopyStores
    <3>2. Running /\ chunk \in Nat
      BY <1>16, SizesAssumption DEF CopyChunk, Running
    <3>3. /\ \A i \in Inodes : InodeFits(inode_table'[i])
          /\ status' # "running" => open_file_table[fh].of_offset > BLOCK_SIZE
          /\ open_file_table'[fh].of_offset <= BLOCK_SIZE
      BY <2>1, <3>1, <3>2, WriteInside
    <3>4. status' = "running"
      BY <2>1, <3>3, SizesAssumption
    <3> QED BY <3>1, <3>3, <3>4
  <2>3. ASSUME CopyGivesUp(chunk) PROVE Good
    <3>1. \A i \in Inodes : InodeFits(inode_table'[i])
      BY <1>1, <2>3, FitsKept DEF CopyGivesUp
    <3> QED BY <1>5, <2>3, <3>1 DEF CopyGivesUp
  <2> QED BY <1>16, <2>2, <2>3 DEF CopyChunk
<1>17. ASSUME CopyReturns PROVE Good
  <2>1. \A i \in Inodes : InodeFits(inode_table'[i])
    BY <1>1, <1>17, FitsKept DEF CopyReturns
  <2> QED BY <1>5, <1>17, <2>1 DEF CopyReturns
<1> QED BY <1>4, <1>6, <1>7, <1>8, <1>9, <1>10, <1>11, <1>12, <1>13, <1>14,
           <1>15, <1>16, <1>17
        DEF Next, tfs_init_again, CopyEnd, CopyReadFails

\* Whatever is called, in whatever order and on tables of any size, an assertion
\* fails or memory outside the tables is used only when a soft link is unlinked
\* or a cursor is past the end.
THEOREM ThreeCallsStopCorrect == Spec => ThreeCallsStop
<1>1. Init => SizesInv
  <2> SUFFICES ASSUME Init PROVE SizesInv
    OBVIOUS
  <2>1. \A i \in Inodes : InodeFits(inode_table[i])
    BY FitsEmpty DEF Init, RawInode
  <2> QED BY <2>1, InitProof DEF Init, SizesInv
<1>2. SizesInv /\ [Next]_vars => SizesInv'
  <2>1. ASSUME SizesInv, UNCHANGED vars PROVE SizesInv'
    BY <2>1, NextProof DEF SizesInv, vars
  <2> QED BY <2>1, SizesStep
<1>3. SizesInv /\ [Next]_vars =>
         [Running /\ status' \in {"aborted", "undefined"} => WaysToStop]_vars
  BY SizesStep
<1> QED BY <1>1, <1>2, <1>3, PTL DEF Spec, ThreeCallsStop, WaysToStop

(***************************************************************************)
(* Calls that fail                                                         *)
(***************************************************************************)
\* tfs_open answers -1 with a handle free: it may have begun an inode only.
LEMMA OpenFailsUnharmed ==
    ASSUME IInv, NEW n, NEW mode, Open(n, mode, -1), FreeHandles # {},
           UNCHANGED fs_data
    PROVE  Unharmed
<1>1. \A i, offset : ~ add_to_open_file_table(i, offset, -1)
  BY DEF add_to_open_file_table, IsFirst, FreeHandles, Handles
<1>2. CASE OpenCannotCreate(n, mode)
  <2>1. PICK i \in Inodes : freeinode_ts[i] = "FREE" /\ inode_table' = inode_create(i, "T_FILE")
    BY <1>2 DEF OpenCannotCreate, IsFirst, FreeInodes
  <2>2. \A j \in Inodes : freeinode_ts[j] = "TAKEN" => inode_table'[j] = inode_table[j]
    BY <2>1, CreatedInode DEF IInv, TablesInv, TablesType
  <2> QED BY <1>2, <2>2 DEF OpenCannotCreate, Unharmed
<1>3. CASE UNCHANGED tables
  BY <1>3 DEF tables, Unharmed
<1> QED BY <1>1, <1>2, <1>3 DEF Open, OpenExisting, OpenCreates

\* With no handle free it may have created or emptied the file it cannot open.
OpenFull == /\ FreeHandles = {}
            /\ \E n \in Names, mode \in Modes : Open(n, mode, -1)
            /\ UNCHANGED fs_data

LEMMA FailedStep ==
    ASSUME IInv, Next, Idle, Running', copying' = NoCopy, ret' = -1
    PROVE  Unharmed \/ OpenFull
<1>1. status = "running" /\ copying = NoCopy /\ status' = "running"
  BY DEF Idle, Running
<1>2. ASSUME Fails PROVE Unharmed
  BY <1>2 DEF Fails, tables, Unharmed
<1>3. ASSUME NEW n \in Names, NEW mode \in Modes, tfs_open(n, mode)
      PROVE  Unharmed \/ OpenFull
  BY <1>3, OpenFailsUnharmed DEF tfs_open, Returns, OpenFull
<1>4. ASSUME NEW target \in Names, NEW name \in Names, tfs_sym_link(target, name)
      PROVE  Unharmed
  <2>1. ASSUME ~Fails PROVE Unharmed
    <3>1. PICK i \in Inodes :
             /\ freeinode_ts[i] = "FREE"
             /\ inode_table' = SymLinkInode(i, target)
             /\ UNCHANGED <<freeinode_ts, dir>>
      BY <1>4, <2>1 DEF tfs_sym_link, Returns, IsFirst, FreeInodes
    <3>2. \A j \in Inodes : freeinode_ts[j] = "TAKEN"
                               => inode_table'[j] = inode_table[j]
      BY <3>1 DEF SymLinkInode, inode_create, IInv, TablesInv, TablesType
    <3> QED BY <1>4, <2>1, <3>1, <3>2 DEF tfs_sym_link, Unharmed
  <2> QED BY <1>2, <2>1
<1>5. ASSUME NEW fh \in Handles, NEW to_write \in 0 .. MAX_LEN,
             NEW buffer \in Buffers(to_write), tfs_write(fh, to_write, buffer)
      PROVE  Unharmed
  <2>1. ASSUME ~Fails PROVE UNCHANGED <<tables, fs_data>>
    <3>1. PICK r \in -1 .. BLOCK_SIZE : Write(fh, to_write, buffer, r) /\ ret' = r
      BY <1>5, <2>1 DEF tfs_write, Returns
    <3>2. ~ (WriteCount(fh, to_write) > 0 /\ r = WriteCount(fh, to_write))
      BY <3>1
    <3> QED BY <1>1, <3>1, <3>2 DEF Write
  <2> QED BY <1>2, <2>1 DEF tables, Unharmed
<1>6. ASSUME NEW fh \in Handles, NEW len \in 0 .. MAX_LEN, tfs_read(fh, len)
      PROVE  Unharmed
  <2>1. len \in Nat
    BY SizesAssumption
  <2>2. open_file_table[fh] # NoFile => ReadCount(fh, len) \in Nat
    BY <2>1, ReadCountNat DEF IInv
  <2>3. Fails
    BY <1>1, <1>6, <2>2 DEF tfs_read, Stops
  <2> QED BY <1>2, <2>3
<1>7. ASSUME NEW n \in Names, NEW length \in -1 .. MAX_SOURCE, CopyOpen(n, length)
      PROVE  Unharmed \/ OpenFull
  <2>1. ASSUME ~Fails PROVE Open(n, CopyMode, -1) /\ UNCHANGED fs_data
    <3>1. PICK fh \in Handles \cup {-1} :
             /\ Open(n, CopyMode, fh)
             /\ copying' = IF fh = -1 THEN NoCopy ELSE [fhandle |-> fh, left |-> length]
             /\ UNCHANGED fs_data
      BY <1>7, <2>1 DEF CopyOpen
    <3>2. fh = -1
      BY <3>1 DEF NoCopy, Handles
    <3> QED BY <3>1, <3>2
  <2>2. CopyMode \in Modes
    BY DEF CopyMode, Modes
  <2> QED BY <1>2, <2>1, <2>2, OpenFailsUnharmed DEF OpenFull
<1>8. ASSUME \/ tfs_init \/ tfs_init_again \/ tfs_destroy \/ CopyEnd \/ CopyReadFails
             \/ \E fh \in Handles : tfs_close(fh)
             \/ \E target, name \in Names : tfs_link(target, name)
             \/ \E n \in Names : tfs_unlink(n)
             \/ \E chunk \in 1 .. MAX_SOURCE : \E buffer \in Buffers(chunk) :
                   CopyChunk(chunk, buffer)
      PROVE  Fails
  BY <1>1, <1>8 DEF tfs_init, tfs_init_again, tfs_destroy, CopyEnd, CopyReadFails,
                    CopyReturns, CopyChunk,
                    tfs_close, tfs_link, tfs_unlink, Returns, Stops
<1> QED BY <1>2, <1>3, <1>4, <1>5, <1>6, <1>7, <1>8 DEF Next


\* Inodes, names and handles as fields of the library.
LEMMA Fields ==
    /\ Library.dir = dir /\ Library.freeinode_ts = freeinode_ts
    /\ Library.inode_table = inode_table /\ Library.fs_data = fs_data
    /\ Library.open_file_table = open_file_table
    /\ Library'.dir = dir' /\ Library'.freeinode_ts = freeinode_ts'
    /\ Library'.inode_table = inode_table' /\ Library'.fs_data = fs_data'
  BY DEF Library

\* What a step that creates nothing leaves of file i.
KeepsFile(i) ==
    /\ inode_table'[i] = inode_table[i]
    /\ inode_table[i].i_size > 0 => \A k \in 0 .. BLOCK_SIZE - 1 :
          fs_data'[inode_table[i].i_data_block * BLOCK_SIZE + k]
             = fs_data[inode_table[i].i_data_block * BLOCK_SIZE + k]

\* A step that keeps every file but d spares what was spared so far.
LEMMA SparedKept ==
    ASSUME NEW start, NEW d \in Inodes, Spared(start, Library, d),
           UNCHANGED <<dir, freeinode_ts>>,
           \A i \in Inodes \ {d} : freeinode_ts[i] = "TAKEN" => KeepsFile(i)
    PROVE  Spared(start, Library', d)
<1>1. \A s \in Slots : \/ dir'[s] = start.dir[s]
                       \/ start.dir[s].d_inumber = -1 /\ dir'[s].d_inumber = d
  BY Fields DEF Spared
<1>2. \A i \in Inodes : freeinode_ts'[i] # start.freeinode_ts[i] =>
                            i = d /\ freeinode_ts'[i] = "TAKEN"
  BY Fields DEF Spared
<1>3. ASSUME NEW i \in Inodes \ {d}, start.freeinode_ts[i] = "TAKEN",
             start.inode_table[i].i_node_type # "T_SOFT_LINK"
      PROVE  SameFile(start, Library', i)
  <2>1. freeinode_ts[i] = "TAKEN"
    BY <1>2, <1>3
  <2>2. SameFile(start, Library, i)
    BY <1>3 DEF Spared
  <2>3. KeepsFile(i)
    BY <2>1
  <2> QED BY <2>2, <2>3, Fields DEF SameFile, KeepsFile
<1> QED BY <1>1, <1>2, <1>3, Fields DEF Spared

\* Opening creates or empties the file the handle is for, or the soft link that
\* leads to it.
LEMMA OpenSpares ==
    ASSUME IInv, NEW n \in Names, NEW mode, NEW fh \in Handles \cup {-1},
           Open(n, mode, fh), UNCHANGED fs_data
    PROVE  \E d \in Inodes :
              /\ Spared(Library, Library', d)
              /\ fh = -1 => UNCHANGED open_file_table
              /\ fh # -1 => /\ freeinode_ts'[d] = "TAKEN"
                            /\ open_file_table[fh] = NoFile
                            /\ \E offset : open_file_table' = [open_file_table EXCEPT
                                  ![fh] = [of_inumber |-> d, of_offset |-> offset]]
<1>1. \A i, offset : add_to_open_file_table(i, offset, fh) =>
         /\ fh = -1 => UNCHANGED open_file_table
         /\ fh # -1 => /\ open_file_table[fh] = NoFile
                       /\ open_file_table' = [open_file_table EXCEPT
                             ![fh] = [of_inumber |-> i, of_offset |-> offset]]
  BY DEF add_to_open_file_table, IsFirst, FreeHandles, Handles
<1>2. ASSUME UNCHANGED <<dir, freeinode_ts>>, NEW d \in Inodes,
             \A i \in Inodes \ {d} :
                /\ freeinode_ts[i] = "TAKEN"
                /\ inode_table[i].i_node_type # "T_SOFT_LINK"
                => inode_table'[i] = inode_table[i]
      PROVE  Spared(Library, Library', d)
  BY <1>2, Fields DEF Spared, SameFile
<1>3. CASE OpenExisting(n, mode, fh)
  <2>1. PICK s \in Slots, inum \in Inodes :
           /\ Found(n, s)
           /\ Resolved(dir[s].d_inumber, inum)
           /\ \E size : inode_table' = [inode_table EXCEPT ![dir[s].d_inumber].i_size = size]
           /\ \E offset : add_to_open_file_table(inum, offset, fh)
           /\ UNCHANGED <<freeinode_ts, dir>>
    BY <1>3 DEF OpenExisting
  <2>2. /\ dir[s].d_inumber \in Inodes
        /\ freeinode_ts[dir[s].d_inumber] = "TAKEN"
    BY <2>1, FoundInode DEF IInv
  <2>3. /\ freeinode_ts[inum] = "TAKEN"
        /\ \/ inum = dir[s].d_inumber
           \/ inode_table[dir[s].d_inumber].i_node_type = "T_SOFT_LINK"
    BY <2>1, <2>2, FoundInode DEF Resolved, IInv
  <2>4. \A i \in Inodes \ {dir[s].d_inumber} : inode_table'[i] = inode_table[i]
    BY <2>1, <2>2 DEF IInv, TablesInv, TablesType
  <2>5. Spared(Library, Library', inum)
    BY <1>2, <2>1, <2>3, <2>4
  <2> QED BY <1>1, <2>1, <2>3, <2>5
<1>4. CASE OpenCreates(n, mode, fh)
  <2>1. PICK i \in Inodes :
           /\ freeinode_ts[i] = "FREE"
           /\ inode_table' = inode_create(i, "T_FILE")
           /\ freeinode_ts' = [freeinode_ts EXCEPT ![i] = "TAKEN"]
           /\ add_dir_entry(n, i)
           /\ add_to_open_file_table(i, 0, fh)
    BY <1>4 DEF OpenCreates, IsFirst, FreeInodes
  <2>2. PICK s \in Slots :
           /\ dir[s].d_inumber = -1
           /\ dir' = [dir EXCEPT ![s] = [d_name |-> n, d_inumber |-> i]]
    BY <2>1 DEF add_dir_entry, IsFirst, EmptySlots
  <2>3. \A t \in Slots : \/ dir'[t] = dir[t]
                         \/ dir[t].d_inumber = -1 /\ dir'[t].d_inumber = i
    BY <2>2 DEF IInv, TablesInv, TablesType
  <2>4. /\ freeinode_ts'[i] = "TAKEN"
        /\ \A j \in Inodes \ {i} : freeinode_ts'[j] = freeinode_ts[j]
    BY <2>1 DEF IInv, TablesInv, TablesType
  <2>5. \A j \in Inodes \ {i} : inode_table'[j] = inode_table[j]
    BY <2>1, CreatedInode DEF IInv, TablesInv, TablesType
  <2>6. Spared(Library, Library', i)
    BY <2>3, <2>4, <2>5, Fields DEF Spared, SameFile
  <2> QED BY <1>1, <2>1, <2>4, <2>6
<1>5. CASE fh = -1 /\ OpenCannotCreate(n, mode)
  <2>1. PICK i \in Inodes : inode_table' = inode_create(i, "T_FILE")
    BY <1>5 DEF OpenCannotCreate
  <2>2. \A j \in Inodes \ {i} : inode_table'[j] = inode_table[j]
    BY <2>1, CreatedInode DEF IInv, TablesInv, TablesType
  <2>3. Spared(Library, Library', i)
    BY <1>2, <1>5, <2>2 DEF OpenCannotCreate
  <2> QED BY <1>5, <2>3 DEF OpenCannotCreate
<1>6. CASE fh = -1 /\ UNCHANGED tables
  <2>1. 0 \in Inodes
    BY SizesAssumption DEF Inodes
  <2> QED BY <1>2, <1>6, <2>1 DEF tables
<1> QED BY <1>3, <1>4, <1>5, <1>6 DEF Open

\* The file written is the handle's: the block of every other is another one.
LEMMA WriteSpares ==
    ASSUME IInv, NEW fh \in Handles, open_file_table[fh] # NoFile,
           NEW to_write \in Nat, NEW buffer, NEW r,
           Write(fh, to_write, buffer, r), status' = "running", status = "running",
           NEW d, d = open_file_table[fh].of_inumber, freeinode_ts[d] = "TAKEN"
    PROVE  /\ UNCHANGED <<dir, freeinode_ts>>
           /\ \A i \in Inodes \ {d} : freeinode_ts[i] = "TAKEN" => KeepsFile(i)
           /\ \/ UNCHANGED open_file_table
              \/ \E count : open_file_table' = [open_file_table EXCEPT ![fh].of_offset = count]
<1>1. /\ d \in Inodes /\ open_file_table[fh].of_offset \in Nat
  BY DEF IInv, TablesInv, TablesType, OpenFile
<1>2. CASE UNCHANGED <<tables, fs_data>>
  BY <1>2 DEF tables, KeepsFile
<1>3. ASSUME NEW count, count = WriteCount(fh, to_write), count > 0,
             NEW b \in Blocks, WriteBlock(d, b),
             open_file_table[fh].of_offset + count <= BLOCK_SIZE,
             WriteData(fh, b, count, buffer), UNCHANGED <<freeinode_ts, dir>>
      PROVE  /\ \A i \in Inodes \ {d} : freeinode_ts[i] = "TAKEN" => KeepsFile(i)
             /\ \E to : open_file_table' = [open_file_table EXCEPT ![fh].of_offset = to]
  <2>1. PICK offset \in Nat : offset = open_file_table[fh].of_offset
    BY <1>1
  <2>2. count \in Nat
    BY <1>3, <2>1, SizesAssumption DEF WriteCount
  <2>3. PICK first, size :
           /\ first = b * BLOCK_SIZE + offset
           /\ inode_table' = [inode_table EXCEPT ![d].i_data_block = b, ![d].i_size = size]
           /\ fs_data' = [a \in Addr |-> IF a \in first .. first + count - 1
                                           THEN buffer[a - first] ELSE fs_data[a]]
           /\ \E to : open_file_table' = [open_file_table EXCEPT ![fh].of_offset = to]
    BY <1>3, <2>1 DEF WriteData
  <2>4. ASSUME NEW i \in Inodes \ {d}, freeinode_ts[i] = "TAKEN"
        PROVE  KeepsFile(i)
    <3>1. inode_table'[i] = inode_table[i]
      BY <1>1, <2>3 DEF IInv, TablesInv, TablesType
    <3>2. ASSUME inode_table[i].i_size > 0, NEW k \in 0 .. BLOCK_SIZE - 1
          PROVE  fs_data'[inode_table[i].i_data_block * BLOCK_SIZE + k]
                    = fs_data[inode_table[i].i_data_block * BLOCK_SIZE + k]
      <4>1. PICK c \in Blocks : c = inode_table[i].i_data_block /\ free_blocks[c] = "TAKEN"
        BY <2>4, <3>2 DEF IInv, TablesInv, BlocksOwned
      <4>2. c # b
        <5>1. CASE inode_table[d].i_size = 0
          BY <1>3, <4>1, <5>1 DEF WriteBlock, IsFirst, FreeBlocks
        <5>2. CASE inode_table[d].i_size # 0
          <6>1. inode_table[d].i_size \in Nat
            BY <1>1 DEF IInv, TablesInv, TablesType, InodeRecord
          <6>2. b = inode_table[d].i_data_block
            BY <1>3, <5>2 DEF WriteBlock
          <6>3. inode_table[d].i_size > 0 /\ freeinode_ts[d] = "TAKEN"
            BY <5>2, <6>1
          <6> QED BY <1>1, <2>4, <3>2, <4>1, <6>2, <6>3 DEF IInv, TablesInv, BlocksOwned
        <5> QED BY <5>1, <5>2
      <4>3. PICK base, other \in Nat : base = b * BLOCK_SIZE /\ other = c * BLOCK_SIZE
        BY <3>2, BlockAddresses
      <4>4. other + k \in Addr
        BY <4>3, BlockAddresses
      <4>5. ASSUME other + k \in first .. first + count - 1 PROVE FALSE
        <5>1. PICK l : l = (other + k) - base
          OBVIOUS
        <5>2. l \in 0 .. BLOCK_SIZE - 1 /\ other + k = base + l
          BY <1>3, <2>1, <2>2, <2>3, <4>3, <4>5, <5>1, SizesAssumption
        <5> QED BY <4>2, <4>3, <5>2, BlockAddresses
      <4> QED BY <2>3, <4>1, <4>3, <4>4, <4>5
    <3> QED BY <3>1, <3>2 DEF KeepsFile
  <2> QED BY <2>3, <2>4
<1> QED BY <1>2, <1>3 DEF Write

\* The import in progress has spared all files but its own, and will leave open
\* what was open.
ImportInv ==
    /\ before.open_file_table = [open_file_table EXCEPT ![copying.fhandle] = NoFile]
    /\ \E d \in Inodes : /\ d = open_file_table[copying.fhandle].of_inumber
                         /\ freeinode_ts[d] = "TAKEN"
                         /\ Spared(before, Library, d)

CallsInv == IInv /\ (Running /\ copying # NoCopy => ImportInv)

\* Closing a handle undoes what was done to it.
LEMMA HandleUndone ==
    ASSUME TablesType, NEW h \in Handles, NEW v,
           open_file_table' = [open_file_table EXCEPT ![h] = v]
    PROVE  /\ open_file_table'[h] = v
           /\ [open_file_table' EXCEPT ![h] = NoFile]
                = [open_file_table EXCEPT ![h] = NoFile]
           /\ open_file_table[h] = NoFile
                => open_file_table = [open_file_table EXCEPT ![h] = NoFile]
<1>1. open_file_table'[h] = v
  BY DEF TablesType
<1>2. \A g \in Handles : [open_file_table' EXCEPT ![h] = NoFile][g]
                             = [open_file_table EXCEPT ![h] = NoFile][g]
  BY DEF TablesType
<1>3. [open_file_table' EXCEPT ![h] = NoFile] = [open_file_table EXCEPT ![h] = NoFile]
  BY <1>2 DEF TablesType
<1>4. open_file_table[h] = NoFile
         => open_file_table = [open_file_table EXCEPT ![h] = NoFile]
  BY DEF TablesType
<1> QED BY <1>1, <1>3, <1>4

\* An import begins by opening its file.
LEMMA ImportBegins ==
    ASSUME IInv, Next, copying = NoCopy, copying' # NoCopy, before' = Library
    PROVE  ImportInv'
<1>1. PICK n \in Names, length \in -1 .. MAX_SOURCE : CopyOpen(n, length)
  BY DEF Next, tfs_init, tfs_init_again, tfs_destroy, tfs_open, tfs_close, tfs_link,
         tfs_sym_link, tfs_unlink, tfs_write, tfs_read, CopyChunk, CopyEnd,
         CopyReadFails, CopyReturns, Fails, Stops
<1>2. PICK fh \in Handles \cup {-1} :
         /\ Open(n, CopyMode, fh)
         /\ copying' = IF fh = -1 THEN NoCopy ELSE [fhandle |-> fh, left |-> length]
         /\ UNCHANGED fs_data
  BY <1>1 DEF CopyOpen, Fails
<1>3. fh \in Handles /\ fh # -1 /\ copying'.fhandle = fh
  BY <1>2
<1>4. PICK d \in Inodes :
         /\ Spared(Library, Library', d)
         /\ freeinode_ts'[d] = "TAKEN"
         /\ open_file_table[fh] = NoFile
         /\ \E offset : open_file_table' = [open_file_table EXCEPT
               ![fh] = [of_inumber |-> d, of_offset |-> offset]]
  BY <1>2, <1>3, OpenSpares
<1>5. /\ open_file_table'[fh].of_inumber = d
      /\ open_file_table = [open_file_table' EXCEPT ![fh] = NoFile]
  <2>1. PICK offset : open_file_table' = [open_file_table EXCEPT
                         ![fh] = [of_inumber |-> d, of_offset |-> offset]]
    BY <1>4
  <2>2. PICK v : v = [of_inumber |-> d, of_offset |-> offset]
    OBVIOUS
  <2>3. fh \in Handles /\ TablesType /\ open_file_table[fh] = NoFile
        /\ open_file_table' = [open_file_table EXCEPT ![fh] = v]
    BY <1>3, <1>4, <2>1, <2>2 DEF IInv, TablesInv
  <2>4. /\ open_file_table'[fh] = v
        /\ open_file_table = [open_file_table' EXCEPT ![fh] = NoFile]
    BY ONLY <2>3, HandleUndone
  <2> QED BY <2>2, <2>4
<1> QED BY <1>3, <1>4, <1>5, Fields DEF ImportInv

\* It goes on by writing to it.
LEMMA ImportGoesOn ==
    ASSUME IInv, ImportInv, Next, Running, Running', copying # NoCopy,
           copying' # NoCopy, UNCHANGED before
    PROVE  ImportInv'
<1>1. PICK chunk \in 1 .. MAX_SOURCE :
         \E buffer \in Buffers(chunk) : CopyStores(chunk, buffer)
  BY DEF Next, tfs_init, tfs_init_again, tfs_destroy, tfs_open, tfs_close, tfs_link,
         tfs_sym_link, tfs_unlink, tfs_write, tfs_read, CopyOpen, CopyChunk,
         CopyGivesUp, CopyEnd, CopyReadFails, CopyReturns, Idle, Running
<1>2. PICK fh \in Handles :
         /\ fh = copying.fhandle
         /\ open_file_table[fh] # NoFile
         /\ copying \in [fhandle : Handles, left : Nat]
  BY CopyHandle
<1>3. PICK buffer, r : Write(fh, chunk, buffer, r)
  BY <1>1, <1>2 DEF CopyStores
<1>4. copying'.fhandle = fh
  BY <1>1, <1>2 DEF CopyStores
<1>5. PICK d : /\ d = open_file_table[fh].of_inumber
               /\ freeinode_ts[d] = "TAKEN"
               /\ Spared(before, Library, d)
  BY <1>2 DEF ImportInv
<1>6. d \in Inodes
  BY <1>2, <1>5 DEF IInv, TablesInv, TablesType, OpenFile
<1>7. chunk \in Nat
  BY SizesAssumption
<1>8. /\ UNCHANGED <<dir, freeinode_ts>>
      /\ \A i \in Inodes \ {d} : freeinode_ts[i] = "TAKEN" => KeepsFile(i)
      /\ \/ UNCHANGED open_file_table
         \/ \E to : open_file_table' = [open_file_table EXCEPT ![fh].of_offset = to]
  BY <1>2, <1>3, <1>5, <1>7, WriteSpares DEF Running
<1>9. Spared(before, Library', d)
  BY <1>5, <1>6, <1>8, SparedKept
<1>10. /\ open_file_table'[fh].of_inumber = d
       /\ [open_file_table' EXCEPT ![fh] = NoFile] = [open_file_table EXCEPT ![fh] = NoFile]
  <2>1. CASE UNCHANGED open_file_table
    BY <1>5, <2>1
  <2>2. ASSUME NEW to, open_file_table' = [open_file_table EXCEPT ![fh].of_offset = to]
        PROVE  /\ open_file_table'[fh].of_inumber = d
               /\ [open_file_table' EXCEPT ![fh] = NoFile]
                     = [open_file_table EXCEPT ![fh] = NoFile]
    <3>1. open_file_table[fh] \in OpenFile
      BY <1>2 DEF IInv, TablesInv, TablesType
    <3>2. PICK v : v = [open_file_table[fh] EXCEPT !.of_offset = to]
      OBVIOUS
    <3>3. v.of_inumber = d
      BY <1>5, <3>1, <3>2 DEF OpenFile
    <3>4. open_file_table' = [open_file_table EXCEPT ![fh] = v]
      BY <2>2, <3>2
    <3> QED BY <3>3, <3>4, HandleUndone DEF IInv, TablesInv
  <2> QED BY <1>8, <2>1, <2>2
<1> QED BY <1>2, <1>4, <1>5, <1>8, <1>9, <1>10 DEF ImportInv

LEMMA CallsStep ==
    ASSUME CallsInv, [CallsNext]_callvars
    PROVE  CallsInv'
<1>1. CASE UNCHANGED callvars
  <2>1. IInv'
    BY <1>1, NextProof DEF CallsInv, callvars
  <2> QED BY <1>1, <2>1
          DEF CallsInv, ImportInv, Library, Running, callvars, vars
<1>2. CASE CallsNext
  <2>1. IInv'
    BY <1>2, NextProof DEF CallsInv, CallsNext
  <2>2. ASSUME Running', copying' # NoCopy PROVE ImportInv'
    <3>1. CASE copying = NoCopy
      BY <1>2, <2>2, <3>1, ImportBegins DEF CallsInv, CallsNext
    <3>2. CASE copying # NoCopy
      <4>1. Running
        BY <1>2, <2>2, <3>2
           DEF CallsNext, CallsInv, IInv, CallInv, Running, Next, tfs_init,
               tfs_init_again, tfs_destroy, tfs_open, tfs_close, tfs_link,
               tfs_sym_link, tfs_unlink, tfs_write, tfs_read, CopyOpen, CopyChunk,
               CopyEnd, CopyReadFails, CopyReturns, Idle
      <4> QED BY <1>2, <2>2, <3>2, <4>1, ImportGoesOn DEF CallsInv, CallsNext
    <3> QED BY <3>1, <3>2
  <2> QED BY <2>1, <2>2 DEF CallsInv
<1> QED BY <1>1, <1>2

\* A call that answers -1 in a step.
LEMMA ImportGivesUp ==
    ASSUME IInv, ImportInv, Next, Running, copying # NoCopy, copying' = NoCopy,
           ret' = -1
    PROVE  /\ open_file_table' = before.open_file_table
           /\ Spared(before, Library', open_file_table[copying.fhandle].of_inumber)
<1>1. PICK chunk : CopyGivesUp(chunk)
  <2>1. \/ \E chunk \in 1 .. MAX_SOURCE : \E buffer \in Buffers(chunk) :
              CopyChunk(chunk, buffer)
        \/ CopyReturns
    BY DEF Next, tfs_init, tfs_init_again, tfs_destroy, tfs_open, tfs_close, tfs_link,
           tfs_sym_link, tfs_unlink, tfs_write, tfs_read, CopyOpen, CopyEnd,
           CopyReadFails, Idle, Running
  <2>2. ~CopyReturns
    BY DEF CopyReturns, Returns
  <2>3. ASSUME NEW chunk, NEW buffer, CopyStores(chunk, buffer) PROVE FALSE
    <3>1. copying' = [copying EXCEPT !.left = @ - chunk]
      BY <2>3 DEF CopyStores
    <3>2. copying'.fhandle = copying.fhandle /\ copying.fhandle \in Handles
      BY <3>1, CopyHandle
    <3> QED BY <3>2 DEF NoCopy, Handles
  <2> QED BY <2>1, <2>2, <2>3 DEF CopyChunk
<1>2. /\ open_file_table' = [open_file_table EXCEPT ![copying.fhandle] = NoFile]
      /\ UNCHANGED <<freeinode_ts, inode_table, free_blocks, fs_data, dir>>
  BY <1>1 DEF CopyGivesUp, remove_from_open_file_table
<1>3. PICK d : /\ d = open_file_table[copying.fhandle].of_inumber
               /\ Spared(before, Library, d)
  BY DEF ImportInv
<1>4. d \in Inodes
  BY <1>3, CopyHandle DEF IInv, TablesInv, TablesType, OpenFile
<1>5. Spared(before, Library', d)
  BY <1>2, <1>3, <1>4, SparedKept DEF KeepsFile
<1> QED BY <1>2, <1>3, <1>5 DEF ImportInv

LEMMA UnharmedSpares ==
    ASSUME Unharmed
    PROVE  \E d \in Inodes : Spared(Library, Library', d)
<1>1. 0 \in Inodes
  BY SizesAssumption DEF Inodes
<1>2. Spared(Library, Library', 0)
  BY Fields DEF Unharmed, Spared, SameFile
<1> QED BY <1>1, <1>2

\* A call that answers -1 leaves everything as it was; or it could not get a handle
\* or, for an import, a block, and has changed its own file only.  For every caller
\* and tables of any size.
THEOREM FailedCallHarmlessCorrect == CallsSpec => FailedCallHarmless
<1> DEFINE Answer == Running /\ Running' /\ copying' = NoCopy /\ ret' = -1
           Harm == CASE copying # NoCopy ->
                          /\ open_file_table' = before.open_file_table
                          /\ Spared(before, Library',
                                    open_file_table[copying.fhandle].of_inumber)
                     [] copying = NoCopy /\ FreeHandles = {} ->
                          /\ UNCHANGED open_file_table
                          /\ \E d \in Inodes : Spared(Library, Library', d)
                     [] OTHER -> Unharmed
<1>1. Init /\ before = NoCopy => CallsInv
  BY InitProof DEF Init, CallsInv
<1>2. CallsInv /\ [CallsNext]_callvars => CallsInv'
  BY CallsStep
<1>3. CallsInv /\ [CallsNext]_callvars => [Answer => Harm]_callvars
  <2> SUFFICES ASSUME CallsInv, CallsNext, Answer PROVE Harm
    OBVIOUS
  <2>1. CASE copying # NoCopy
    BY <2>1, ImportGivesUp DEF CallsInv, CallsNext
  <2>2. CASE copying = NoCopy
    <3>1. Unharmed \/ OpenFull
      BY <2>2, FailedStep DEF CallsInv, CallsNext, Idle, Running
    <3>2. ASSUME FreeHandles = {}
          PROVE  UNCHANGED open_file_table /\ \E d \in Inodes : Spared(Library, Library', d)
      BY <3>1, UnharmedSpares, OpenSpares DEF OpenFull, Unharmed, CallsInv
    <3> QED BY <2>2, <3>1, <3>2 DEF OpenFull
  <2> QED BY <2>1, <2>2
<1> QED BY <1>1, <1>2, <1>3, PTL DEF CallsSpec, FailedCallHarmless
=============================================================================
