---------------------- MODULE TecnicoFSRefinementProofs ----------------------
(***************************************************************************)
(* Proof that for a careful caller the inodes, blocks, directory slots and *)
(* offsets of TecnicoFS implement the names, byte sequences and cursors of *)
(* AbstractFS, for tables of every size: each call is, under the mapping   *)
(* of TecnicoFSClient, the call of AbstractFS it stands for, a refusal, or *)
(* a step that changes nothing.                                            *)
(***************************************************************************)
EXTENDS TecnicoFSClientProofs

(***************************************************************************)
(* Byte sequences                                                          *)
(***************************************************************************)
LEMMA FunctionIsSeq ==
    ASSUME NEW S, NEW n \in Nat, NEW f \in [1 .. n -> S]
    PROVE  f \in Seq(S) /\ Len(f) = n
  OBVIOUS

LEMMA EmptyFunction ==
    ASSUME NEW S, NEW f \in [1 .. 0 -> S]
    PROVE  f = <<>>
<1>1. f \in Seq(S) /\ Len(f) = 0
  BY FunctionIsSeq
<1> QED BY <1>1, EmptySeq

\* What of the data fits between pos and the end of the block.
FrontOf(data, pos, kept) ==
    /\ Len(kept) = IF pos + Len(data) > BLOCK_SIZE THEN BLOCK_SIZE - pos
                   ELSE Len(data)
    /\ \A k \in 1 .. Len(kept) : kept[k] = data[k]

LEMMA StoredAt ==
    ASSUME NEW S, NEW data \in Seq(S), NEW pos \in 0 .. BLOCK_SIZE,
           NEW kept, kept = Promise!Stored(pos, data)
    PROVE  kept \in Seq(S) /\ FrontOf(data, pos, kept)
<1>1. BLOCK_SIZE \in Nat /\ pos \in Nat /\ Len(data) \in Nat
  BY SizesAssumption, LenProperties
<1>2. CASE pos + Len(data) > BLOCK_SIZE
  <2>1. kept = SubSeq(data, 1, BLOCK_SIZE - pos)
    BY <1>2 DEF Promise!Stored
  <2>2. 1 \in Int /\ BLOCK_SIZE - pos \in Int
    BY <1>1
  <2>3. \A k \in 1 .. BLOCK_SIZE - pos : data[k] \in S
    BY <1>1, <1>2, ElementOfSeq
  <2>4. /\ SubSeq(data, 1, BLOCK_SIZE - pos) \in Seq(S)
        /\ Len(SubSeq(data, 1, BLOCK_SIZE - pos))
              = IF 1 <= BLOCK_SIZE - pos THEN BLOCK_SIZE - pos - 1 + 1 ELSE 0
        /\ \A k \in 1 .. BLOCK_SIZE - pos - 1 + 1 :
              SubSeq(data, 1, BLOCK_SIZE - pos)[k] = data[1 + k - 1]
    BY <2>2, <2>3, SubSeqProperties
  <2>5. Len(kept) = BLOCK_SIZE - pos
    BY <1>1, <2>1, <2>4
  <2> QED BY <1>1, <1>2, <2>1, <2>4, <2>5 DEF FrontOf
<1>3. CASE ~ (pos + Len(data) > BLOCK_SIZE)
  BY <1>1, <1>3 DEF Promise!Stored, FrontOf
<1> QED BY <1>2, <1>3

\* The bytes of a file after data has been put at pos.
LEMMA OverwrittenAt ==
    ASSUME NEW S, NEW old \in Seq(S), NEW pos \in 0 .. Len(old),
           NEW data \in Seq(S), NEW new, new = Promise!Overwritten(old, pos, data)
    PROVE  /\ new \in Seq(S)
           /\ Len(new) = IF pos + Len(data) > Len(old) THEN pos + Len(data)
                         ELSE Len(old)
           /\ \A k \in 1 .. Len(new) :
                 new[k] = IF pos < k /\ k <= pos + Len(data) THEN data[k - pos]
                          ELSE old[k]
<1> DEFINE a == SubSeq(old, 1, pos)
           c == SubSeq(old, pos + Len(data) + 1, Len(old))
<1>1. Len(old) \in Nat /\ Len(data) \in Nat /\ pos \in Nat
  BY LenProperties
<1>2. a \in Seq(S) /\ Len(a) = pos /\ \A k \in 1 .. pos : a[k] = old[k]
  BY <1>1
<1>3. /\ c \in Seq(S)
      /\ Len(c) = IF pos + Len(data) > Len(old) THEN 0
                  ELSE Len(old) - pos - Len(data)
      /\ \A k \in 1 .. Len(c) : c[k] = old[pos + Len(data) + k]
  <2>1. pos + Len(data) + 1 \in Int /\ Len(old) \in Int
    BY <1>1
  <2>2. \A k \in pos + Len(data) + 1 .. Len(old) : old[k] \in S
    BY <1>1, ElementOfSeq
  <2>3. /\ c \in Seq(S)
        /\ Len(c) = IF pos + Len(data) + 1 <= Len(old)
                      THEN Len(old) - (pos + Len(data) + 1) + 1 ELSE 0
        /\ \A k \in 1 .. Len(old) - (pos + Len(data) + 1) + 1 :
              c[k] = old[pos + Len(data) + 1 + k - 1]
    BY <2>1, <2>2, SubSeqProperties
  <2> HIDE DEF c
  <2>4. Len(c) = IF pos + Len(data) > Len(old) THEN 0 ELSE Len(old) - pos - Len(data)
    BY <1>1, <2>3
  <2>5. ASSUME NEW k \in 1 .. Len(c) PROVE c[k] = old[pos + Len(data) + k]
    <3>1. /\ k \in 1 .. Len(old) - (pos + Len(data) + 1) + 1
          /\ pos + Len(data) + 1 + k - 1 = pos + Len(data) + k
      BY <1>1, <2>4
    <3> QED BY <2>3, <3>1
  <2> QED BY <2>3, <2>4, <2>5
<1>4. new = (a \o data) \o c
  BY DEF Promise!Overwritten
<1> HIDE DEF a, c
<1>5. PICK d, e : d = a \o data /\ e = c
  OBVIOUS
<1>6. /\ d \in Seq(S) /\ Len(d) = pos + Len(data)
      /\ \A k \in 1 .. pos + Len(data) : d[k] = IF k <= pos THEN a[k] ELSE data[k - pos]
  BY <1>2, <1>5, ConcatProperties
<1>7. /\ new \in Seq(S) /\ Len(new) = Len(d) + Len(c)
      /\ \A k \in 1 .. Len(d) + Len(c) :
            new[k] = IF k <= Len(d) THEN d[k] ELSE c[k - Len(d)]
  <2>1. new = d \o e /\ d \in Seq(S) /\ e \in Seq(S)
    BY <1>3, <1>4, <1>5, <1>6
  <2>2. /\ new \in Seq(S) /\ Len(new) = Len(d) + Len(e)
        /\ \A k \in 1 .. Len(d) + Len(e) :
              new[k] = IF k <= Len(d) THEN d[k] ELSE e[k - Len(d)]
    BY <2>1, ConcatProperties
  <2> QED BY <1>5, <2>2
<1>8. PICK n, l, m \in Nat : n = Len(data) /\ l = Len(old) /\ m = Len(c)
  BY <1>1, <1>3, LenProperties
<1>9. Len(new) = pos + n + m /\ m = IF pos + n > l THEN 0 ELSE l - pos - n
  BY <1>3, <1>6, <1>7, <1>8
<1>10. Len(new) = IF pos + n > l THEN pos + n ELSE l
  BY <1>1, <1>9
<1>11. ASSUME NEW k \in 1 .. Len(new)
       PROVE  new[k] = IF pos < k /\ k <= pos + n THEN data[k - pos] ELSE old[k]
  <2>1. k \in 1 .. pos + n + m
    BY <1>9
  <2>2. new[k] = IF k <= pos + n THEN d[k] ELSE c[k - (pos + n)]
    BY <1>6, <1>7, <1>8, <2>1
  <2>3. CASE k <= pos
    BY <1>1, <1>2, <1>6, <1>8, <2>1, <2>2, <2>3
  <2>4. CASE pos < k /\ k <= pos + n
    BY <1>1, <1>6, <1>8, <2>1, <2>2, <2>4
  <2>5. CASE k > pos + n
    <3>1. k - (pos + n) \in 1 .. m /\ pos + n + (k - (pos + n)) = k
      BY <1>1, <2>1, <2>5
    <3>2. c[k - (pos + n)] = old[pos + n + (k - (pos + n))]
      BY <1>3, <1>8, <3>1
    <3> QED BY <1>1, <1>8, <2>1, <2>2, <2>5, <3>1, <3>2
  <2> QED BY <1>1, <2>1, <2>3, <2>4, <2>5
<1> QED BY <1>7, <1>8, <1>10, <1>11

(***************************************************************************)
(* What the tables say, entry by entry and inode by inode                  *)
(***************************************************************************)
Entry(s, n) == dir[s].d_inumber # -1 /\ dir[s].d_name = n

\* What the name of an entry leads to.
LeadsTo(n, i) ==
    IF IsLink(i) THEN fileOf[n] = None /\ linkTo[n] = inode_table[i].i_target
    ELSE fileOf[n] = i /\ linkTo[n] = None

\* A look-up finds the one entry there is.
LEMMA EntryFound ==
    ASSUME ClientInv, NEW n, NEW s \in Slots, Entry(s, n)
    PROVE  Found(n, s) /\ \A t \in Slots : Entry(t, n) => t = s
<1>1. \A t \in Slots : Entry(t, n) => t = s
  BY DEF Entry, ClientInv, DirInv, NamesDistinct
<1>2. n \notin Malformed
  BY DEF Entry, ClientInv, DirInv, NamesWellFormed
<1>3. Matches(n) = {s}
  BY <1>1 DEF Matches, Entry
<1> QED BY <1>1, <1>2, <1>3 DEF Found, IsFirst, tfs_lookup, Slots

LEMMA FoundEntry ==
    ASSUME NEW n, NEW s \in Slots, Found(n, s)
    PROVE  Entry(s, n)
  BY DEF Found, IsFirst, tfs_lookup, Matches, Entry

EntriesLead ==
    \A n \in Names :
        /\ (\A s \in Slots : ~Entry(s, n)) => fileOf[n] = None /\ linkTo[n] = None
        /\ \A s \in Slots : Entry(s, n) => LeadsTo(n, dir[s].d_inumber)

LEMMA NamesView == ClientInv => EntriesLead
<1> SUFFICES ASSUME ClientInv, NEW n \in Names
             PROVE  /\ (\A s \in Slots : ~Entry(s, n))
                          => fileOf[n] = None /\ linkTo[n] = None
                    /\ \A s \in Slots : Entry(s, n) => LeadsTo(n, dir[s].d_inumber)
  BY DEF EntriesLead
<1>1. ASSUME \A s \in Slots : ~Entry(s, n)
      PROVE  fileOf[n] = None /\ linkTo[n] = None
  <2>1. Inode(n) = {}
    BY <1>1, FoundEntry DEF Inode
  <2> QED BY <2>1 DEF fileOf, linkTo
<1>2. ASSUME NEW s \in Slots, Entry(s, n)
      PROVE  LeadsTo(n, dir[s].d_inumber)
  <2>1. PICK i : i = dir[s].d_inumber
    OBVIOUS
  <2>2. Inode(n) = {i}
    BY <1>2, <2>1, EntryFound, FoundEntry DEF Inode
  <2>3. InodeOf(n) = i
    BY <2>2 DEF InodeOf
  <2> QED BY <2>1, <2>2, <2>3 DEF LeadsTo, fileOf, linkTo
<1> QED BY <1>1, <1>2

\* A name whose entry stays, on an inode of the same kind, leads where it led.
LEMMA NameSame ==
    ASSUME ClientInv, ClientInv', NEW n \in Names,
           \A s \in Slots : Entry(s, n) \/ Entry(s, n)' => dir'[s] = dir[s],
           \A i \in Inodes : freeinode_ts[i] = "TAKEN" =>
              /\ inode_table'[i].i_node_type = inode_table[i].i_node_type
              /\ inode_table'[i].i_target = inode_table[i].i_target
    PROVE  fileOf'[n] = fileOf[n] /\ linkTo'[n] = linkTo[n]
<1>0. EntriesLead'
  BY NamesView, PTL
<1>1. /\ (\A s \in Slots : ~Entry(s, n)') => fileOf'[n] = None /\ linkTo'[n] = None
      /\ \A s \in Slots : Entry(s, n)' => LeadsTo(n, dir[s].d_inumber)'
  BY <1>0 DEF EntriesLead
<1>2. CASE \A s \in Slots : ~Entry(s, n)
  <2>1. \A s \in Slots : ~Entry(s, n)'
    BY <1>2 DEF Entry
  <2> QED BY <1>1, <1>2, <2>1, NamesView DEF EntriesLead
<1>3. ASSUME NEW s \in Slots, Entry(s, n)
      PROVE  fileOf'[n] = fileOf[n] /\ linkTo'[n] = linkTo[n]
  <2>1. PICK i : i = dir[s].d_inumber
    OBVIOUS
  <2>2. i \in Inodes /\ freeinode_ts[i] = "TAKEN"
    BY <1>3, <2>1, EntryFound, FoundKind
  <2>3. dir'[s] = dir[s] /\ Entry(s, n)'
    BY <1>3 DEF Entry
  <2>4. LeadsTo(n, i) /\ LeadsTo(n, i)'
    BY <1>1, <1>3, <2>1, <2>3, NamesView DEF EntriesLead, LeadsTo, IsLink
  <2> QED BY <2>2, <2>4 DEF LeadsTo, IsLink
<1> QED BY <1>2, <1>3

LEMMA NamesSame ==
    ASSUME ClientInv, ClientInv', UNCHANGED dir,
           \A i \in Inodes : freeinode_ts[i] = "TAKEN" =>
              /\ inode_table'[i].i_node_type = inode_table[i].i_node_type
              /\ inode_table'[i].i_target = inode_table[i].i_target
    PROVE  fileOf' = fileOf /\ linkTo' = linkTo
<1>1. \A n \in Names : fileOf'[n] = fileOf[n] /\ linkTo'[n] = linkTo[n]
  <2> TAKE n \in Names
  <2> QED BY NameSame
<1> QED BY <1>1 DEF fileOf, linkTo

\* The bytes of a file, one by one.
FileHasBytes(i) ==
    /\ BytesOf(i) \in Seq(Bytes \cup {Junk})
    /\ Len(BytesOf(i)) = inode_table[i].i_size
    /\ \A k \in 1 .. inode_table[i].i_size :
          BytesOf(i)[k] = fs_data[inode_table[i].i_data_block * BLOCK_SIZE + k - 1]

FilesHaveBytes ==
    \A i \in Inodes : freeinode_ts[i] = "TAKEN" /\ ~IsLink(i) => FileHasBytes(i)

LEMMA BytesView == ClientInv => FilesHaveBytes
<1> SUFFICES ASSUME ClientInv, NEW i \in Inodes, freeinode_ts[i] = "TAKEN", ~IsLink(i)
             PROVE  FileHasBytes(i)
  BY DEF FilesHaveBytes
<1>1. PICK n, b : n = inode_table[i].i_size /\ b = inode_table[i].i_data_block
  OBVIOUS
<1>2. /\ n \in Nat /\ n <= BLOCK_SIZE
      /\ n > 0 => b \in Blocks
  BY <1>1, InvParts, InodeTyped DEF FilesInv, SizesBounded, TablesInv, BlocksOwned
<1>3. BytesOf(i) = [k \in 1 .. n |-> fs_data[b * BLOCK_SIZE + k - 1]]
  BY <1>1 DEF BytesOf
<1>4. ASSUME NEW k \in 1 .. n
      PROVE  fs_data[b * BLOCK_SIZE + k - 1] \in Bytes \cup {Junk}
  <2>1. b \in Blocks /\ k - 1 \in 0 .. BLOCK_SIZE - 1
    BY <1>2, SizesAssumption
  <2>2. b * BLOCK_SIZE \in Nat /\ b * BLOCK_SIZE + (k - 1) \in Addr
    BY <2>1, BlockAddresses
  <2>3. PICK base \in Nat : base = b * BLOCK_SIZE
    BY <2>2
  <2>4. base + (k - 1) = base + k - 1
    BY <2>3
  <2> QED BY <2>2, <2>3, <2>4 DEF ClientInv, IInv, CallInv
<1>5. BytesOf(i) \in [1 .. n -> Bytes \cup {Junk}]
  BY <1>3, <1>4
<1>6. BytesOf(i) \in Seq(Bytes \cup {Junk}) /\ Len(BytesOf(i)) = n
  BY <1>2, <1>5, FunctionIsSeq
<1> QED BY <1>1, <1>3, <1>6 DEF FileHasBytes

\* Bytes that stay where they are.
LEMMA BytesSame ==
    ASSUME NEW i, freeinode_ts'[i] = freeinode_ts[i],
           inode_table'[i].i_node_type = inode_table[i].i_node_type,
           inode_table'[i].i_size = inode_table[i].i_size,
           inode_table'[i].i_data_block = inode_table[i].i_data_block,
           UNCHANGED fs_data
    PROVE  BytesOf(i)' = BytesOf(i)
  BY DEF BytesOf, IsLink

LEMMA NoBytes ==
    ASSUME NEW i, freeinode_ts[i] # "TAKEN" \/ IsLink(i)
    PROVE  BytesOf(i) = <<>>
  BY DEF BytesOf

EmptyHaveNoBytes == \A i : inode_table[i].i_size = 0 => BytesOf(i) = <<>>

LEMMA EmptyFile == EmptyHaveNoBytes
<1> SUFFICES ASSUME NEW i, inode_table[i].i_size = 0
             PROVE  BytesOf(i) = <<>>
  BY DEF EmptyHaveNoBytes
<1>1. BytesOf(i) = <<>>
         \/ BytesOf(i) = [k \in 1 .. 0 |->
                fs_data[inode_table[i].i_data_block * BLOCK_SIZE + k - 1]]
  BY DEF BytesOf
<1>2. [k \in 1 .. 0 |-> fs_data[inode_table[i].i_data_block * BLOCK_SIZE + k - 1]]
         = <<>>
  <2>1. PICK S : S = {fs_data[inode_table[i].i_data_block * BLOCK_SIZE + k - 1] :
                      k \in 1 .. 0}
    OBVIOUS
  <2>2. [k \in 1 .. 0 |-> fs_data[inode_table[i].i_data_block * BLOCK_SIZE + k - 1]]
           \in [1 .. 0 -> S]
    BY <2>1
  <2> QED BY <2>2, EmptyFunction
<1> QED BY <1>1, <1>2

\* Nothing is delivered but by a read.
NoBytesRead == buf = NoData
NothingRead == delivered = <<>>

LEMMA NothingDelivered == NoBytesRead => NothingRead
<1> SUFFICES ASSUME buf = NoData PROVE delivered = <<>>
  BY DEF NoBytesRead, NothingRead
<1>1. DOMAIN buf = {}
  BY DEF NoData
<1>2. Cardinality(DOMAIN buf) = 0
  BY <1>1, FS_EmptySet
<1>3. delivered = [k \in 1 .. 0 |-> buf[k - 1]]
  BY <1>2 DEF delivered
<1>4. PICK S : S = {buf[k - 1] : k \in 1 .. 0}
  OBVIOUS
<1>5. delivered \in [1 .. 0 -> S]
  BY <1>3, <1>4
<1> QED BY <1>5, EmptyFunction

(***************************************************************************)
(* The abstract state after a step                                         *)
(***************************************************************************)
LEMMA FilesSame ==
    ASSUME \A i \in Files : BytesOf(i)' = BytesOf(i)
    PROVE  contents' = contents
  BY DEF contents, Files

LEMMA OneFileChanged ==
    ASSUME NEW f \in Files, NEW bytes, BytesOf(f)' = bytes,
           \A i \in Files \ {f} : BytesOf(i)' = BytesOf(i)
    PROVE  contents' = [contents EXCEPT ![f] = bytes]
  BY DEF contents, Files

LEMMA OneHandleChanged ==
    ASSUME TablesType, NEW fh \in Handles, NEW rec,
           open_file_table' = [open_file_table EXCEPT ![fh] = rec]
    PROVE  opened' = [opened EXCEPT ![fh] =
               IF rec = NoFile THEN None
               ELSE [file |-> rec.of_inumber, pos |-> rec.of_offset]]
  BY DEF opened, TablesType

LEMMA OneNameChanged ==
    ASSUME NEW n \in Names, NEW f, NEW l, fileOf'[n] = f, linkTo'[n] = l,
           \A m \in Names \ {n} : fileOf'[m] = fileOf[m] /\ linkTo'[m] = linkTo[m]
    PROVE  /\ fileOf' = [fileOf EXCEPT ![n] = f]
           /\ linkTo' = [linkTo EXCEPT ![n] = l]
           /\ f = fileOf[n] => fileOf' = fileOf
           /\ l = linkTo[n] => linkTo' = linkTo
<1>1. /\ fileOf = [m \in Names |-> fileOf[m]]
      /\ linkTo = [m \in Names |-> linkTo[m]]
      /\ fileOf' = [m \in Names |-> fileOf'[m]]
      /\ linkTo' = [m \in Names |-> linkTo'[m]]
  BY DEF fileOf, linkTo
<1> QED BY <1>1

\* A step on handles, or of no table, leaves names and files as they are.
LEMMA TablesSame ==
    ASSUME UNCHANGED <<freeinode_ts, inode_table, dir>>
    PROVE  fileOf' = fileOf /\ linkTo' = linkTo
  BY DEF fileOf, linkTo, InodeOf, Inode, IsLink, Found, tfs_lookup, Matches, IsFirst

LEMMA AllFilesSame ==
    ASSUME UNCHANGED <<freeinode_ts, inode_table, fs_data>>
    PROVE  contents' = contents
<1>1. \A i \in Files : BytesOf(i)' = BytesOf(i)
  BY BytesSame
<1> QED BY <1>1, FilesSame

LEMMA NotImporting == Idle => importing = None
  BY DEF Idle, importing

Empty ==
    /\ \A s \in Slots : dir[s].d_inumber = -1
    /\ \A i \in Files : freeinode_ts[i] = "FREE"
    /\ \A fh \in Handles : open_file_table[fh] = NoFile

NothingThere ==
    /\ fileOf = [n \in Names |-> None]
    /\ linkTo = [n \in Names |-> None]
    /\ contents = [f \in Files |-> <<>>]
    /\ opened = [fh \in Handles |-> None]

LEMMA EmptyView == ClientInv /\ Empty => NothingThere
<1> SUFFICES ASSUME ClientInv, Empty PROVE NothingThere
  OBVIOUS
<1>1. \A n \in Names : fileOf[n] = None /\ linkTo[n] = None
  BY NamesView DEF EntriesLead, Entry, Empty
<1>2. \A f \in Files : BytesOf(f) = <<>>
  BY NoBytes DEF Empty
<1>3. fileOf = [n \in Names |-> None] /\ linkTo = [n \in Names |-> None]
  BY <1>1 DEF fileOf, linkTo
<1>4. contents = [f \in Files |-> <<>>]
  BY <1>2 DEF contents
<1> QED BY <1>3, <1>4 DEF opened, Empty, NothingThere

LEMMA UninitEmpty ==
    ASSUME ClientInv, status = "uninit"
    PROVE  Empty
  BY DEF ClientInv, NoTables, Empty, Files

(***************************************************************************)
(* The calls                                                               *)
(***************************************************************************)
LEMMA InitMaps == ASSUME Init PROVE ClientInv => Promise!Init
<1> SUFFICES ASSUME ClientInv PROVE Promise!Init
  OBVIOUS
<1>1. Empty
  BY UninitEmpty DEF Init
<1>2. importing = None /\ ret = 0 /\ delivered = <<>>
  BY NothingDelivered DEF Init, importing, NoBytesRead, NothingRead
<1> QED BY <1>1, <1>2, EmptyView DEF NothingThere, Promise!Init

LEMMA Answered ==
    ASSUME NEW r, Returns(r)
    PROVE  Promise!Answer(r, <<>>)
<1>1. delivered' = <<>>
  <2>1. NoBytesRead'
    BY DEF Returns, NoBytesRead, NoData
  <2>2. NothingRead'
    BY <2>1, NothingDelivered, PTL
  <2> QED BY <2>2 DEF NothingRead
<1> QED BY <1>1 DEF Returns, Promise!Answer

LEMMA FailsMaps ==
    ASSUME Idle, Fails
    PROVE  importing = None /\ Promise!Refuse
<1>1. UNCHANGED <<fileOf, linkTo, contents>>
  BY TablesSame, AllFilesSame DEF Fails, tables
<1>2. UNCHANGED <<opened, importing>>
  BY DEF Fails, tables, opened, importing
<1> QED BY <1>1, <1>2, Answered, NotImporting DEF Fails, Promise!Refuse

LEMMA tfs_initMaps ==
    ASSUME ClientInv, ClientInv', tfs_init
    PROVE  Promise!Mount
<1>1. Empty
  BY UninitEmpty DEF tfs_init
<1>2. Empty'
  BY DEF tfs_init, Empty, Files
<1>3. importing = None /\ importing' = None
  BY DEF tfs_init, ClientInv, IInv, CallInv, importing
<1>4. NothingThere'
  BY <1>2, EmptyView, PTL
<1> QED BY <1>1, <1>3, <1>4, EmptyView, Answered
       DEF tfs_init, NothingThere, Promise!Mount

LEMMA tfs_destroyMaps ==
    ASSUME ClientInv', tfs_destroy
    PROVE  Promise!Unmount
<1>1. Empty'
  BY DEF tfs_destroy, Empty, Files
<1>2. importing = None /\ importing' = None
  BY NotImporting DEF tfs_destroy, importing, Idle
<1>3. NothingThere'
  BY <1>1, EmptyView, PTL
<1> QED BY <1>2, <1>3, Answered
       DEF tfs_destroy, NothingThere, Promise!Unmount

LEMMA OpenHandle ==
    ASSUME ClientInv, NEW fh \in Handles, open_file_table[fh] # NoFile,
           NEW i, i = open_file_table[fh].of_inumber,
           NEW offset, offset = open_file_table[fh].of_offset
    PROVE  /\ opened[fh] = [file |-> i, pos |-> offset]
           /\ opened[fh] # None
           /\ i \in Files
           /\ contents[i] = BytesOf(i)
<1>1. i \in Inodes \ {ROOT_DIR_INUM} /\ offset \in Nat
  BY InvParts, Cursor
<1>2. opened[fh] = [file |-> i, pos |-> offset]
  BY DEF opened
<1>3. opened[fh] # None
  BY <1>1, <1>2, NoneAssumption
<1> QED BY <1>1, <1>2, <1>3 DEF Files, contents

LEMMA tfs_closeMaps ==
    ASSUME ClientInv, NEW fh \in Handles, tfs_close(fh)
    PROVE  Promise!Close(fh) \/ (importing = None /\ Promise!Refuse)
<1>1. CASE Fails
  BY <1>1, FailsMaps DEF tfs_close
<1>2. CASE ~Fails
  <2>1. /\ open_file_table[fh] # NoFile
        /\ remove_from_open_file_table(fh)
        /\ Returns(0)
        /\ UNCHANGED <<freeinode_ts, inode_table, fs_data, dir, copying>>
    BY <1>2 DEF tfs_close
  <2>2. opened[fh] # None
    BY <2>1, OpenHandle
  <2>3. opened' = [opened EXCEPT ![fh] = None]
    BY <2>1, InvParts, OneHandleChanged DEF remove_from_open_file_table
  <2>4. UNCHANGED <<fileOf, linkTo, contents, importing>>
    BY <2>1, TablesSame, AllFilesSame DEF importing
  <2> QED BY <2>1, <2>2, <2>3, <2>4, NotImporting, Answered
             DEF tfs_close, Promise!Close
<1> QED BY <1>1, <1>2

(***************************************************************************)
(* tfs_open                                                                *)
(***************************************************************************)
LEMMA Granted ==
    ASSUME ClientInv, NEW i \in Inodes, NEW offset \in Nat,
           NEW fh \in Handles \cup {-1}, add_to_open_file_table(i, offset, fh)
    PROVE  Promise!Grant(i, offset, fh)
<1>1. CASE UNCHANGED open_file_table /\ fh = -1
  BY <1>1 DEF opened, Promise!Grant
<1>2. CASE /\ fh \in Handles /\ open_file_table[fh] = NoFile
           /\ open_file_table' = [open_file_table EXCEPT
                  ![fh] = [of_inumber |-> i, of_offset |-> offset]]
  <2>1. PICK rec : rec = [of_inumber |-> i, of_offset |-> offset]
    OBVIOUS
  <2>2. rec # NoFile /\ rec.of_inumber = i /\ rec.of_offset = offset
    BY <2>1 DEF NoFile, Inodes
  <2>3. opened' = [opened EXCEPT ![fh] = [file |-> i, pos |-> offset]]
    BY <1>2, <2>1, <2>2, InvParts, OneHandleChanged
  <2>4. opened[fh] = None
    BY <1>2 DEF opened
  <2> QED BY <1>2, <2>3, <2>4 DEF Promise!Grant
<1> QED BY <1>1, <1>2 DEF add_to_open_file_table, IsFirst, FreeHandles

\* The file a name that is there leads to.
LEMMA NameLeads ==
    ASSUME ClientInv, NEW n \in Names, NEW s \in Slots, Found(n, s),
           NEW i, i = dir[s].d_inumber
    PROVE  LeadsTo(n, i)
  BY FoundEntry, NamesView DEF EntriesLead

LEMMA OldMaps ==
    ASSUME ClientInv, ClientInv', UNCHANGED fs_data, NEW n \in Names, NEW mode,
           NEW fh \in Handles \cup {-1}, NEW s \in Slots,
           NEW i \in Inodes \ {ROOT_DIR_INUM}, NEW inum \in Inodes \ {ROOT_DIR_INUM},
           NEW offset \in Nat, OldOpen(n, mode, fh, s, i, inum, offset)
    PROVE  Promise!OpenOld(n, mode, fh)
<1>1. /\ freeinode_ts[i] = "TAKEN" /\ freeinode_ts[inum] = "TAKEN"
      /\ inode_table[inum].i_node_type = "T_FILE"
      /\ inode_table[i] \in InodeRecord /\ inode_table \in [Inodes -> InodeRecord]
  BY InvParts, InodeTyped DEF OldOpen, TablesType
<1>2. Promise!Resolve(n) = inum /\ inum # None /\ inum \in Files
  <2>1. inum # None /\ inum \in Files
    BY NoneAssumption DEF Files
  <2>2. LeadsTo(n, i)
    BY NameLeads DEF OldOpen
  <2>3. CASE IsLink(i)
    <3>1. PICK target \in Names, t \in Slots :
             /\ target = inode_table[i].i_target
             /\ Found(target, t) /\ inum = dir[t].d_inumber
      BY <2>3 DEF OldOpen
    <3>2. LeadsTo(target, inum) /\ ~IsLink(inum)
      BY <1>1, <3>1, NameLeads DEF IsLink
    <3>3. linkTo[n] = target /\ target # None
      BY <2>2, <2>3, <3>1, NoneAssumption DEF LeadsTo
    <3> QED BY <2>1, <3>2, <3>3 DEF LeadsTo, Promise!Resolve
  <2>4. CASE ~IsLink(i)
    BY <2>1, <2>2, <2>4 DEF LeadsTo, OldOpen, Promise!Resolve
  <2> QED BY <2>3, <2>4
<1>3. /\ \A j \in Inodes \ {i} : inode_table'[j] = inode_table[j]
      /\ inode_table'[i].i_node_type = inode_table[i].i_node_type
      /\ inode_table'[i].i_target = inode_table[i].i_target
      /\ inode_table'[i].i_data_block = inode_table[i].i_data_block
      /\ inode_table'[i].i_size = IF Truncates(i, mode) THEN 0 ELSE inode_table[i].i_size
  BY <1>1 DEF OldOpen, InodeRecord
<1>4. fileOf' = fileOf /\ linkTo' = linkTo
  BY <1>3, NamesSame DEF OldOpen
<1>5. \A j \in Files \ {inum} : BytesOf(j)' = BytesOf(j)
  <2> SUFFICES ASSUME NEW j \in Files \ {inum} PROVE BytesOf(j)' = BytesOf(j)
    OBVIOUS
  <2>1. CASE j = i
    <3>1. IsLink(i) /\ IsLink(i)'
      BY <1>3, <2>1 DEF OldOpen, IsLink
    <3> QED BY <2>1, <3>1 DEF BytesOf
  <2>2. CASE j # i
    BY <1>3, <2>2, BytesSame DEF OldOpen, Files
  <2> QED BY <2>1, <2>2
<1>6. BytesOf(inum)' = IF "TFS_O_TRUNC" \in mode THEN <<>> ELSE contents[inum]
  <2>1. contents[inum] = BytesOf(inum)
    BY <1>2 DEF contents
  <2>2. CASE "TFS_O_TRUNC" \in mode
    <3>1. inum = i
      BY <2>2 DEF OldOpen
    <3>2. inode_table'[inum].i_size = 0
      BY <1>1, <1>3, <2>2, <3>1 DEF Truncates, InodeRecord
    <3>3. EmptyHaveNoBytes'
      BY EmptyFile, PTL
    <3> QED BY <2>2, <3>2, <3>3 DEF EmptyHaveNoBytes
  <2>3. CASE "TFS_O_TRUNC" \notin mode
    <3>1. /\ inode_table'[inum].i_node_type = inode_table[inum].i_node_type
          /\ inode_table'[inum].i_size = inode_table[inum].i_size
          /\ inode_table'[inum].i_data_block = inode_table[inum].i_data_block
      BY <1>3, <2>3 DEF Truncates
    <3> QED BY <2>1, <2>3, <3>1, BytesSame DEF OldOpen
  <2> QED BY <2>2, <2>3
<1>7. PICK data : data = IF "TFS_O_TRUNC" \in mode THEN <<>> ELSE contents[inum]
  OBVIOUS
<1>8. contents' = [contents EXCEPT ![inum] = data]
  BY <1>2, <1>5, <1>6, <1>7, OneFileChanged
<1>9. Len(data) = inode_table'[inum].i_size
  <2>1. FilesHaveBytes'
    BY BytesView, PTL
  <2>2. freeinode_ts'[inum] = "TAKEN" /\ ~IsLink(inum)'
    BY <1>1 DEF OldOpen, IsLink
  <2>3. FileHasBytes(inum)'
    BY <2>1, <2>2 DEF FilesHaveBytes
  <2> QED BY <1>6, <1>7, <2>3 DEF FileHasBytes
<1>10. Promise!Grant(inum, IF "TFS_O_APPEND" \in mode THEN Len(data) ELSE 0, fh)
  BY <1>9, Granted DEF OldOpen
<1> QED BY <1>2, <1>4, <1>7, <1>8, <1>10 DEF Promise!OpenOld

\* A new name leads to the inode of its entry; the others lead where they led.
LEMMA NameAddedMaps ==
    ASSUME ClientInv, ClientInv', NEW n \in Names \ Malformed, Matches(n) = {},
           NEW i \in Inodes, add_dir_entry(n, i),
           \A j \in Inodes : freeinode_ts[j] = "TAKEN" =>
              /\ inode_table'[j].i_node_type = inode_table[j].i_node_type
              /\ inode_table'[j].i_target = inode_table[j].i_target
    PROVE  /\ fileOf[n] = None /\ linkTo[n] = None
           /\ LeadsTo(n, i)'
           /\ \A m \in Names \ {n} : fileOf'[m] = fileOf[m] /\ linkTo'[m] = linkTo[m]
<1>1. PICK s \in Slots :
          /\ dir[s].d_inumber = -1
          /\ dir' = [dir EXCEPT ![s] = [d_name |-> n, d_inumber |-> i]]
  BY DEF add_dir_entry, IsFirst, EmptySlots
<1>2. /\ dir'[s].d_name = n /\ dir'[s].d_inumber = i /\ i # -1
      /\ \A t \in Slots \ {s} : dir'[t] = dir[t]
  BY <1>1, InvParts DEF TablesType, Inodes
<1>3. fileOf[n] = None /\ linkTo[n] = None
  <2>1. \A t \in Slots : ~Entry(t, n)
    BY DEF Matches, Entry
  <2> QED BY <2>1, NamesView DEF EntriesLead
<1>4. LeadsTo(n, i)'
  <2>1. EntriesLead'
    BY NamesView, PTL
  <2>2. Entry(s, n)'
    BY <1>2 DEF Entry
  <2> QED BY <1>2, <2>1, <2>2 DEF EntriesLead
<1>5. ASSUME NEW m \in Names \ {n}
      PROVE  fileOf'[m] = fileOf[m] /\ linkTo'[m] = linkTo[m]
  <2>1. \A t \in Slots : Entry(t, m) \/ Entry(t, m)' => dir'[t] = dir[t]
    BY <1>1, <1>2 DEF Entry
  <2> QED BY <2>1, NameSame
<1> QED BY <1>3, <1>4, <1>5

\* A name that leads to a file leads to an allocated inode, by an entry.
LEMMA FileOfEntry ==
    ASSUME ClientInv, NEW n \in Names, NEW i \in Inodes, fileOf[n] = i
    PROVE  \E s \in Slots : Entry(s, n) /\ dir[s].d_inumber = i /\ freeinode_ts[i] = "TAKEN"
<1>1. i # None
  BY NoneAssumption
<1>2. PICK s \in Slots : Entry(s, n)
  BY <1>1, NamesView DEF EntriesLead
<1>3. PICK j : j = dir[s].d_inumber
  OBVIOUS
<1>4. j \in Inodes /\ freeinode_ts[j] = "TAKEN"
  BY <1>2, <1>3, EntryFound, FoundKind
<1>5. LeadsTo(n, j)
  BY <1>2, <1>3, NamesView DEF EntriesLead
<1> QED BY <1>1, <1>2, <1>3, <1>4, <1>5 DEF LeadsTo

LEMMA NewMaps ==
    ASSUME ClientInv, ClientInv', UNCHANGED fs_data, NEW n \in Names, NEW mode,
           "TFS_O_CREAT" \in mode, NEW fh \in Handles \cup {-1},
           NEW i \in Inodes \ {ROOT_DIR_INUM}, NewOpen(n, fh, i)
    PROVE  Promise!OpenNew(n, mode, fh)
<1>1. PICK rec : /\ inode_table' = [inode_table EXCEPT ![i] = rec]
                 /\ rec.i_size = 0 /\ rec.i_node_type = "T_FILE"
  BY InvParts, InodeCreated DEF NewOpen
<1>2. /\ freeinode_ts[i] = "FREE" /\ freeinode_ts'[i] = "TAKEN"
      /\ inode_table'[i] = rec
      /\ \A j \in Inodes \ {i} : /\ inode_table'[j] = inode_table[j]
                                 /\ freeinode_ts'[j] = freeinode_ts[j]
  BY <1>1, InvParts DEF NewOpen, TablesType
<1>3. /\ fileOf[n] = None /\ linkTo[n] = None
      /\ LeadsTo(n, i)'
      /\ \A m \in Names \ {n} : fileOf'[m] = fileOf[m] /\ linkTo'[m] = linkTo[m]
  BY <1>2, NameAddedMaps DEF NewOpen
<1>4. fileOf'[n] = i /\ linkTo'[n] = None
  BY <1>1, <1>2, <1>3 DEF LeadsTo, IsLink
<1>5. fileOf' = [fileOf EXCEPT ![n] = i] /\ linkTo' = linkTo
  BY <1>3, <1>4, OneNameChanged
<1>6. i \in Files
  BY DEF Files
<1>7. contents' = [contents EXCEPT ![i] = <<>>]
  <2>1. BytesOf(i)' = <<>>
    <3>1. EmptyHaveNoBytes'
      BY EmptyFile, PTL
    <3> QED BY <1>1, <1>2, <3>1 DEF EmptyHaveNoBytes
  <2>2. \A j \in Files \ {i} : BytesOf(j)' = BytesOf(j)
    BY <1>2, BytesSame DEF Files
  <2> QED BY <1>6, <2>1, <2>2, OneFileChanged
<1>8. Promise!Unused(i)
  <2>1. \A m \in Names : fileOf[m] # i
    BY <1>2, FileOfEntry
  <2>2. ASSUME NEW h \in Handles, opened[h] # None PROVE opened[h].file # i
    <3>1. open_file_table[h] # NoFile
      BY <2>2 DEF opened
    <3>2. open_file_table[h].of_inumber # i
      BY <1>2, <3>1, InvParts, OpenInodes
    <3> QED BY <3>1, <3>2 DEF opened
  <2> QED BY <2>1, <2>2 DEF Promise!Unused, Promise!NamesOf
<1>9. Promise!Grant(i, 0, fh)
  BY Granted DEF NewOpen
<1> QED BY <1>3, <1>5, <1>6, <1>7, <1>8, <1>9
           DEF Promise!OpenNew, Promise!Exists

\* An inode begun and given back shows nowhere.
LEMMA BegunOnly ==
    ASSUME ClientInv, ClientInv', NEW i \in Inodes, freeinode_ts[i] = "FREE",
           NEW rec, inode_table' = [inode_table EXCEPT ![i] = rec],
           UNCHANGED <<freeinode_ts, dir, fs_data>>
    PROVE  UNCHANGED <<fileOf, linkTo, contents>>
<1>1. \A j \in Inodes : freeinode_ts[j] = "TAKEN" => inode_table'[j] = inode_table[j]
  BY InvParts DEF TablesType
<1>2. fileOf' = fileOf /\ linkTo' = linkTo
  BY <1>1, NamesSame
<1>3. \A j \in Files : freeinode_ts[j] = "TAKEN" => BytesOf(j)' = BytesOf(j)
  BY <1>1, BytesSame DEF Files
<1>4. \A j \in Files : freeinode_ts[j] # "TAKEN" => BytesOf(j)' = BytesOf(j)
  BY DEF BytesOf
<1>5. contents' = contents
  BY <1>3, <1>4, FilesSame
<1> QED BY <1>2, <1>5

\* Every way tfs_open ends.
LEMMA OpenMaps ==
    ASSUME ClientInv, ClientInv', Idle, UNCHANGED fs_data,
           NEW n \in Names, NEW mode, CanOpen(n, mode),
           NEW fh \in Handles \cup {-1}, Open(n, mode, fh)
    PROVE  \/ Promise!OpenTo(n, mode, fh)
           \/ fh = -1 /\ UNCHANGED <<fileOf, linkTo, contents, opened>>
<1>1. CASE OpenExisting(n, mode, fh)
  BY <1>1, OldFound, OldMaps DEF Promise!OpenTo
<1>2. CASE OpenCreates(n, mode, fh)
  <2>1. "TFS_O_CREAT" \in mode
    BY <1>2 DEF OpenCreates
  <2> QED BY <1>2, <2>1, NewFound, NewMaps DEF Promise!OpenTo
<1>3. CASE fh = -1 /\ OpenCannotCreate(n, mode)
  <2>1. PICK i \in Inodes \ {ROOT_DIR_INUM} :
           /\ freeinode_ts[i] = "FREE"
           /\ inode_table' = inode_create(i, "T_FILE")
    BY <1>3, FreshInode DEF OpenCannotCreate
  <2>2. PICK rec : inode_table' = [inode_table EXCEPT ![i] = rec]
    BY <2>1, InvParts, InodeCreated
  <2>3. UNCHANGED <<freeinode_ts, dir, open_file_table>>
    BY <1>3 DEF OpenCannotCreate
  <2>4. UNCHANGED <<fileOf, linkTo, contents>>
    BY <2>1, <2>2, <2>3, BegunOnly
  <2> QED BY <1>3, <2>3, <2>4 DEF opened
<1>4. CASE fh = -1 /\ UNCHANGED tables
  <2>1. UNCHANGED <<fileOf, linkTo, contents>>
    BY <1>4, TablesSame, AllFilesSame DEF tables
  <2> QED BY <1>4, <2>1 DEF tables, opened
<1> QED BY <1>1, <1>2, <1>3, <1>4 DEF Open

LEMMA tfs_openMaps ==
    ASSUME ClientInv, ClientInv', NEW n \in Names, NEW mode \in Modes,
           CanOpen(n, mode), tfs_open(n, mode)
    PROVE  Promise!Open(n, mode)
<1>1. PICK fh \in Handles \cup {-1} : Open(n, mode, fh) /\ Returns(fh)
  BY DEF tfs_open
<1>2. Idle /\ UNCHANGED <<fs_data, copying>>
  BY DEF tfs_open
<1>3. importing = None /\ importing' = importing
  BY <1>2, NotImporting DEF importing
<1>4. Promise!Answer(fh, <<>>)
  BY <1>1, Answered
<1>5. CASE Promise!OpenTo(n, mode, fh)
  BY <1>3, <1>4, <1>5 DEF Promise!Open
<1>6. CASE fh = -1 /\ UNCHANGED <<fileOf, linkTo, contents, opened>>
  BY <1>3, <1>4, <1>6 DEF Promise!Open, Promise!Refuse
<1> QED BY <1>1, <1>2, <1>5, <1>6, OpenMaps

\* A copy empties its destination, so that appending to it starts at 0.
LEMMA CopyOpenMaps ==
    ASSUME ClientInv, ClientInv', NEW n \in Names, NEW length \in Int,
           CanOpen(n, CopyMode), CopyOpen(n, length)
    PROVE  \/ length \in Nat /\ Promise!ImportBegin(n, length)
           \/ importing = None /\ Promise!Refuse
<1>1. CASE Fails
  BY <1>1, FailsMaps DEF CopyOpen
<1>2. CASE ~Fails
  <2>1. PICK fh \in Handles \cup {-1} :
           /\ Open(n, CopyMode, fh)
           /\ Returns(IF fh = -1 THEN -1 ELSE ret)
           /\ copying' = IF fh = -1 THEN NoCopy
                         ELSE [fhandle |-> fh, left |-> length]
           /\ Idle /\ UNCHANGED fs_data /\ length \in Nat
    BY <1>2 DEF CopyOpen
  <2>2. importing = None
    BY <2>1, NotImporting
  <2>3. importing' = IF fh = -1 THEN None ELSE [handle |-> fh, left |-> length]
    BY <2>1 DEF importing, NoCopy
  <2>4. Promise!Answer(IF fh = -1 THEN -1 ELSE ret, <<>>)
    BY <2>1, Answered
  <2>5. CASE Promise!OpenTo(n, CopyMode, fh)
    <3>1. Promise!OpenTo(n, {"TFS_O_TRUNC", "TFS_O_CREAT"}, fh)
      <4>1. Len(<<>>) = 0
        OBVIOUS
      <4> QED BY <2>5, <4>1
              DEF Promise!OpenTo, Promise!OpenOld, Promise!OpenNew, CopyMode
    <3> QED BY <2>1, <2>2, <2>3, <2>4, <3>1 DEF Promise!ImportBegin
  <2>6. CASE fh = -1 /\ UNCHANGED <<fileOf, linkTo, contents, opened>>
    BY <2>2, <2>3, <2>4, <2>6 DEF Promise!Refuse
  <2> QED BY <2>1, <2>5, <2>6, OpenMaps
<1> QED BY <1>1, <1>2

(***************************************************************************)
(* tfs_link, tfs_sym_link, tfs_unlink                                      *)
(***************************************************************************)
\* A new number of links shows in no name's kind and in no byte.
LEMMA LinksChanged ==
    ASSUME TablesType, NEW i \in Inodes, NEW links,
           inode_table' = [inode_table EXCEPT ![i].hard_links_count = links]
    PROVE  \A j \in Inodes : /\ inode_table'[j].i_node_type = inode_table[j].i_node_type
                             /\ inode_table'[j].i_size = inode_table[j].i_size
                             /\ inode_table'[j].i_data_block = inode_table[j].i_data_block
                             /\ inode_table'[j].i_target = inode_table[j].i_target
<1> SUFFICES ASSUME NEW j \in Inodes
             PROVE  /\ inode_table'[j].i_node_type = inode_table[j].i_node_type
                    /\ inode_table'[j].i_size = inode_table[j].i_size
                    /\ inode_table'[j].i_data_block = inode_table[j].i_data_block
                    /\ inode_table'[j].i_target = inode_table[j].i_target
  OBVIOUS
<1>1. inode_table[j] \in InodeRecord /\ inode_table[i] \in InodeRecord
  BY DEF TablesType
<1>2. CASE j = i
  BY <1>1, <1>2 DEF InodeRecord, TablesType
<1>3. CASE j # i
  BY <1>3 DEF TablesType
<1> QED BY <1>2, <1>3

LEMMA tfs_linkMaps ==
    ASSUME ClientInv, ClientInv', NEW target \in Names, NEW name \in Names,
           CanLink(target, name), tfs_link(target, name)
    PROVE  Promise!Link(target, name) \/ (importing = None /\ Promise!Refuse)
<1>1. CASE Fails
  BY <1>1, FailsMaps DEF tfs_link
<1>2. ASSUME NEW s \in Slots, Found(target, s), CanAddEntry(name),
             inode_table[dir[s].d_inumber].i_node_type # "T_SOFT_LINK",
             add_dir_entry(name, dir[s].d_inumber),
             inode_table' = [inode_table EXCEPT
                 ![dir[s].d_inumber].hard_links_count = @ + 1],
             Returns(0),
             UNCHANGED <<freeinode_ts, fs_data, open_file_table, copying>>
      PROVE  Promise!Link(target, name)
  <2>1. PICK i, links : /\ i = dir[s].d_inumber
                        /\ links = inode_table[i].hard_links_count + 1
    OBVIOUS
  <2>2. i \in Inodes /\ freeinode_ts[i] = "TAKEN"
    BY <1>2, <2>1, FoundKind
  <2>3. inode_table' = [inode_table EXCEPT ![i].hard_links_count = links]
    BY <1>2, <2>1
  <2>4. \A j \in Inodes : /\ inode_table'[j].i_node_type = inode_table[j].i_node_type
                          /\ inode_table'[j].i_size = inode_table[j].i_size
                          /\ inode_table'[j].i_data_block = inode_table[j].i_data_block
                          /\ inode_table'[j].i_target = inode_table[j].i_target
    BY <2>2, <2>3, InvParts, LinksChanged
  <2>5. LeadsTo(target, i) /\ ~IsLink(i)
    BY <1>2, <2>1, NameLeads DEF IsLink
  <2>6. fileOf[target] = i /\ i # None
    BY <2>2, <2>5, NoneAssumption DEF LeadsTo
  <2>7. name \notin Malformed /\ Matches(name) = {}
    BY <1>2, NotThere DEF CanLink, CanAddEntry
  <2>8. /\ fileOf[name] = None /\ linkTo[name] = None
        /\ LeadsTo(name, i)'
        /\ \A m \in Names \ {name} : fileOf'[m] = fileOf[m] /\ linkTo'[m] = linkTo[m]
    BY <1>2, <2>1, <2>2, <2>4, <2>7, NameAddedMaps
  <2>9. fileOf'[name] = i /\ linkTo'[name] = None
    BY <2>2, <2>4, <2>5, <2>8 DEF LeadsTo, IsLink
  <2>10. fileOf' = [fileOf EXCEPT ![name] = i] /\ linkTo' = linkTo
    BY <2>8, <2>9, OneNameChanged
  <2>11. contents' = contents
    <3>1. \A j \in Files : BytesOf(j)' = BytesOf(j)
      BY <1>2, <2>4, BytesSame DEF Files
    <3> QED BY <3>1, FilesSame
  <2>12. UNCHANGED <<opened, importing>>
    BY <1>2 DEF opened, importing
  <2> QED BY <1>2, <2>6, <2>8, <2>10, <2>11, <2>12, NotImporting, Answered
          DEF tfs_link, Promise!Link, Promise!Exists
<1> QED BY <1>1, <1>2 DEF tfs_link

LEMMA tfs_sym_linkMaps ==
    ASSUME ClientInv, ClientInv', NEW target \in Names, NEW name \in Names,
           CanLink(target, name), tfs_sym_link(target, name)
    PROVE  Promise!SymLink(target, name) \/ (importing = None /\ Promise!Refuse)
<1>1. CASE Fails
  BY <1>1, FailsMaps DEF tfs_sym_link
<1>2. CASE ~Fails
  <2>1. PICK i \in Inodes \ {ROOT_DIR_INUM} :
           /\ tfs_lookup(target) # {}
           /\ freeinode_ts[i] = "FREE"
           /\ inode_table' = SymLinkInode(i, target)
           /\ \/ /\ CanAddEntry(name)
                 /\ freeinode_ts' = [freeinode_ts EXCEPT ![i] = "TAKEN"]
                 /\ add_dir_entry(name, i)
                 /\ Returns(0)
              \/ Returns(-1) /\ UNCHANGED <<freeinode_ts, dir>>
           /\ UNCHANGED <<fs_data, open_file_table, copying>>
    BY <1>2, FreshInode DEF tfs_sym_link
  <2>2. PICK rec : /\ inode_table' = [inode_table EXCEPT ![i] = rec]
                   /\ rec.i_size = 0 /\ rec.i_node_type = "T_SOFT_LINK"
                   /\ rec.i_target = target
    BY <2>1, InvParts, InodeCreated DEF CanLink
  <2>3. UNCHANGED <<opened, importing>> /\ importing = None
    BY <2>1, NotImporting DEF opened, importing, tfs_sym_link
  <2>4. CASE Returns(-1) /\ UNCHANGED <<freeinode_ts, dir>>
    <3>1. UNCHANGED <<fileOf, linkTo, contents>>
      BY <2>1, <2>2, <2>4, BegunOnly
    <3> QED BY <2>3, <2>4, <3>1, Answered DEF Promise!Refuse
  <2>5. CASE /\ CanAddEntry(name)
             /\ freeinode_ts' = [freeinode_ts EXCEPT ![i] = "TAKEN"]
             /\ add_dir_entry(name, i)
             /\ Returns(0)
    <3>1. /\ freeinode_ts'[i] = "TAKEN" /\ inode_table'[i] = rec
          /\ \A j \in Inodes \ {i} : /\ inode_table'[j] = inode_table[j]
                                     /\ freeinode_ts'[j] = freeinode_ts[j]
      BY <2>2, <2>5, InvParts DEF TablesType
    <3>2. name \notin Malformed /\ Matches(name) = {}
      BY <2>5, NotThere DEF CanLink, CanAddEntry
    <3>3. /\ fileOf[name] = None /\ linkTo[name] = None
          /\ LeadsTo(name, i)'
          /\ \A m \in Names \ {name} : fileOf'[m] = fileOf[m] /\ linkTo'[m] = linkTo[m]
      BY <2>1, <2>5, <3>1, <3>2, NameAddedMaps
    <3>4. fileOf'[name] = None /\ linkTo'[name] = target
      BY <2>2, <3>1, <3>3 DEF LeadsTo, IsLink
    <3>5. linkTo' = [linkTo EXCEPT ![name] = target] /\ fileOf' = fileOf
      BY <3>3, <3>4, OneNameChanged
    <3>6. contents' = contents
      <4>1. BytesOf(i) = <<>>
        BY <2>1, NoBytes
      <4>2. BytesOf(i)' = <<>>
        BY <2>2, <3>1 DEF BytesOf, IsLink
      <4>3. \A j \in Files \ {i} : BytesOf(j)' = BytesOf(j)
        BY <2>1, <3>1, BytesSame DEF Files
      <4>4. \A j \in Files : BytesOf(j)' = BytesOf(j)
        BY <4>1, <4>2, <4>3
      <4> QED BY <4>4, FilesSame
    <3>7. Promise!Exists(target)
      <4>1. PICK s \in Slots : Entry(s, target)
        BY <2>1 DEF tfs_lookup, Matches, Entry
      <4>2. PICK j : j = dir[s].d_inumber
        OBVIOUS
      <4>3. j \in Inodes /\ (IsLink(j) => inode_table[j].i_target \in Names)
        BY <4>1, <4>2, EntryFound, FoundKind
      <4>4. LeadsTo(target, j)
        BY <4>1, <4>2, NamesView DEF EntriesLead
      <4> QED BY <4>3, <4>4, NoneAssumption DEF LeadsTo, Promise!Exists
    <3> QED BY <2>3, <2>5, <3>3, <3>5, <3>6, <3>7, Answered
            DEF Promise!SymLink, Promise!Exists
  <2> QED BY <2>1, <2>4, <2>5
<1> QED BY <1>1, <1>2

\* The last name goes when the link count says so.
LEMMA LastName ==
    ASSUME ClientInv, NEW n \in Names, NEW s \in Slots, Entry(s, n),
           NEW i \in Inodes \ {ROOT_DIR_INUM}, i = dir[s].d_inumber,
           freeinode_ts[i] = "TAKEN", ~IsLink(i)
    PROVE  Promise!NamesOf(i) = {n} <=> inode_table[i].hard_links_count = 1
<1>1. /\ inode_table[i].hard_links_count = Cardinality(Links(i))
      /\ s \in Links(i)
  BY InvParts DEF TablesInv, NamesInv, LinkCount, Links
<1>2. fileOf[n] = i
  BY NamesView DEF EntriesLead, LeadsTo
<1>3. ASSUME Promise!NamesOf(i) = {n}
      PROVE  inode_table[i].hard_links_count = 1
  <2>1. ASSUME NEW t \in Links(i) PROVE t = s
    <3>1. PICK m : m = dir[t].d_name
      OBVIOUS
    <3>2. t \in Slots /\ dir[t].d_inumber = i /\ dir[t].d_inumber # -1
      BY <2>1 DEF Links, Inodes
    <3>3. m \in Names /\ Entry(t, m)
      BY <3>1, <3>2, InvParts DEF TablesInv, NamesInv, EntriesNamed, Entry
    <3>4. LeadsTo(m, i)
      BY <3>2, <3>3, NamesView DEF EntriesLead
    <3>5. fileOf[m] = i
      BY <3>4 DEF LeadsTo
    <3>6. m = n
      BY <1>3, <3>3, <3>5 DEF Promise!NamesOf
    <3> QED BY <3>2, <3>3, <3>6, EntryFound
  <2>2. Links(i) = {s}
    BY <1>1, <2>1
  <2> QED BY <1>1, <2>2, FS_Singleton
<1>4. ASSUME inode_table[i].hard_links_count = 1
      PROVE  Promise!NamesOf(i) = {n}
  <2>1. Links(i) = {s}
    BY <1>1, <1>4, SingleLink
  <2>2. ASSUME NEW m \in Names, fileOf[m] = i PROVE m = n
    <3>1. PICK t \in Slots : Entry(t, m) /\ dir[t].d_inumber = i
      BY <2>2, FileOfEntry
    <3>2. t = s
      BY <2>1, <3>1 DEF Links
    <3> QED BY <3>1, <3>2 DEF Entry
  <2> QED BY <1>2, <2>2 DEF Promise!NamesOf
<1> QED BY <1>3, <1>4

LEMMA tfs_unlinkMaps ==
    ASSUME ClientInv, ClientInv', NEW n \in Names, CanUnlink(n), tfs_unlink(n)
    PROVE  Promise!Unlink(n) \/ (importing = None /\ Promise!Refuse)
<1>1. CASE Fails
  BY <1>1, FailsMaps DEF tfs_unlink
<1>2. CASE ~Fails
  <2>1. PICK s \in Slots, i \in Inodes \ {ROOT_DIR_INUM} : OldUnlink(n, s, i)
    BY <1>2, UnlinkFound
  <2>2. /\ Entry(s, n) /\ i = dir[s].d_inumber /\ freeinode_ts[i] = "TAKEN"
        /\ ~IsLink(i) /\ LeadsTo(n, i)
    BY <2>1, FoundEntry, FoundKind, NameLeads DEF OldUnlink
  <2>3. fileOf[n] = i /\ linkTo[n] = None /\ i # None /\ i \in Files
    BY <2>2, NoneAssumption DEF LeadsTo, Files
  <2>4. PICK links : inode_table' = [inode_table EXCEPT ![i].hard_links_count = links]
    BY <2>1 DEF OldUnlink
  <2>5. \A j \in Inodes : /\ inode_table'[j].i_node_type = inode_table[j].i_node_type
                          /\ inode_table'[j].i_size = inode_table[j].i_size
                          /\ inode_table'[j].i_data_block = inode_table[j].i_data_block
                          /\ inode_table'[j].i_target = inode_table[j].i_target
    BY <2>4, InvParts, LinksChanged
  <2>6. /\ dir'[s].d_inumber = -1
        /\ \A t \in Slots \ {s} : dir'[t] = dir[t]
    BY <2>1, InvParts DEF OldUnlink, TablesType
  <2>7. fileOf'[n] = None /\ linkTo'[n] = None
    <3>1. \A t \in Slots : ~Entry(t, n)'
      BY <2>2, <2>6, EntryFound DEF Entry
    <3>2. EntriesLead'
      BY NamesView, PTL
    <3> QED BY <3>1, <3>2 DEF EntriesLead
  <2>8. ASSUME NEW m \in Names \ {n}
        PROVE  fileOf'[m] = fileOf[m] /\ linkTo'[m] = linkTo[m]
    <3>1. \A t \in Slots : Entry(t, m) \/ Entry(t, m)' => dir'[t] = dir[t]
      BY <2>2, <2>6 DEF Entry
    <3> QED BY <2>5, <3>1, NameSame
  <2>9. fileOf' = [fileOf EXCEPT ![n] = None] /\ linkTo' = linkTo
    BY <2>3, <2>7, <2>8, OneNameChanged
  <2>10. Promise!NamesOf(i) = {n} <=> Deleted(i)
    BY <2>2, LastName DEF Deleted, IsLink
  <2>11. /\ \A j \in Inodes \ {i} : freeinode_ts'[j] = freeinode_ts[j]
         /\ freeinode_ts'[i] = IF Deleted(i) THEN "FREE" ELSE freeinode_ts[i]
    BY <2>1, InvParts DEF OldUnlink, inode_delete, TablesType
  <2>12. UNCHANGED <<fs_data, opened, importing>>
    BY <2>1 DEF OldUnlink, opened, importing
  <2>13. \A j \in Files \ {i} : BytesOf(j)' = BytesOf(j)
    BY <2>5, <2>11, <2>12, BytesSame DEF Files
  <2>14. contents' = IF Promise!NamesOf(fileOf[n]) = {n}
                       THEN [contents EXCEPT ![fileOf[n]] = <<>>] ELSE contents
    <3>1. CASE Deleted(i)
      <4>1. BytesOf(i)' = <<>>
        BY <2>11, <3>1 DEF BytesOf
      <4>2. contents' = [contents EXCEPT ![i] = <<>>]
        BY <2>3, <2>13, <4>1, OneFileChanged
      <4> QED BY <2>3, <2>10, <3>1, <4>2
    <3>2. CASE ~Deleted(i)
      <4>1. BytesOf(i)' = BytesOf(i)
        BY <2>5, <2>11, <2>12, <3>2, BytesSame
      <4>2. contents' = contents
        BY <2>13, <4>1, FilesSame
      <4> QED BY <2>3, <2>10, <3>2, <4>2
    <3> QED BY <3>1, <3>2
  <2>15. Promise!Answer(0, <<>>)
    BY <2>1, Answered DEF OldUnlink, Returns
  <2>16. importing = None
    BY NotImporting DEF tfs_unlink
  <2> QED BY <2>3, <2>9, <2>12, <2>14, <2>15, <2>16 DEF Promise!Unlink
<1> QED BY <1>1, <1>2

(***************************************************************************)
(* tfs_write and tfs_read                                                  *)
(***************************************************************************)
\* A moved cursor.
LEMMA CursorMaps ==
    ASSUME ClientInv, NEW fh \in Handles, open_file_table[fh] # NoFile,
           NEW i, i = open_file_table[fh].of_inumber,
           NEW offset, offset = open_file_table[fh].of_offset,
           NEW to \in Nat,
           open_file_table' = [open_file_table EXCEPT
               ![fh] = [of_inumber |-> i, of_offset |-> to]]
    PROVE  opened' = [opened EXCEPT ![fh].pos = to]
<1>1. opened[fh] = [file |-> i, pos |-> offset] /\ i \in Inodes
  BY OpenHandle DEF Files
<1>2. PICK rec : rec = [of_inumber |-> i, of_offset |-> to]
  OBVIOUS
<1>3. rec # NoFile /\ rec.of_inumber = i /\ rec.of_offset = to
  BY <1>1, <1>2 DEF NoFile, Inodes
<1>4. opened' = [opened EXCEPT ![fh] = [file |-> i, pos |-> to]]
  BY <1>2, <1>3, InvParts, OneHandleChanged
<1>5. [opened[fh] EXCEPT !.pos = to] = [file |-> i, pos |-> to]
  BY <1>1
<1> QED BY <1>4, <1>5

\* What a write to block b does to the bytes of every block.
Lands(b, offset, count, buffer) ==
    \A c \in Blocks, l \in 0 .. BLOCK_SIZE - 1 :
       fs_data'[c * BLOCK_SIZE + l] =
          IF c = b /\ offset <= l /\ l < offset + count THEN buffer[l - offset]
          ELSE fs_data[c * BLOCK_SIZE + l]

LEMMA WrittenBytes ==
    ASSUME NEW b \in Blocks, NEW offset \in Nat, NEW count \in Nat \ {0},
           offset + count <= BLOCK_SIZE, NEW buffer, NEW first,
           first = b * BLOCK_SIZE + offset,
           fs_data' = [a \in Addr |-> IF a \in first .. first + count - 1
                                        THEN buffer[a - first] ELSE fs_data[a]]
    PROVE  Lands(b, offset, count, buffer)
<1> SUFFICES ASSUME NEW c \in Blocks, NEW l \in 0 .. BLOCK_SIZE - 1
             PROVE  fs_data'[c * BLOCK_SIZE + l] =
                       IF c = b /\ offset <= l /\ l < offset + count
                         THEN buffer[l - offset]
                       ELSE fs_data[c * BLOCK_SIZE + l]
  BY DEF Lands
<1>1. BLOCK_SIZE \in Nat
  BY SizesAssumption
<1>2. b * BLOCK_SIZE \in Nat /\ c * BLOCK_SIZE \in Nat
  BY <1>1, BlockAddresses DEF Blocks
<1>3. PICK base, other \in Nat : base = b * BLOCK_SIZE /\ other = c * BLOCK_SIZE
  BY <1>2
<1>4. other + l \in Addr
  BY <1>3, BlockAddresses
<1>5. first = base + offset
  BY <1>3
<1>6. CASE c = b
  <2>1. other = base
    BY <1>3, <1>6
  <2>2. other + l \in first .. first + count - 1 <=> offset <= l /\ l < offset + count
    BY <1>5, <2>1
  <2>3. (other + l) - first = l - offset
    BY <1>5, <2>1
  <2> QED BY <1>3, <1>4, <1>6, <2>2, <2>3
<1>7. CASE c # b
  <2>1. ASSUME other + l \in first .. first + count - 1 PROVE FALSE
    <3>1. PICK k : k = (other + l) - base
      OBVIOUS
    <3>2. k \in 0 .. BLOCK_SIZE - 1 /\ other + l = base + k
      BY <1>1, <1>5, <2>1, <3>1
    <3> QED BY <1>3, <1>7, <3>2, BlockAddresses
  <2> QED BY <1>3, <1>4, <1>7, <2>1
<1> QED BY <1>6, <1>7

\* No other file sees the bytes of a write.
LEMMA OthersKeepBytes ==
    ASSUME ClientInv, NEW fh \in Handles, open_file_table[fh] # NoFile,
           NEW i, i = open_file_table[fh].of_inumber,
           NEW count, NEW b \in Blocks, NEW buffer, NEW r,
           Stores(fh, count, b, buffer, r),
           \A c \in Blocks, l \in 0 .. BLOCK_SIZE - 1 :
              c # b => fs_data'[c * BLOCK_SIZE + l] = fs_data[c * BLOCK_SIZE + l],
           \A j \in Inodes \ {i} : inode_table'[j] = inode_table[j]
    PROVE  \A j \in Files \ {i} : BytesOf(j)' = BytesOf(j)
<1> SUFFICES ASSUME NEW j \in Files \ {i} PROVE BytesOf(j)' = BytesOf(j)
  OBVIOUS
<1>1. /\ j \in Inodes /\ inode_table'[j] = inode_table[j]
      /\ freeinode_ts'[j] = freeinode_ts[j] /\ (IsLink(j)' <=> IsLink(j))
  BY DEF Files, Stores, IsLink
<1>2. CASE freeinode_ts[j] = "TAKEN" /\ ~IsLink(j)
  <2>1. PICK n, c : n = inode_table[j].i_size /\ c = inode_table[j].i_data_block
    OBVIOUS
  <2>2. n \in Nat /\ n <= BLOCK_SIZE /\ BLOCK_SIZE \in Nat
    BY <1>1, <1>2, <2>1, InvParts, InodeTyped, SizesAssumption DEF FilesInv, SizesBounded
  <2>3. n > 0 => c \in Blocks /\ c # b
    <3>1. i \in Inodes /\ freeinode_ts[i] = "TAKEN" /\ inode_table[i].i_size \in Nat
      BY InvParts, Cursor
    <3>2. n > 0 => c \in Blocks /\ free_blocks[c] = "TAKEN"
      BY <1>1, <1>2, <2>1, InvParts DEF TablesInv, BlocksOwned
    <3>3. IF inode_table[i].i_size = 0 THEN free_blocks[b] = "FREE"
          ELSE b = inode_table[i].i_data_block
      BY DEF Stores, WriteBlock, IsFirst, FreeBlocks
    <3>4. n > 0 /\ inode_table[i].i_size > 0 => inode_table[i].i_data_block # c
      BY <1>1, <1>2, <2>1, <3>1, InvParts DEF TablesInv, BlocksOwned
    <3> QED BY <3>1, <3>2, <3>3, <3>4
  <2>4. ASSUME NEW k \in 1 .. n
        PROVE  fs_data'[c * BLOCK_SIZE + k - 1] = fs_data[c * BLOCK_SIZE + k - 1]
    <3>1. c \in Blocks /\ c # b /\ k - 1 \in 0 .. BLOCK_SIZE - 1
      BY <2>2, <2>3
    <3>2. PICK base \in Nat : base = c * BLOCK_SIZE
      BY <3>1, BlockAddresses
    <3>3. base + k - 1 = base + (k - 1)
      BY <3>2
    <3> QED BY <3>1, <3>2, <3>3
  <2>5. BytesOf(j) = [k \in 1 .. n |-> fs_data[c * BLOCK_SIZE + k - 1]]
    BY <1>2, <2>1 DEF BytesOf
  <2>6. BytesOf(j)' = [k \in 1 .. n |-> fs_data'[c * BLOCK_SIZE + k - 1]]
    BY <1>1, <1>2, <2>1 DEF BytesOf
  <2> QED BY <2>4, <2>5, <2>6
<1>3. CASE ~(freeinode_ts[j] = "TAKEN" /\ ~IsLink(j))
  BY <1>1, <1>3 DEF BytesOf
<1> QED BY <1>2, <1>3

\* Two sequences of the same bytes.
LEMMA SameBytes ==
    ASSUME NEW S, NEW s \in Seq(S), NEW t \in Seq(S), Len(s) = Len(t),
           \A k \in 1 .. Len(s) : s[k] = t[k]
    PROVE  s = t
  BY SeqEqual

\* A write of the bytes of data through handle fh.
LEMMA PutMaps ==
    ASSUME ClientInv, ClientInv', NEW fh \in Handles, open_file_table[fh] # NoFile,
           NEW n \in Nat, NEW buffer \in Buffers(n), NEW r, Write(fh, n, buffer, r),
           ~WriteFails(fh, WriteCount(fh, n)),
           NEW data, data = [k \in 1 .. n |-> buffer[k - 1]]
    PROVE  /\ Promise!Put(fh, data)
           /\ r = Len(Promise!Stored(opened[fh].pos, data))
<1>1. PICK i, offset, count :
         /\ i = open_file_table[fh].of_inumber
         /\ offset = open_file_table[fh].of_offset
         /\ count = WriteCount(fh, n)
  OBVIOUS
<1>2. PICK S : S = Bytes \cup {Junk}
  OBVIOUS
<1>3. data \in Seq(S) /\ Len(data) = n /\ \A k \in 1 .. n : data[k] = buffer[k - 1]
  <2>1. \A k \in 1 .. n : buffer[k - 1] \in S
    BY <1>2 DEF Buffers
  <2>2. data \in [1 .. n -> S]
    BY <2>1
  <2> QED BY <2>2, FunctionIsSeq
<1>4. /\ i \in Inodes \ {ROOT_DIR_INUM} /\ freeinode_ts[i] = "TAKEN" /\ ~IsLink(i)
      /\ offset \in Nat /\ inode_table[i].i_size \in Nat
      /\ offset <= inode_table[i].i_size /\ inode_table[i].i_size <= BLOCK_SIZE
      /\ BLOCK_SIZE \in Nat
  <2>1. /\ TablesInv /\ FilesInv
        /\ i = open_file_table[fh].of_inumber
        /\ offset = open_file_table[fh].of_offset
    BY <1>1, InvParts
  <2>2. i \in Inodes \ {ROOT_DIR_INUM} /\ freeinode_ts[i] = "TAKEN"
    BY <2>1, Cursor
  <2>3. inode_table[i].i_node_type = "T_FILE"
    BY <2>1, Cursor
  <2>4. offset \in Nat /\ inode_table[i].i_size \in Nat
    BY <2>1, Cursor
  <2>5. offset <= inode_table[i].i_size /\ inode_table[i].i_size <= BLOCK_SIZE
    BY <2>1, Cursor
  <2> QED BY <2>2, <2>3, <2>4, <2>5, SizesAssumption DEF IsLink
<1>5. /\ opened[fh].file = i /\ opened[fh].pos = offset
      /\ i \in Files /\ contents[i] = BytesOf(i)
  <2>1. /\ opened[fh] = [file |-> i, pos |-> offset]
        /\ i \in Files /\ contents[i] = BytesOf(i)
    BY <1>1, OpenHandle
  <2> QED BY <2>1
<1>6. /\ count = IF n + offset > BLOCK_SIZE THEN BLOCK_SIZE - offset ELSE n
      /\ count \in 0 .. n /\ offset + count <= BLOCK_SIZE
  BY <1>1, InvParts, WriteFits
<1>7. PICK kept : kept = Promise!Stored(offset, data)
  OBVIOUS
<1>8. kept \in Seq(S) /\ Len(kept) = count /\ \A k \in 1 .. count : kept[k] = buffer[k - 1]
  <2>1. offset \in 0 .. BLOCK_SIZE
    BY <1>4
  <2>2. kept \in Seq(S) /\ FrontOf(data, offset, kept)
    BY <1>3, <1>7, <2>1, StoredAt
  <2>3. Len(kept) = count
    BY <1>3, <1>4, <1>6, <2>2 DEF FrontOf
  <2>4. \A k \in 1 .. count : k \in 1 .. n
    BY <1>6
  <2> QED BY <1>3, <2>2, <2>3, <2>4 DEF FrontOf
<1>9. PICK old, new : old = BytesOf(i) /\ new = Promise!Overwritten(old, offset, kept)
  OBVIOUS
<1>10. /\ old \in Seq(S) /\ Len(old) = inode_table[i].i_size
       /\ \A k \in 1 .. inode_table[i].i_size :
             old[k] = fs_data[inode_table[i].i_data_block * BLOCK_SIZE + k - 1]
  BY <1>2, <1>4, <1>9, BytesView DEF FilesHaveBytes, FileHasBytes
<1>11. /\ new \in Seq(S)
       /\ Len(new) = IF offset + count > inode_table[i].i_size THEN offset + count
                     ELSE inode_table[i].i_size
       /\ \A k \in 1 .. Len(new) :
             new[k] = IF offset < k /\ k <= offset + count THEN kept[k - offset]
                      ELSE old[k]
  <2>1. offset \in 0 .. Len(old)
    BY <1>4, <1>10
  <2> QED BY <1>8, <1>9, <1>10, <2>1, OverwrittenAt
<1>12. SUFFICES /\ contents' = [contents EXCEPT ![i] = new]
                /\ opened' = [opened EXCEPT ![fh].pos = offset + count]
                /\ r = count
  BY <1>5, <1>7, <1>8, <1>9 DEF Promise!Put
<1>13. CASE count = 0 /\ r = 0 /\ UNCHANGED <<status, tables, fs_data>>
  <2>1. new = old
    <3>1. Len(new) = Len(old)
      BY <1>4, <1>10, <1>11, <1>13
    <3>2. \A k \in 1 .. Len(new) : new[k] = old[k]
      BY <1>4, <1>11, <1>13
    <3> QED BY <1>10, <1>11, <3>1, <3>2, SameBytes
  <2>2. contents' = contents /\ opened' = opened
    BY <1>13, AllFilesSame DEF tables, opened
  <2>3. contents = [contents EXCEPT ![i] = new]
    BY <1>5, <1>9, <2>1 DEF contents
  <2>4. opened[fh] = [file |-> i, pos |-> offset + count]
    BY <1>1, <1>4, <1>13, OpenHandle
  <2>5. opened = [opened EXCEPT ![fh].pos = offset + count]
    BY <2>4 DEF opened
  <2> QED BY <1>13, <2>2, <2>3, <2>5
<1>14. ASSUME NEW b \in Blocks, Stores(fh, count, b, buffer, r)
       PROVE  /\ contents' = [contents EXCEPT ![i] = new]
              /\ opened' = [opened EXCEPT ![fh].pos = offset + count]
              /\ r = count
  <2>1. count \in Nat \ {0} /\ WriteData(fh, b, count, buffer) /\ r = count
    BY <1>6, <1>14 DEF Stores
  <2>2. /\ inode_table'[i].i_node_type = "T_FILE"
        /\ inode_table'[i].i_data_block = b
        /\ inode_table'[i].i_size = IF offset + count > inode_table[i].i_size
                                      THEN offset + count ELSE inode_table[i].i_size
        /\ \A j \in Inodes \ {i} : inode_table'[j] = inode_table[j]
        /\ open_file_table' = [open_file_table EXCEPT
               ![fh] = [of_inumber |-> i, of_offset |-> offset + count]]
    BY <1>1, <2>1, InvParts, Written
  <2>3. Lands(b, offset, count, buffer)
    <3>1. PICK first : first = b * BLOCK_SIZE + offset
      OBVIOUS
    <3>2. fs_data' = [a \in Addr |-> IF a \in first .. first + count - 1
                                       THEN buffer[a - first] ELSE fs_data[a]]
      BY <1>1, <2>1, <3>1 DEF WriteData
    <3>3. offset \in Nat /\ count \in Nat \ {0} /\ offset + count <= BLOCK_SIZE
      BY <1>4, <1>6, <2>1
    <3> QED BY <3>1, <3>2, <3>3, WrittenBytes
  <2>4. \A j \in Files \ {i} : BytesOf(j)' = BytesOf(j)
    <3>1. \A c \in Blocks, l \in 0 .. BLOCK_SIZE - 1 :
             c # b => fs_data'[c * BLOCK_SIZE + l] = fs_data[c * BLOCK_SIZE + l]
      BY <2>3 DEF Lands
    <3> QED BY <1>1, <1>14, <2>2, <3>1, OthersKeepBytes
  <2>5. PICK size : size = inode_table'[i].i_size
    OBVIOUS
  <2>6. /\ BytesOf(i)' \in Seq(S) /\ Len(BytesOf(i)') = size
        /\ \A k \in 1 .. size : BytesOf(i)'[k] = fs_data'[b * BLOCK_SIZE + k - 1]
    <3>1. FilesHaveBytes'
      BY BytesView, PTL
    <3>2. freeinode_ts'[i] = "TAKEN" /\ ~IsLink(i)'
      BY <1>4, <1>14, <2>2 DEF Stores, IsLink
    <3>3. FileHasBytes(i)'
      BY <1>4, <3>1, <3>2 DEF FilesHaveBytes
    <3> QED BY <1>2, <2>2, <2>5, <3>3 DEF FileHasBytes
  <2>7. size = Len(new) /\ size \in Nat /\ size <= BLOCK_SIZE
    BY <1>4, <1>6, <1>11, <2>2, <2>5
  <2>8. ASSUME NEW k \in 1 .. size PROVE BytesOf(i)'[k] = new[k]
    <3>1. k - 1 \in 0 .. BLOCK_SIZE - 1
      BY <1>4, <2>7
    <3>2. PICK base \in Nat : base = b * BLOCK_SIZE
      BY <3>1, BlockAddresses
    <3>3. base + k - 1 = base + (k - 1)
      BY <3>2
    <3>4. BytesOf(i)'[k] = IF offset <= k - 1 /\ k - 1 < offset + count
                             THEN buffer[k - 1 - offset] ELSE fs_data[base + (k - 1)]
      BY <2>3, <2>6, <3>1, <3>2, <3>3 DEF Lands
    <3>5. CASE offset < k /\ k <= offset + count
      <4>1. k - offset \in 1 .. count /\ k - offset - 1 = k - 1 - offset
        BY <1>4, <2>1, <3>5
      <4>2. kept[k - offset] = buffer[k - 1 - offset]
        BY <1>8, <4>1
      <4>3. new[k] = kept[k - offset]
        BY <1>11, <2>7, <3>5
      <4>4. offset <= k - 1 /\ k - 1 < offset + count
        BY <1>4, <2>1, <3>5
      <4> QED BY <3>4, <4>2, <4>3, <4>4
    <3>6. CASE ~(offset < k /\ k <= offset + count)
      <4>1. ~(offset <= k - 1 /\ k - 1 < offset + count)
        BY <1>4, <2>1, <3>6
      <4>2. k \in 1 .. inode_table[i].i_size /\ inode_table[i].i_size # 0
        BY <1>4, <2>1, <2>2, <2>5, <2>7, <3>6
      <4>3. inode_table[i].i_data_block = b
        BY <1>1, <1>14, <4>2 DEF Stores, WriteBlock
      <4>4. old[k] = fs_data[base + (k - 1)]
        BY <1>10, <3>2, <3>3, <4>2, <4>3
      <4>5. new[k] = old[k]
        BY <1>11, <2>7, <3>6
      <4> QED BY <3>4, <4>1, <4>4, <4>5
    <3> QED BY <3>5, <3>6
  <2>9. BytesOf(i)' = new
    <3>1. PICK now : now = BytesOf(i)'
      OBVIOUS
    <3>2. now \in Seq(S) /\ Len(now) = Len(new) /\ \A k \in 1 .. Len(now) : now[k] = new[k]
      BY <2>6, <2>7, <2>8, <3>1
    <3>3. now = new
      BY <1>11, <3>2, SameBytes
    <3> QED BY <3>1, <3>3
  <2>10. contents' = [contents EXCEPT ![i] = new]
    BY <1>5, <2>4, <2>9, OneFileChanged
  <2>11. opened' = [opened EXCEPT ![fh].pos = offset + count]
    <3>1. offset + count \in Nat
      BY <1>4, <2>1
    <3> QED BY <1>1, <2>2, <3>1, CursorMaps
  <2> QED BY <2>1, <2>10, <2>11
<1> QED BY <1>1, <1>13, <1>14, WriteEnds

\* The bytes of a buffer, as the data of a call.
LEMMA BufferData ==
    ASSUME NEW n \in 0 .. MaxTransfer, NEW buffer \in Buffers(n)
    PROVE  [k \in 1 .. n |-> buffer[k - 1]] \in Promise!Data
<1>1. \A k \in 1 .. n : buffer[k - 1] \in Bytes
  BY DEF Buffers
<1>2. [k \in 1 .. n |-> buffer[k - 1]] \in [1 .. n -> Bytes]
  BY <1>1
<1> QED BY <1>2 DEF Promise!Data

LEMMA Transfers ==
    0 .. MAX_LEN \subseteq 0 .. MaxTransfer /\ 1 .. MAX_SOURCE \subseteq 0 .. MaxTransfer
  BY SizesAssumption DEF MaxTransfer

LEMMA WriteSame ==
    ASSUME ClientInv, ClientInv', NEW fh \in Handles, open_file_table[fh] # NoFile,
           NEW n \in Nat, NEW buffer, NEW r, Write(fh, n, buffer, r)
    PROVE  fileOf' = fileOf /\ linkTo' = linkTo
<1>1. PICK count : count = WriteCount(fh, n)
  OBVIOUS
<1>2. PICK i : i = open_file_table[fh].of_inumber
  OBVIOUS
<1>3. CASE UNCHANGED <<status, tables, fs_data>>
  BY <1>3, TablesSame DEF tables
<1>4. ASSUME NEW b \in Blocks, Stores(fh, count, b, buffer, r)
      PROVE  fileOf' = fileOf /\ linkTo' = linkTo
  <2>1. i \in Inodes /\ inode_table[i] \in InodeRecord
    BY <1>2, InvParts, Cursor, InodeTyped
  <2>2. PICK size : inode_table' = [inode_table EXCEPT
                        ![i].i_data_block = b, ![i].i_size = size]
    BY <1>2, <1>4 DEF Stores, WriteData
  <2>3. \A j \in Inodes : /\ inode_table'[j].i_node_type = inode_table[j].i_node_type
                          /\ inode_table'[j].i_target = inode_table[j].i_target
    <3> SUFFICES ASSUME NEW j \in Inodes
                 PROVE  /\ inode_table'[j].i_node_type = inode_table[j].i_node_type
                        /\ inode_table'[j].i_target = inode_table[j].i_target
      OBVIOUS
    <3>1. CASE j = i
      BY <2>1, <2>2, <3>1, InvParts DEF InodeRecord, TablesType
    <3>2. CASE j # i
      BY <2>2, <3>2, InvParts DEF TablesType
    <3> QED BY <3>1, <3>2
  <2> QED BY <1>4, <2>3, NamesSame DEF Stores
<1> QED BY <1>1, <1>3, <1>4, WriteEnds

LEMMA tfs_writeMaps ==
    ASSUME ClientInv, ClientInv', NEW fh \in Handles, NEW n \in 0 .. MAX_LEN,
           NEW buffer \in Buffers(n), tfs_write(fh, n, buffer)
    PROVE  \/ \E data \in Promise!Data : Promise!Write(fh, data)
           \/ importing = None /\ Promise!Refuse
<1>1. CASE Fails
  BY <1>1, FailsMaps DEF tfs_write
<1>2. CASE ~Fails
  <2>1. PICK r : /\ open_file_table[fh] # NoFile
                 /\ Write(fh, n, buffer, r) /\ Returns(r)
                 /\ UNCHANGED copying /\ Idle
    BY <1>2 DEF tfs_write
  <2>2. n \in Nat
    BY SizesAssumption
  <2>3. importing = None /\ importing' = importing
    BY <2>1, NotImporting DEF importing
  <2>4. fileOf' = fileOf /\ linkTo' = linkTo
    BY <2>1, <2>2, WriteSame
  <2>5. CASE WriteFails(fh, WriteCount(fh, n))
    <3>1. r = -1 /\ UNCHANGED <<status, tables, fs_data>>
      BY <2>1, <2>5 DEF Write, WriteFails, WriteBlock, IsFirst
    <3>2. contents' = contents /\ opened' = opened
      BY <3>1, AllFilesSame DEF tables, opened
    <3> QED BY <2>1, <2>3, <2>4, <3>1, <3>2, Answered DEF Promise!Refuse
  <2>6. CASE ~WriteFails(fh, WriteCount(fh, n))
    <3>1. PICK data : data = [k \in 1 .. n |-> buffer[k - 1]]
      OBVIOUS
    <3>2. data \in Promise!Data
      BY <3>1, BufferData, Transfers
    <3>3. /\ Promise!Put(fh, data)
          /\ r = Len(Promise!Stored(opened[fh].pos, data))
      BY <2>1, <2>2, <2>6, <3>1, PutMaps
    <3>4. opened[fh] # None
      BY <2>1, OpenHandle
    <3>5. Promise!Answer(r, <<>>)
      BY <2>1, Answered
    <3>6. Promise!Write(fh, data)
      BY <2>3, <2>4, <3>3, <3>4, <3>5 DEF Promise!Write
    <3> QED BY <3>2, <3>6
  <2> QED BY <2>5, <2>6
<1> QED BY <1>1, <1>2

LEMMA tfs_readMaps ==
    ASSUME ClientInv, ClientInv', NEW fh \in Handles, NEW len \in 0 .. MAX_LEN,
           tfs_read(fh, len)
    PROVE  Promise!Read(fh, len) \/ (importing = None /\ Promise!Refuse)
<1>1. CASE Fails
  BY <1>1, FailsMaps DEF tfs_read
<1>2. CASE ~Fails
  <2>1. open_file_table[fh] # NoFile /\ Idle /\ len \in Nat
    BY <1>2, SizesAssumption DEF tfs_read
  <2>2. PICK i, offset, count : /\ i = open_file_table[fh].of_inumber
                                /\ offset = open_file_table[fh].of_offset
                                /\ count = ReadCount(fh, len)
    OBVIOUS
  <2>3. Reads(fh, i, offset, count)
    BY <2>1, <2>2, ReadEnds
  <2>4. PICK size, b : size = inode_table[i].i_size /\ b = inode_table[i].i_data_block
    OBVIOUS
  <2>5. /\ count = IF size - offset > len THEN len ELSE size - offset
        /\ count \in 0 .. len /\ offset + count <= size
    BY <2>1, <2>2, <2>4, InvParts, ReadFits
  <2>6. /\ i \in Inodes \ {ROOT_DIR_INUM} /\ freeinode_ts[i] = "TAKEN" /\ ~IsLink(i)
        /\ offset \in Nat /\ size \in Nat /\ offset <= size /\ size <= BLOCK_SIZE
    BY <2>1, <2>2, <2>4, InvParts, Cursor DEF IsLink
  <2>7. /\ opened[fh] = [file |-> i, pos |-> offset] /\ opened[fh] # None
        /\ i \in Files /\ contents[i] = BytesOf(i)
    BY <2>1, <2>2, OpenHandle
  <2>8. PICK S, all : S = Bytes \cup {Junk} /\ all = BytesOf(i)
    OBVIOUS
  <2>9. /\ all \in Seq(S) /\ Len(all) = size
        /\ \A k \in 1 .. size : all[k] = fs_data[b * BLOCK_SIZE + k - 1]
    BY <2>4, <2>6, <2>8, BytesView DEF FilesHaveBytes, FileHasBytes
  <2>10. PICK last, bytes :
            /\ last = IF offset + len > Len(all) THEN Len(all) ELSE offset + len
            /\ bytes = SubSeq(all, offset + 1, last)
    OBVIOUS
  <2>11. last = offset + count /\ last \in Nat /\ last <= size
    BY <2>1, <2>5, <2>6, <2>9, <2>10
  <2>12. /\ bytes \in Seq(S) /\ Len(bytes) = count
         /\ \A k \in 1 .. count : bytes[k] = all[offset + k]
    <3>1. offset + 1 \in Int /\ last \in Int
      BY <2>6, <2>11
    <3>2. \A k \in offset + 1 .. last : all[k] \in S
      BY <2>6, <2>9, <2>11, ElementOfSeq
    <3>3. /\ bytes \in Seq(S)
          /\ Len(bytes) = IF offset + 1 <= last THEN last - (offset + 1) + 1 ELSE 0
          /\ \A k \in 1 .. last - (offset + 1) + 1 : bytes[k] = all[offset + 1 + k - 1]
      BY <2>10, <3>1, <3>2, SubSeqProperties
    <3>4. Len(bytes) = count
      BY <2>5, <2>6, <2>11, <3>3
    <3>5. ASSUME NEW k \in 1 .. count PROVE bytes[k] = all[offset + k]
      <4>1. k \in 1 .. last - (offset + 1) + 1 /\ offset + 1 + k - 1 = offset + k
        BY <2>5, <2>6, <2>11
      <4> QED BY <3>3, <4>1
    <3> QED BY <3>3, <3>4, <3>5
  <2>13. delivered' = bytes
    <3>1. buf' = [k \in 0 .. count - 1 |-> fs_data[b * BLOCK_SIZE + offset + k]]
      BY <2>3, <2>4 DEF Reads
    <3>2. Cardinality(DOMAIN buf') = count
      <4>1. DOMAIN buf' = 0 .. count - 1 /\ 0 \in Int /\ count - 1 \in Int
        BY <2>5, <3>1
      <4>2. Cardinality(0 .. count - 1) = IF 0 > count - 1 THEN 0 ELSE count - 1 - 0 + 1
        BY <4>1, FS_Interval
      <4> QED BY <2>5, <4>1, <4>2
    <3>3. delivered' = [k \in 1 .. count |-> buf'[k - 1]]
      BY <3>2 DEF delivered
    <3>4. ASSUME NEW k \in 1 .. count PROVE buf'[k - 1] = bytes[k]
      <4>1. k - 1 \in 0 .. count - 1 /\ offset + k \in 1 .. size /\ offset + k - 1 \in 0 .. BLOCK_SIZE - 1
        BY <2>5, <2>6, SizesAssumption
      <4>2. b \in Blocks
        BY <2>4, <2>6, <4>1, InvParts DEF TablesInv, BlocksOwned
      <4>3. PICK base \in Nat : base = b * BLOCK_SIZE
        BY <4>1, <4>2, BlockAddresses
      <4>4. base + offset + (k - 1) = base + (offset + k) - 1
        BY <2>6, <4>3
      <4>5. buf'[k - 1] = fs_data[base + offset + (k - 1)]
        BY <3>1, <4>1, <4>3
      <4>6. all[offset + k] = fs_data[base + (offset + k) - 1]
        BY <2>9, <4>1, <4>3
      <4> QED BY <2>12, <4>4, <4>5, <4>6
    <3>5. bytes = [k \in 1 .. count |-> bytes[k]]
      BY <2>12, LenProperties
    <3> QED BY <3>3, <3>4, <3>5
  <2>14. opened' = [opened EXCEPT ![fh].pos = offset + Len(bytes)]
    <3>1. open_file_table' = [open_file_table EXCEPT
              ![fh] = [of_inumber |-> i, of_offset |-> offset + count]]
      BY <2>1, <2>2, <2>3, <2>4, <2>5, InvParts, CursorMoved DEF Reads
    <3>2. offset + count \in Nat
      BY <2>5, <2>6
    <3>3. opened' = [opened EXCEPT ![fh].pos = offset + count]
      BY <2>1, <2>2, <3>1, <3>2, CursorMaps
    <3> QED BY <2>12, <3>3
  <2>15. Promise!Answer(Len(bytes), bytes)
    BY <2>3, <2>12, <2>13 DEF Reads, Promise!Answer
  <2>16. UNCHANGED <<fileOf, linkTo, contents, importing>>
    BY <2>3, TablesSame, AllFilesSame DEF Reads, importing
  <2>17. importing = None
    BY <2>1, NotImporting
  <2>18. opened[fh].file = i /\ opened[fh].pos = offset
    BY <2>7
  <2>19. bytes = SubSeq(contents[opened[fh].file], opened[fh].pos + 1,
                    IF opened[fh].pos + len > Len(contents[opened[fh].file])
                      THEN Len(contents[opened[fh].file]) ELSE opened[fh].pos + len)
    BY <2>7, <2>8, <2>10, <2>18
  <2>20. Promise!Read(fh, len)
    BY <2>7, <2>14, <2>15, <2>16, <2>17, <2>18, <2>19 DEF Promise!Read
  <2> QED BY <2>20
<1> QED BY <1>1, <1>2

(***************************************************************************)
(* tfs_copy_from_external_fs                                               *)
(***************************************************************************)
LEMMA Importing ==
    ASSUME ClientInv, copying # NoCopy
    PROVE  /\ copying.fhandle \in Handles
           /\ open_file_table[copying.fhandle] # NoFile
           /\ importing = [handle |-> copying.fhandle, left |-> copying.left]
           /\ importing # None
           /\ copying.left \in Nat
<1>1. copying \in [fhandle : Handles, left : Nat]
  BY InvParts
<1>2. importing = [handle |-> copying.fhandle, left |-> copying.left]
  BY DEF importing
<1>3. importing \in [handle : Handles, left : Nat]
  BY <1>1, <1>2
<1> QED BY <1>1, <1>2, <1>3, InvParts, NoneAssumption

\* The copy's handle is closed.
LEMMA ImportEnds ==
    ASSUME ClientInv, copying # NoCopy,
           remove_from_open_file_table(copying.fhandle),
           copying' = NoCopy, NEW r \in {0, -1}, Returns(r),
           r = 0 => copying.left = 0,
           UNCHANGED <<freeinode_ts, inode_table, fs_data, dir>>
    PROVE  Promise!ImportEnd
<1>1. PICK fh : fh = copying.fhandle
  OBVIOUS
<1>2. /\ fh \in Handles /\ importing # None
      /\ importing.handle = fh /\ importing.left = copying.left
  BY <1>1, Importing
<1>3. opened' = [opened EXCEPT ![fh] = None]
  BY <1>1, <1>2, InvParts, OneHandleChanged DEF remove_from_open_file_table
<1>4. importing' = None
  BY DEF importing
<1>5. UNCHANGED <<fileOf, linkTo, contents>>
  BY TablesSame, AllFilesSame
<1>6. Promise!Answer(r, <<>>)
  BY Answered
<1> QED BY <1>2, <1>3, <1>4, <1>5, <1>6 DEF Promise!ImportEnd

LEMMA CopyEndMaps ==
    ASSUME ClientInv, CopyEnd
    PROVE  Promise!ImportEnd
  BY ImportEnds DEF CopyEnd, CopyReturns

LEMMA CopyChunkMaps ==
    ASSUME ClientInv, ClientInv', NEW chunk \in 1 .. MAX_SOURCE,
           NEW buffer \in Buffers(chunk), CopyChunk(chunk, buffer)
    PROVE  \/ \E data \in Promise!Data : Promise!ImportChunk(data)
           \/ Promise!ImportEnd
<1>1. copying # NoCopy
  BY DEF CopyChunk
<1>2. CASE CopyGivesUp(chunk)
  BY <1>1, <1>2, ImportEnds DEF CopyGivesUp
<1>3. CASE CopyStores(chunk, buffer)
  <2>1. PICK fh, r : /\ fh = copying.fhandle
                     /\ Write(fh, chunk, buffer, r)
                     /\ ~WriteFails(fh, WriteCount(fh, chunk))
    BY <1>3 DEF CopyStores
  <2>2. /\ fh \in Handles /\ open_file_table[fh] # NoFile
        /\ importing = [handle |-> fh, left |-> copying.left] /\ importing # None
        /\ copying.left \in Nat
    BY <1>1, <2>1, Importing
  <2>3. chunk \in Nat
    BY SizesAssumption
  <2>4. PICK data : data = [k \in 1 .. chunk |-> buffer[k - 1]]
    OBVIOUS
  <2>5. data \in Promise!Data
    BY <2>4, BufferData, Transfers
  <2>6. Promise!Put(fh, data)
    BY <2>1, <2>2, <2>3, <2>4, PutMaps
  <2>7. fileOf' = fileOf /\ linkTo' = linkTo
    BY <2>1, <2>2, <2>3, WriteSame
  <2>8. /\ chunk <= copying.left /\ Len(data) = chunk
        /\ importing' = [importing EXCEPT !.left = @ - Len(data)]
    <3>1. copying \in [fhandle : Handles, left : Nat]
      BY <1>1, InvParts
    <3>2. copying' = [copying EXCEPT !.left = copying.left - chunk]
      BY <1>3 DEF CopyStores
    <3>3. /\ copying' # NoCopy /\ copying'.fhandle = fh
          /\ copying'.left = copying.left - chunk
      BY <2>1, <2>2, <3>1, <3>2 DEF NoCopy, Handles
    <3>4. Len(data) = chunk
      BY <2>3, <2>4
    <3>5. importing' = [handle |-> fh, left |-> copying.left - chunk]
      BY <3>3 DEF importing
    <3> QED BY <2>2, <3>4, <3>5 DEF CopyChunk
  <2>9. ret' = ret /\ delivered' = delivered
    BY <1>3 DEF CopyStores, delivered
  <2>10. Promise!ImportChunk(data)
    BY <2>2, <2>6, <2>7, <2>8, <2>9 DEF Promise!ImportChunk
  <2> QED BY <2>5, <2>10
<1> QED BY <1>2, <1>3 DEF CopyChunk

(***************************************************************************)
(* Theorem                                                                 *)
(***************************************************************************)
LEMMA StepMaps ==
    ASSUME ClientInv, ClientInv', [ClientNext /\ ~CopyReadFails]_vars
    PROVE  [Promise!Next]_(Promise!avars)
<1>1. CASE UNCHANGED vars
  <2>1. UNCHANGED <<fileOf, linkTo, contents>>
    BY <1>1, TablesSame, AllFilesSame DEF vars
  <2>2. UNCHANGED <<opened, importing, ret, delivered>>
    BY <1>1 DEF vars, opened, importing, delivered
  <2> QED BY <2>1, <2>2 DEF Promise!avars
<1>2. CASE tfs_init
  BY <1>2, tfs_initMaps DEF Promise!Next
<1>3. CASE tfs_init_again
  BY <1>3, FailsMaps DEF tfs_init_again, Promise!Next
<1>4. CASE tfs_destroy
  BY <1>4, tfs_destroyMaps DEF Promise!Next
<1>5. CASE \E n \in Names, mode \in Modes : CanOpen(n, mode) /\ tfs_open(n, mode)
  <2>1. Modes = Promise!Modes
    BY DEF Modes, Promise!Modes
  <2> QED BY <1>5, <2>1, tfs_openMaps DEF Promise!Next
<1>6. CASE \E fh \in Handles : tfs_close(fh)
  BY <1>6, tfs_closeMaps DEF Promise!Next
<1>7. CASE \E target, name \in Names : CanLink(target, name) /\ tfs_link(target, name)
  BY <1>7, tfs_linkMaps DEF Promise!Next
<1>8. CASE \E target, name \in Names :
              CanLink(target, name) /\ tfs_sym_link(target, name)
  BY <1>8, tfs_sym_linkMaps DEF Promise!Next
<1>9. CASE \E n \in Names : CanUnlink(n) /\ tfs_unlink(n)
  BY <1>9, tfs_unlinkMaps DEF Promise!Next
<1>10. CASE \E fh \in Handles, to_write \in 0 .. MAX_LEN :
               \E buffer \in Buffers(to_write) : tfs_write(fh, to_write, buffer)
  BY <1>10, tfs_writeMaps DEF Promise!Next
<1>11. CASE \E fh \in Handles, len \in 0 .. MAX_LEN : tfs_read(fh, len)
  BY <1>11, tfs_readMaps, Transfers DEF Promise!Next
<1>12. CASE \E n \in Names, length \in -1 .. MAX_SOURCE :
               CanOpen(n, CopyMode) /\ CopyOpen(n, length)
  <2>1. PICK n \in Names, length \in -1 .. MAX_SOURCE :
           CanOpen(n, CopyMode) /\ CopyOpen(n, length)
    BY <1>12
  <2>2. length \in Int /\ (length \in Nat => length \in 0 .. MaxTransfer)
    BY SizesAssumption DEF MaxTransfer
  <2> QED BY <2>1, <2>2, CopyOpenMaps DEF Promise!Next
<1>13. CASE \E chunk \in 1 .. MAX_SOURCE : \E buffer \in Buffers(chunk) :
               CopyChunk(chunk, buffer)
  BY <1>13, CopyChunkMaps DEF Promise!Next
<1>14. CASE CopyEnd
  BY <1>14, CopyEndMaps DEF Promise!Next
<1> QED BY <1>1, <1>2, <1>3, <1>4, <1>5, <1>6, <1>7, <1>8, <1>9, <1>10, <1>11,
           <1>12, <1>13, <1>14 DEF ClientNext

\* For a careful caller whose external files can be read the calls of operations.h
\* do what AbstractFS promises: names lead to byte sequences of at most a block,
\* handles are cursors, and an import that answers 0 has copied its whole source.
THEOREM KeepsPromiseCorrect == ReadableSpec => KeepsPromise
<1>1. Init => Promise!Init
  <2> SUFFICES ASSUME Init PROVE Promise!Init
    OBVIOUS
  <2>1. ClientInv
    BY InitProof, EmptyFiles DEF Init, NoTables, ClientInv, NeverStops
  <2> QED BY <2>1, InitMaps
<1>2. Init => ClientInv
  BY InitProof, EmptyFiles DEF Init, NoTables, ClientInv, NeverStops
<1>3. ClientInv /\ [ClientNext /\ ~CopyReadFails]_vars => ClientInv'
  BY ClientNextProof
<1>4. ClientInv /\ ClientInv' /\ [ClientNext /\ ~CopyReadFails]_vars
         => [Promise!Next]_(Promise!avars)
  BY StepMaps
<1> QED BY <1>1, <1>2, <1>3, <1>4, PTL DEF ReadableSpec, KeepsPromise, Promise!Spec
=============================================================================
