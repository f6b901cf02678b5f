----------------------- MODULE TecnicoFSLifecycleProofs -----------------------
(***************************************************************************)
(* Proofs about tfs_init and tfs_destroy, for every set of parameters a    *)
(* caller may choose and every outcome of the six mallocs.                 *)
(***************************************************************************)
EXTENDS TecnicoFSLifecycle, FiniteSetTheorems, TLAPS

(***************************************************************************)
(* The inductive invariant                                                 *)
(***************************************************************************)
\* A destroyed library has no tables; one that is ready has its inode table, so
\* that no tfs_init replaces it; what is freed was allocated: the tables are part
\* of the heap; and until a tfs_init is refused, fs_params says how many entries
\* the open file table of a ready library has.
IInv ==
    /\ table \in [Tables -> Nat \cup {NULL}]
    /\ heap \in Nat
    /\ answer = "none" => \A t \in Tables : table[t] = NULL
    /\ answer = "ready" => table["inode_table"] # NULL
    /\ answer \in {"none", "ready", "failed"}
    /\ Cardinality(Allocated) <= heap
    /\ library \in {"Projeto1", "Projeto2"}
    /\ answer = "ready" /\ ~refused =>
          /\ table["open_file_table"] # NULL
          /\ table["open_file_table"] = fs_params.max_open_files_count
    /\ DestroyStaysInside

\* state_init asks for a number of entries, never for NULL.
LEMMA EntriesType ==
    ASSUME NEW p \in Params
    PROVE  /\ Entries(p) \in [Tables -> Nat]
           /\ NULL \notin Nat
<1>1. /\ p.max_inode_count \in Nat /\ p.max_block_count \in Nat
      /\ p.max_open_files_count \in Nat /\ p.block_size \in Nat
  BY LifecycleAssumption DEF Params
<1>2. p.max_block_count * p.block_size \in Nat
  BY <1>1
<1> QED BY <1>1, <1>2, LifecycleAssumption DEF Entries, Tables

\* There are six tables.
LEMMA TablesFinite == IsFiniteSet(Tables)
<1>1. IsFiniteSet({})
  BY FS_EmptySet
<1>2. Tables = {} \cup {"inode_table"} \cup {"freeinode_ts"} \cup {"fs_data"}
                  \cup {"free_blocks"} \cup {"open_file_table"}
                  \cup {"free_open_file_entries"}
  BY DEF Tables
<1> QED BY <1>1, <1>2, FS_AddElement

\* What a set of them adds to heap is a number.
LEMMA TablesCount == \A got \in SUBSET Tables : Cardinality(got) \in Nat
BY TablesFinite, FS_Subset, FS_CardinalityType

(***************************************************************************)
(* Steps                                                                   *)
(***************************************************************************)
\* A tfs_init that is not refused: its tables are those it got memory for.
LEMMA tfs_initMakes ==
    ASSUME NEW p \in Params, NEW got \in SUBSET Tables,
           tfs_init(p, got), table["inode_table"] = NULL
    PROVE  /\ table' \in [Tables -> Nat \cup {NULL}]
           /\ Allocated' = got
           /\ heap' = heap + Cardinality(got)
           /\ answer' = "ready" =>
                 /\ table'["inode_table"] # NULL
                 /\ table'["open_file_table"] # NULL
                 /\ table'["open_file_table"] = fs_params'.max_open_files_count
           /\ answer' \in {"ready", "failed"}
<1>1. table' = [t \in Tables |-> IF t \in got THEN Entries(p)[t] ELSE NULL]
  BY DEF tfs_init
<1>2. \A t \in Tables : Entries(p)[t] \in Nat /\ Entries(p)[t] # NULL
  BY EntriesType
<1>3. Allocated' = got
  BY <1>1, <1>2 DEF Allocated
<1>4. answer' = "ready" => got = Tables
  BY DEF Ready, tfs_init
<1>5. /\ "inode_table" \in Tables
      /\ "open_file_table" \in Tables
      /\ Entries(p)["open_file_table"] = fs_params'.max_open_files_count
  BY DEF Tables, Entries, tfs_init
<1>6. answer' = "ready" => /\ table'["inode_table"] # NULL
                           /\ table'["open_file_table"] # NULL
                           /\ table'["open_file_table"] = fs_params'.max_open_files_count
  BY <1>1, <1>2, <1>4, <1>5
<1> QED BY <1>1, <1>2, <1>3, <1>6 DEF tfs_init

\* A library without tables has none allocated.
LEMMA NoTables ==
    ASSUME \A t \in Tables : table[t] = NULL
    PROVE  Cardinality(Allocated) = 0
<1>1. Allocated = {}
  BY DEF Allocated
<1> QED BY <1>1, FS_EmptySet

LEMMA tfs_initStep ==
    ASSUME IInv, NEW p \in Params, NEW got \in SUBSET Tables, tfs_init(p, got)
    PROVE  IInv'
<1>1. CASE table["inode_table"] # NULL
  BY <1>1 DEF IInv, Allocated, tfs_init, DestroyStaysInside
<1>2. CASE table["inode_table"] = NULL
  <2>1. Cardinality(got) \in Nat
    BY TablesCount
  <2>2. UNCHANGED library /\ status' = "defined" /\ heap' \in Nat
    BY <1>2, <2>1 DEF tfs_init, IInv
  <2>3. DestroyStaysInside'
    BY <2>2 DEF DestroyStaysInside
  <2> QED BY <1>2, <2>1, <2>2, <2>3, tfs_initMakes DEF IInv
<1> QED BY <1>1, <1>2

LEMMA tfs_destroyStep ==
    ASSUME IInv, tfs_destroy
    PROVE  /\ IInv'
           /\ Lost' = Lost
<1>1. table' = [t \in Tables |-> NULL]
  BY DEF tfs_destroy
<1>2. Cardinality(Allocated') = 0
  <2>1. Allocated' = {}
    BY <1>1 DEF Allocated
  <2> QED BY <2>1, FS_EmptySet
<1>3. Cardinality(Allocated) \in Nat
  BY TablesCount DEF Allocated
<1>4. heap \in Nat /\ Cardinality(Allocated) <= heap
  BY DEF IInv
<1>5. heap' = heap - Cardinality(Allocated) /\ heap' \in Nat
  BY <1>3, <1>4 DEF tfs_destroy
<1>6. answer' = "none" /\ UNCHANGED library /\ status' = "defined"
  BY DEF tfs_destroy
<1> QED BY <1>1, <1>2, <1>3, <1>4, <1>5, <1>6 DEF IInv, Lost, DestroyStaysInside

\* Projeto1's tfs_destroy goes astray only where DestroyStaysInside says.
LEMMA tfs_destroy_astrayStep ==
    ASSUME IInv, tfs_destroy_astray
    PROVE  IInv'
<1>1. /\ UNCHANGED <<library, fs_params, table, heap, answer, refused>>
      /\ ~LocksInside
  BY DEF tfs_destroy_astray
<1>2. library = "Projeto1"
  BY <1>1 DEF IInv, LocksInside
<1>3. answer # "ready" \/ refused
  <2> SUFFICES ASSUME answer = "ready", ~refused PROVE FALSE
    OBVIOUS
  <2>1. /\ table["open_file_table"] \in Nat
        /\ table["open_file_table"] = fs_params.max_open_files_count
    BY DEF IInv, Tables
  <2> QED BY <1>1, <2>1 DEF IInv, LocksInside
<1> QED BY <1>1, <1>2, <1>3 DEF IInv, Allocated, DestroyStaysInside

(***************************************************************************)
(* Theorems                                                                *)
(***************************************************************************)
\* The inductive invariant holds in every state of every run of the library:
\* whatever is called and whichever mallocs fail, no tfs_init of a ready library
\* touches its tables, and tfs_destroy frees no more than was allocated.
THEOREM LifecycleConsistent == Spec => []IInv
<1>1. Init => IInv
  <2> SUFFICES ASSUME Init PROVE IInv
    OBVIOUS
  <2>1. \A t \in Tables : table[t] = NULL
    BY DEF Init
  <2>2. Cardinality(Allocated) = 0
    BY <2>1, NoTables
  <2> QED BY <2>1, <2>2 DEF Init, IInv, DestroyStaysInside
<1>2. IInv /\ [Next]_vars => IInv'
  <2> SUFFICES ASSUME IInv, [Next]_vars PROVE IInv'
    OBVIOUS
  <2>1. CASE UNCHANGED vars
    BY <2>1 DEF IInv, Allocated, DestroyStaysInside, vars
  <2>2. CASE \E p \in Params, got \in SUBSET Tables : tfs_init(p, got)
    BY <2>2, tfs_initStep
  <2>3. CASE tfs_destroy
    BY <2>3, tfs_destroyStep
  <2>4. CASE tfs_destroy_astray
    BY <2>4, tfs_destroy_astrayStep
  <2> QED BY <2>1, <2>2, <2>3, <2>4 DEF Next
<1> QED BY <1>1, <1>2, PTL DEF Spec

\* Only a tfs_init after one that failed for want of an inode_table loses memory.
THEOREM LostOnlyByRetryCorrect == Spec => LostOnlyByRetry
<1> DEFINE Retried == /\ answer = "failed" /\ table["inode_table"] = NULL
                      /\ \E p \in Params, got \in SUBSET Tables : tfs_init(p, got)
<1>1. IInv /\ [Next]_vars => [Lost' > Lost => Retried]_vars
  <2> SUFFICES ASSUME IInv, Next, ~Retried PROVE ~(Lost' > Lost)
    OBVIOUS
  <2>1. Lost \in Int
    <3>1. Cardinality(Allocated) \in Nat
      BY TablesCount DEF Allocated
    <3> QED BY <3>1 DEF IInv, Lost
  <2>2. ASSUME NEW p \in Params, NEW got \in SUBSET Tables, tfs_init(p, got)
        PROVE  Lost' = Lost
    <3>1. CASE table["inode_table"] # NULL
      BY <2>2, <3>1 DEF tfs_init, Lost, Allocated
    <3>2. CASE table["inode_table"] = NULL
      <4>1. answer = "none"
        BY <2>2, <3>2 DEF IInv
      <4>2. Cardinality(Allocated) = 0
        BY <4>1, NoTables DEF IInv
      <4>3. heap' = heap + Cardinality(got) /\ Allocated' = got
        BY <2>2, <3>2, tfs_initMakes
      <4>4. Cardinality(got) \in Nat /\ heap \in Nat
        BY TablesCount DEF IInv
      <4> QED BY <4>2, <4>3, <4>4 DEF Lost
    <3> QED BY <3>1, <3>2
  <2>3. CASE tfs_destroy
    BY <2>1, <2>3, tfs_destroyStep
  <2>4. CASE tfs_destroy_astray
    BY <2>1, <2>4 DEF tfs_destroy_astray, Lost, Allocated
  <2> QED BY <2>1, <2>2, <2>3, <2>4 DEF Next
<1> QED BY <1>1, LifecycleConsistent, PTL DEF Spec, LostOnlyByRetry

\* A destroyed library is initialised again by any parameters with room for the
\* root directory.
THEOREM StartsAgainCorrect == Spec => StartsAgain
<1>1. IInv /\ [Next]_vars =>
        [answer = "none" /\ RootFits(fs_params') /\ tfs_init(fs_params', Tables)
            => answer' = "ready"]_vars
  <2> SUFFICES ASSUME IInv, answer = "none", RootFits(fs_params'),
                      tfs_init(fs_params', Tables)
               PROVE  answer' = "ready"
    OBVIOUS
  <2>1. table["inode_table"] = NULL
    BY DEF IInv, Tables
  <2> QED BY <2>1 DEF Ready, tfs_init
<1> QED BY <1>1, LifecycleConsistent, PTL DEF Spec, StartsAgain

\* tfs_destroy of a library that is ready, and has refused nothing since, stays
\* inside its tables; in Projeto2 it always does.
THEOREM DestroyStaysInsideCorrect == Spec => []DestroyStaysInside
<1>1. IInv => DestroyStaysInside
  BY DEF IInv
<1> QED BY <1>1, LifecycleConsistent, PTL
=============================================================================
