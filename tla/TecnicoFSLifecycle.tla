------------------------- MODULE TecnicoFSLifecycle -------------------------
(***************************************************************************)
(* tfs_init and tfs_destroy of both projects: the parameters and the       *)
(* memory of the tables, when malloc may fail for each of them and the     *)
(* root directory may not fit.  What the calls in between do to the tables *)
(* is in the other modules, which take the sizes for constants; here a     *)
(* table is the number of its entries (of its bytes, for fs_data).         *)
(***************************************************************************)
EXTENDS Integers, FiniteSets

CONSTANTS
    Counts,         \* values of max_inode_count, max_block_count and
                    \* max_open_files_count
    BlockSizes,     \* values of block_size
    MAX_HEAP,       \* blocks of memory malloc can give out, ever
    NULL

ASSUME LifecycleAssumption ==
    /\ Counts \subseteq Nat
    /\ BlockSizes \subseteq Nat \ {0}
    /\ MAX_HEAP \in Nat
    /\ NULL \notin Nat

Params == [max_inode_count : Counts, max_block_count : Counts,
           max_open_files_count : Counts, block_size : BlockSizes]

VARIABLES
    library,        \* "Projeto1" or "Projeto2"; it does not change
    fs_params,
    table,          \* the entries of each table, or NULL
    heap,           \* blocks of memory allocated and not freed
    answer,         \* of the tfs_init that made the tables: "ready", "failed",
                    \* or "none" after tfs_destroy
    refused,        \* a tfs_init has found those tables and answered -1
    status          \* "undefined" once memory that is not a table's is used

vars == <<library, fs_params, table, heap, answer, refused, status>>

Tables == {"inode_table", "freeinode_ts", "fs_data", "free_blocks",
           "open_file_table", "free_open_file_entries"}
Allocated == {t \in Tables : table[t] # NULL}

\* What state_init asks malloc for.
Entries(p) ==
    [inode_table |-> p.max_inode_count, freeinode_ts |-> p.max_inode_count,
     fs_data |-> p.max_block_count * p.block_size,
     free_blocks |-> p.max_block_count,
     open_file_table |-> p.max_open_files_count,
     free_open_file_entries |-> p.max_open_files_count]

\* The locks of the entries of open_file_table that Projeto1 destroys (and
\* nothing in Projeto2) are all in a table.
LocksInside ==
    \/ library = "Projeto2"
    \/ fs_params.max_open_files_count = 0
    \/ /\ table["open_file_table"] # NULL
       /\ fs_params.max_open_files_count <= table["open_file_table"]

Init ==
    /\ library \in {"Projeto1", "Projeto2"}
    /\ fs_params = [max_inode_count |-> 0, max_block_count |-> 0,
                    max_open_files_count |-> 0, block_size |-> 0]
    /\ table = [t \in Tables |-> NULL]
    /\ heap = 0
    /\ answer = "none"
    /\ refused = FALSE
    /\ status = "defined"

\* inode_create(T_DIRECTORY) after state_init: the first inode and the first
\* block, if there are any, are the root directory's.
RootFits(p) == p.max_inode_count > 0 /\ p.max_block_count > 0

\* Fault variant: the open file table is not looked at.
ReadyUnchecked(p, got) == Tables \ {"open_file_table"} \subseteq got /\ RootFits(p)

\* tfs_init answers 0: every malloc has worked and the root is made.
Ready(p, got) == got = Tables /\ RootFits(p)

\* tfs_init with parameters p, given memory for the tables in got: all of them
\* are tried before the results are looked at, and none is given back.  The
\* parameters are stored first, also when inode_table is found allocated.
tfs_init(p, got) ==
    /\ status = "defined"
    /\ fs_params' = p
    /\ \/ table["inode_table"] # NULL
          /\ refused' = TRUE
          /\ UNCHANGED <<table, heap, answer>>
       \/ /\ table["inode_table"] = NULL
          /\ heap + Cardinality(got) <= MAX_HEAP
          /\ table' = [t \in Tables |-> IF t \in got THEN Entries(p)[t] ELSE NULL]
          /\ heap' = heap + Cardinality(got)
          /\ refused' = FALSE
          /\ answer' = IF Ready(p, got) THEN "ready" ELSE "failed"
    /\ UNCHANGED <<library, status>>

\* Fault variant: inode_table is forgotten.
tfs_destroy_keeping_inodes ==
    /\ status = "defined" /\ LocksInside
    /\ heap' = heap - Cardinality(Allocated \ {"inode_table"})
    /\ table' = [t \in Tables |-> IF t = "inode_table" THEN table[t] ELSE NULL]
    /\ answer' = "none"
    /\ refused' = FALSE
    /\ UNCHANGED <<library, fs_params, status>>

\* Fault variant: a failed initialisation has nothing to destroy.
tfs_destroy_ready_only ==
    /\ status = "defined" /\ LocksInside
    /\ heap' = IF answer = "ready" THEN heap - Cardinality(Allocated) ELSE heap
    /\ table' = [t \in Tables |-> NULL]
    /\ answer' = "none"
    /\ refused' = FALSE
    /\ UNCHANGED <<library, fs_params, status>>

\* tfs_destroy: the sizes stay.
tfs_destroy ==
    /\ status = "defined" /\ LocksInside
    /\ heap' = heap - Cardinality(Allocated)
    /\ table' = [t \in Tables |-> NULL]
    /\ answer' = "none"
    /\ refused' = FALSE
    /\ UNCHANGED <<library, fs_params, status>>

\* Projeto1's walk over the locks leaves the open file table.
tfs_destroy_astray ==
    /\ status = "defined" /\ ~LocksInside
    /\ status' = "undefined"
    /\ UNCHANGED <<library, fs_params, table, heap, answer, refused>>

Next ==
    \/ \E p \in Params, got \in SUBSET Tables : tfs_init(p, got)
    \/ tfs_destroy
    \/ tfs_destroy_astray

Spec == Init /\ [][Next]_vars

(***************************************************************************)
(* Properties                                                              *)
(***************************************************************************)
\* Memory that is allocated and in no variable of the library.
Lost == heap - Cardinality(Allocated)

\* Projeto1/fs/state.c:98-115, 144-156.  Whatever the order of the calls and
\* whichever mallocs fail, one call only can lose memory: a tfs_init after one
\* that failed without an inode_table, which overwrites the other tables.
\* Destroying after a failure, destroying twice and being refused lose none.
LostOnlyByRetry ==
    [][Lost' > Lost =>
          /\ answer = "failed" /\ table["inode_table"] = NULL
          /\ \E p \in Params, got \in SUBSET Tables : tfs_init(p, got)]_vars

\* state.c:101-103, 151-156.  A library that has been destroyed, whatever failed
\* or was refused before, is ready again after a tfs_init that gets its memory
\* and has room for the root directory.
StartsAgain ==
    [][answer = "none" /\ RootFits(fs_params') /\ tfs_init(fs_params', Tables)
          => answer' = "ready"]_vars

\* state.c:99, 139-143.  tfs_destroy leaves the tables only in Projeto1, and
\* there only when it is not called on a library that is ready and has refused
\* no tfs_init since: after a failure, twice in a row, or when other sizes have
\* been stored over those of the tables.
DestroyStaysInside ==
    status = "undefined" =>
        library = "Projeto1" /\ (answer # "ready" \/ refused)
=============================================================================
