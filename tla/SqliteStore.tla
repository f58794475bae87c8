----------------------------- MODULE SqliteStore ------------------------------
(***************************************************************************)
(* The manifest of one plan as pipeline/store_sqlite.py keeps it: a row of *)
(* a database and the manifest file it is projected to when a transaction  *)
(* commits.  Some writers write the file and never touch the database, so  *)
(* a read imports a file that differs from the row.  A manifest is the set *)
(* of the edits it shows.                                                  *)
(***************************************************************************)
EXTENDS Naturals

CONSTANTS
    Clients,        \* processes, each with its own connection
    NoRow,          \* the database has no row for the plan, a client no manifest
    MaxEdits,       \* bound: edits made
    MaxBreaks       \* bound: processes that die, transactions that raise

ASSUME StoreAssumption ==
    /\ NoRow \notin Clients /\ {MaxEdits, MaxBreaks} \subseteq Nat
    /\ \A d \in SUBSET (1 .. MaxEdits) : NoRow # d

VARIABLES
    shown,          \* the manifest file
    row,            \* the committed row
    txRow,          \* the row as the open transaction sees it
    txn,            \* the client with the write lock of the database, or NoRow
    clientAt,
    held,           \* the manifest a client has in its hands
    pending,        \* what a transaction is to project when it commits
    mine,           \* the edits of a client's current operation
    met,            \* history: the operation overlapped another that it does not exclude
    edits,          \* edits made so far
    saved,          \* history: edits of finished operations that overlapped no other
    undone,         \* history: edits of transactions that never committed
    breaks

clientVars == <<clientAt, held, pending, mine, met>>
storeVars == <<shown, row, txRow, txn, clientVars, edits, saved, undone, breaks>>

Edits == 1 .. MaxEdits

StoreInit ==
    /\ shown = {} /\ row = NoRow /\ txRow = NoRow /\ txn = NoRow
    /\ clientAt = [c \in Clients |-> "idle"]
    /\ held = [c \in Clients |-> NoRow]
    /\ pending = [c \in Clients |-> NoRow]
    /\ mine = [c \in Clients |-> {}]
    /\ met = [c \in Clients |-> FALSE]
    /\ edits = 0 /\ saved = {} /\ undone = {} /\ breaks = 0
-----------------------------------------------------------------------------
ClientTo(c, l) == clientAt' = [clientAt EXCEPT ![c] = l]

\* A client that has read the manifest to change it and has not finished.
Changing(c) ==
    clientAt[c] \notin {"idle", "look", "import_look"} /\ held[c] # NoRow

\* c reads d to change it: every operation in progress is met by this one.
Takes(c, d) ==
    /\ held' = [held EXCEPT ![c] = d]
    /\ met' = [x \in Clients |->
                  \/ met[x]
                  \/ x = c /\ \E y \in Clients \ {c} : Changing(y)
                  \/ x # c /\ Changing(x)]

Edit(c) ==
    /\ edits < MaxEdits /\ edits' = edits + 1
    /\ held' = [held EXCEPT ![c] = @ \cup {edits'}]
    /\ mine' = [mine EXCEPT ![c] = @ \cup {edits'}]

Finished(c) ==
    /\ ClientTo(c, "idle")
    /\ held' = [held EXCEPT ![c] = NoRow]
    /\ pending' = [pending EXCEPT ![c] = NoRow]
    /\ mine' = [mine EXCEPT ![c] = {}]
    /\ met' = [met EXCEPT ![c] = FALSE]
-----------------------------------------------------------------------------
\* transaction: BEGIN IMMEDIATE, refused while another has the write lock.
StoreBegin(c) ==
    /\ clientAt[c] = "idle" /\ txn = NoRow
    /\ txn' = c /\ txRow' = row
    /\ ClientTo(c, "open")
    /\ UNCHANGED <<shown, row, held, pending, mine, met, edits, saved, undone, breaks>>

\* _resolved_document inside a transaction.
TxnRead(c) ==
    /\ clientAt[c] = "open"
    /\ LET served == IF pending[c] = NoRow THEN shown ELSE txRow IN
           Takes(c, served) /\ txRow' = served
    /\ UNCHANGED <<shown, row, txn, clientAt, pending, mine, edits, saved, undone, breaks>>

\* Mutant of TxnSave: the file is written at once.
TxnSave_Projects(c) ==
    /\ clientAt[c] = "open" /\ held[c] # NoRow
    /\ Edit(c)
    /\ txRow' = held'[c] /\ shown' = held'[c]
    /\ pending' = [pending EXCEPT ![c] = held'[c]]
    /\ UNCHANGED <<row, txn, clientAt, met, saved, undone, breaks>>

TxnSave(c) ==
    /\ clientAt[c] = "open" /\ held[c] # NoRow
    /\ Edit(c)
    /\ txRow' = held'[c]
    /\ pending' = [pending EXCEPT ![c] = held'[c]]
    /\ UNCHANGED <<shown, row, txn, clientAt, met, saved, undone, breaks>>

Commit(c) ==
    /\ clientAt[c] = "open"
    /\ row' = txRow /\ txRow' = NoRow /\ txn' = NoRow
    /\ IF pending[c] = NoRow
       THEN Finished(c)
       ELSE ClientTo(c, "project") /\ UNCHANGED <<held, pending, mine, met>>
    /\ UNCHANGED <<shown, edits, saved, undone, breaks>>

Saves(c) == saved' = IF met[c] THEN saved ELSE saved \cup mine[c]

\* The rest of transaction's exit, after COMMIT.
Project(c) ==
    /\ clientAt[c] = "project"
    /\ shown' = pending[c]
    /\ Saves(c) /\ Finished(c)
    /\ UNCHANGED <<row, txRow, txn, edits, undone, breaks>>

\* The block raises, or its process dies: the database rolls back.
Rollback(c) ==
    /\ clientAt[c] = "open" /\ breaks < MaxBreaks
    /\ txn' = NoRow /\ txRow' = NoRow
    /\ undone' = undone \cup mine[c]
    /\ Finished(c)
    /\ breaks' = breaks + 1
    /\ UNCHANGED <<shown, row, edits, saved>>
-----------------------------------------------------------------------------
\* A read outside a transaction, to look at the manifest or to change it
\* (update_story): the file, then the row, then the import if they differ.
ReadFile(c) ==
    /\ clientAt[c] = "idle"
    /\ \/ ClientTo(c, "look") /\ held' = [held EXCEPT ![c] = shown] /\ met' = met
       \/ ClientTo(c, "read") /\ Takes(c, shown)
    /\ UNCHANGED <<shown, row, txRow, txn, pending, mine, edits, saved, undone, breaks>>

ReadRow(c) ==
    /\ clientAt[c] \in {"look", "read"}
    /\ CASE held[c] # row -> ClientTo(c, IF clientAt[c] = "look" THEN "import_look" ELSE "import")
                             /\ UNCHANGED <<held, pending, mine, met>>
         [] held[c] = row /\ clientAt[c] = "look" -> Finished(c)
         [] held[c] = row /\ clientAt[c] = "read" ->
                ClientTo(c, "served") /\ UNCHANGED <<held, pending, mine, met>>
    /\ UNCHANGED <<shown, row, txRow, txn, edits, saved, undone, breaks>>

\* _import_row: given up when the database stays locked.
Import(c) ==
    /\ clientAt[c] \in {"import", "import_look"}
    /\ row' = IF txn = NoRow THEN held[c] ELSE row
    /\ IF clientAt[c] = "import_look"
       THEN Finished(c)
       ELSE ClientTo(c, "served") /\ UNCHANGED <<held, pending, mine, met>>
    /\ UNCHANGED <<shown, txRow, txn, edits, saved, undone, breaks>>

\* save_manifest with no transaction open: the row is written at once, or the
\* save raises because another client has the write lock.
SaveDirectly(c) ==
    /\ clientAt[c] = "served"
    /\ \/ /\ txn = NoRow
          /\ Edit(c) /\ row' = held'[c]
          /\ ClientTo(c, "direct")
          /\ UNCHANGED <<pending, met>>
       \/ Finished(c) /\ UNCHANGED <<row, edits>>
    /\ UNCHANGED <<shown, txRow, txn, saved, undone, breaks>>

\* A writer that knows only the file reads it here and replaces it later, or
\* finds nothing to change.
TakeFile(c) ==
    /\ clientAt[c] = "idle"
    /\ Takes(c, shown) /\ ClientTo(c, "outside")
    /\ UNCHANGED <<shown, row, txRow, txn, pending, mine, edits, saved, undone, breaks>>

EditFile(c) ==
    /\ clientAt[c] = "outside"
    /\ \/ Edit(c) /\ ClientTo(c, "direct") /\ UNCHANGED <<pending, met>>
       \/ Finished(c) /\ UNCHANGED edits
    /\ UNCHANGED <<shown, row, txRow, txn, saved, undone, breaks>>

ReplaceFile(c) ==
    /\ clientAt[c] = "direct"
    /\ shown' = held[c]
    /\ Saves(c) /\ Finished(c)
    /\ UNCHANGED <<row, txRow, txn, edits, undone, breaks>>

\* Outside a transaction a death leaves what was written: a row, then, that
\* no file shows.
ClientDies(c) ==
    /\ clientAt[c] \notin {"idle", "open"} /\ breaks < MaxBreaks
    /\ Finished(c) /\ breaks' = breaks + 1
    /\ UNCHANGED <<shown, row, txRow, txn, edits, saved, undone>>
-----------------------------------------------------------------------------
Reads(c) == ReadRow(c) \/ Import(c)
Writes(c) == SaveDirectly(c) \/ ReplaceFile(c) \/ Project(c) \/ Commit(c)

StoreNext ==
    \E c \in Clients :
        \/ StoreBegin(c) \/ TxnRead(c) \/ TxnSave(c) \/ Rollback(c)
        \/ ReadFile(c) \/ TakeFile(c) \/ EditFile(c) \/ ClientDies(c)
        \/ Reads(c) \/ Writes(c)
-----------------------------------------------------------------------------
StoreTypeOK ==
    LET Documents == SUBSET Edits IN
    /\ shown \in Documents
    /\ {row, txRow} \subseteq Documents \cup {NoRow}
    /\ txn \in Clients \cup {NoRow}
    /\ clientAt \in [Clients -> {"idle", "open", "project", "look", "read", "import",
                                 "import_look", "served", "outside", "direct"}]
    /\ held \in [Clients -> Documents \cup {NoRow}]
    /\ pending \in [Clients -> Documents \cup {NoRow}]
    /\ mine \in [Clients -> Documents]
    /\ met \in [Clients -> BOOLEAN]
    /\ edits \in 0 .. MaxEdits
    /\ saved \cup undone \subseteq Edits
    /\ breaks \in 0 .. MaxBreaks

(***************************************************************************)
(* What the two records promise together.  An edit whose save finished     *)
(* stays in the manifest that is served, whichever way it was written,     *)
(* unless its operation overlapped another one that the database does not  *)
(* keep apart from it (a transaction that is still being projected, a      *)
(* direct save, a writer of the file); a transaction that never committed  *)
(* leaves no trace in either record; and a transaction reads what it saved *)
(* itself (SqliteStore._resolved_document and transaction).                *)
(***************************************************************************)
ServesWhatWasSaved ==
    /\ saved \subseteq shown
    /\ undone \cap (shown \cup (IF row = NoRow THEN {} ELSE row)) = {}
    /\ \A c \in Clients : held[c] # NoRow => mine[c] \subseteq held[c]
=============================================================================
