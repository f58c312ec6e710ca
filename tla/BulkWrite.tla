------------------------------ MODULE BulkWrite ------------------------------
(***************************************************************************)
(* Writing many rows with a few writers: the caller puts the rows into a   *)
(* channel, of the capacity of a batch, and only then waits for an error,  *)
(* for the writers to be done or for its context to be cancelled.  Each    *)
(* writer collects a batch from the channel and applies it.                *)
(***************************************************************************)
EXTENDS Naturals, FiniteSets

CONSTANTS
    RowCount,   \* the rows are numbered in the order they are put
    BatchSize,
    Writers

ASSUME RowCountAssumption == RowCount \in Nat
ASSUME BatchSizeAssumption == BatchSize \in Nat \ {0}
ASSUME WritersAssumption == Writers # {}

VARIABLES
    put, taken,  \* how many rows have been put into the channel, and taken
    batch,       \* the rows each writer has collected
    writer,
    caller,      \* what it does, or what it has returned
    cancelled,   \* the context of the writers is cancelled
    inTable

bulkVars == <<put, taken, batch, writer, caller, cancelled, inTable>>

RowNumbers == 1 .. RowCount

BulkInit ==
    /\ put = 0
    /\ taken = 0
    /\ batch = [w \in Writers |-> {}]
    /\ writer = [w \in Writers |-> "collects"]
    /\ caller = "puts"
    /\ cancelled = FALSE
    /\ inTable = {}

\* A full channel blocks the caller.
PutRow ==
    /\ caller = "puts" /\ put < RowCount
    /\ put - taken < BatchSize
    /\ put' = put + 1
    /\ UNCHANGED <<taken, batch, writer, caller, cancelled, inTable>>

CloseChannel ==
    /\ caller = "puts" /\ put = RowCount
    /\ caller' = "waits"
    /\ UNCHANGED <<put, taken, batch, writer, cancelled, inTable>>

TakeRow(w) ==
    /\ writer[w] = "collects" /\ taken < put
    /\ taken' = taken + 1
    /\ batch' = [batch EXCEPT ![w] = @ \cup {taken + 1}]
    /\ writer' = [writer EXCEPT
            ![w] = IF Cardinality(batch'[w]) = BatchSize THEN "applies" ELSE @]
    /\ UNCHANGED <<put, caller, cancelled, inTable>>

\* A row from which no mutation can be made is lost, with the batch.
MutationFails(w) ==
    /\ writer[w] = "collects" /\ taken < put
    /\ taken' = taken + 1
    /\ writer' = [writer EXCEPT ![w] = "fails"]
    /\ UNCHANGED <<put, batch, caller, cancelled, inTable>>

\* Variant: what is left when the channel is closed is not written.
LastBatchIsDropped(w) ==
    /\ writer[w] = "collects" /\ caller # "puts" /\ taken = put
    /\ writer' = [writer EXCEPT ![w] = "done"]
    /\ UNCHANGED <<put, taken, batch, caller, cancelled, inTable>>

\* The channel is closed and empty.
LastBatch(w) ==
    /\ writer[w] = "collects" /\ caller # "puts" /\ taken = put
    /\ writer' = [writer EXCEPT ![w] = IF batch[w] = {} THEN "done" ELSE "applies last"]
    /\ UNCHANGED <<put, taken, batch, caller, cancelled, inTable>>

ApplyBatch(w) ==
    /\ writer[w] \in {"applies", "applies last"}
    /\ inTable' = inTable \cup batch[w]
    /\ batch' = [batch EXCEPT ![w] = {}]
    /\ writer' = [writer EXCEPT ![w] = IF @ = "applies" THEN "collects" ELSE "done"]
    /\ UNCHANGED <<put, taken, caller, cancelled>>

\* The writer waits until its error is taken; the rows may be written or not.
ApplyFails(w) ==
    /\ writer[w] \in {"applies", "applies last"}
    /\ inTable' \in {inTable, inTable \cup batch[w]}
    /\ writer' = [writer EXCEPT ![w] = "fails"]
    /\ UNCHANGED <<put, taken, batch, caller, cancelled>>

SeeCancel(w) ==
    /\ writer[w] = "collects" /\ cancelled
    /\ writer' = [writer EXCEPT ![w] = "done"]
    /\ UNCHANGED <<put, taken, batch, caller, cancelled, inTable>>

Cancel ==
    /\ ~cancelled
    /\ cancelled' = TRUE
    /\ UNCHANGED <<put, taken, batch, writer, caller, inTable>>

TakeError(w) ==
    /\ caller = "waits" /\ writer[w] = "fails"
    /\ caller' = "error"
    /\ writer' = [writer EXCEPT ![w] = "done"]
    /\ cancelled' = TRUE
    /\ UNCHANGED <<put, taken, batch, inTable>>

CallerIsCancelled ==
    /\ caller = "waits" /\ cancelled
    /\ caller' = "error"
    /\ UNCHANGED <<put, taken, batch, writer, cancelled, inTable>>

\* The deferred cancel comes once the caller has returned.
WritersAreDone ==
    /\ caller = "waits" /\ \A w \in Writers : writer[w] = "done"
    /\ caller' = "nil"
    /\ UNCHANGED <<put, taken, batch, writer, cancelled, inTable>>

BulkNext ==
    \/ PutRow \/ CloseChannel
    \/ \E w \in Writers :
          \/ TakeRow(w) \/ MutationFails(w) \/ LastBatch(w) \/ ApplyBatch(w) \/ ApplyFails(w)
          \/ SeeCancel(w) \/ TakeError(w)
    \/ Cancel
    \/ CallerIsCancelled
    \/ WritersAreDone

BulkSpec == BulkInit /\ [][BulkNext]_bulkVars
-----------------------------------------------------------------------------
\* A bulk write that returns no error has written every row, unless it was
\* cancelled; and it is stuck only if it was cancelled, or every writer has
\* failed before the caller listens to them.
Stuck ==
    /\ caller = "puts" /\ put < RowCount /\ put - taken >= BatchSize
    /\ \A w \in Writers : writer[w] \in {"fails", "done"}

BulkWritesAreComplete ==
    /\ caller = "nil" /\ ~cancelled => RowNumbers \subseteq inTable
    /\ Stuck => cancelled \/ \A w \in Writers : writer[w] = "fails"
=============================================================================
