---------------------------- MODULE UpsertTables ----------------------------
(***************************************************************************)
(* How the collectors write what they fetched (the upserts of              *)
(* ml_collection_service.py, fundamentals_collection_service.py,           *)
(* bar_persistence_service.py, stock_list_persistence.py and               *)
(* profile_collection_service.py): a batch of records goes to a table in   *)
(* units, one transaction each, in which the records are written one by    *)
(* one; a unit may fail, and a later run writes the batch again.           *)
(***************************************************************************)
EXTENDS Integers, Sequences

CONSTANTS Ids,         \* keys of rows
          News,        \* values of a column
          MaxRecords,  \* bound on a batch
          ChunkSize,   \* _INSERT_CHUNK_SIZE
          MaxTries     \* bound on the tries

Absent == "absent"     \* there is no such row
Null == "null"         \* a column without a value
Old == "old"           \* what the table held before
Missing == "missing"   \* a record without the date or name that its key needs
Malformed == "malformed" \* a record whose date cannot be read
Partial == "partial"   \* a record without another part of its key
Unkeyed == {Missing, Malformed, Partial}

ASSUME UpsertAssumption ==
    /\ {MaxRecords, ChunkSize, MaxTries} \subseteq Nat \ {0}
    /\ Absent \notin News /\ Unkeyed \cap Ids = {}

VARIABLES op,       \* the upsert looked at
          before,   \* history: the table it found
          table,    \* the value of each key's row
          added,    \* rows without a key that would conflict
          tx,       \* the same two as the open transaction has them
          batch, next, \* its records and the first that is not written yet
          try       \* "idle", "writing", "done", "failed"; tries left; no unit failed

upVars == <<op, before, table, added, tx, batch, next, try>>

\* How an upsert writes: rows that conflict are replaced, or filled where the
\* record has a value; records per unit; whether a failed unit ends the try;
\* what becomes of records without a key or with an unreadable one.  Key columns
\* are NOT NULL, so a row without another part of its key is an error.
Writes(conflict, unit, failure, missing, malformed) ==
    [conflict |-> conflict, unit |-> unit, failure |-> failure,
     fate |-> [m \in Unkeyed |-> CASE m = Missing -> missing [] m = Malformed -> malformed
                                   [] m = Partial -> "raise"]]

\* Such a column may be NULL: the row conflicts with nothing, it is added.
Adding(w) == [w EXCEPT !.fate[Partial] = "add"]

\* One statement per record, each its own transaction, in one try block.
Each(conflict, missing, malformed) == Writes(conflict, 1, "ends", missing, malformed)
\* One transaction.
Together(malformed) == Writes("replace", MaxRecords, "ends", "skip", malformed)
\* A transaction per chunk.
Chunks(conflict, failure, fate) == Writes(conflict, ChunkSize, failure, fate, fate)

UpsertValuation == Each("fill", "raise", "raise")
UpsertInsiderSentiment == Each("replace", "raise", "raise")
\* transaction_type may be NULL.
UpsertInsiderTransactions == Adding(Each("replace", "skip", "raise"))
UpsertEarningsSurprises == Each("replace", "skip", "raise")
UpsertRecommendationTrends == Each("replace", "skip", "raise")
UpsertUpgradesDowngrades == Each("replace", "skip", "raise")
UpsertSecFinancials == Each("replace", "skip", "raise")
UpsertEarningsCalendar == Each("fill", "skip", "raise")
UpsertOptionsSentiment == Each("replace", "raise", "raise")
UpsertShortInterest == Each("replace", "raise", "raise")
UpsertEconomicIndicators == Each("replace", "skip", "raise")
UpsertMacroDaily == Each("replace", "raise", "raise")
\* symbol may be NULL; a missing or unreadable date becomes today.
UpsertCnAlternative == Adding(Each("replace", "store", "store"))
UpsertFundamental == Each("replace", "raise", "raise")
UpsertAnalystRating == Each("replace", "raise", "raise")
UpsertNorthbound == Together("raise")
UpsertInstitutionalHolders == Together("store")
UpsertFundHolding == Each("replace", "skip", "store")
UpsertBars == Chunks("replace", "ends", "skip")
SaveStockList == Chunks("fill", "ends", "store")
SaveProfilesToDb == Chunks("replace", "goes on", "store")

Upserts == {UpsertValuation, UpsertInsiderSentiment, UpsertInsiderTransactions,
            UpsertEarningsSurprises, UpsertRecommendationTrends, UpsertUpgradesDowngrades,
            UpsertSecFinancials, UpsertEarningsCalendar, UpsertOptionsSentiment,
            UpsertShortInterest, UpsertEconomicIndicators, UpsertMacroDaily,
            UpsertCnAlternative, UpsertFundamental, UpsertAnalystRating, UpsertNorthbound,
            UpsertInstitutionalHolders, UpsertFundHolding, UpsertBars, SaveStockList,
            SaveProfilesToDb}

RowKeys == Ids \union Unkeyed
Records == [key : Ids, value : News \union {Null}]
           \union [key : Unkeyed, value : {Null}]
Fate(r) == IF r.key \in Ids THEN "store" ELSE op.fate[r.key]

UpInit ==
    /\ op \in Upserts /\ \E n \in 0..MaxRecords : batch \in [1..n -> Records]
    /\ before \in [RowKeys -> {Absent, Old}] /\ \A m \in Unkeyed : before[m] = Absent
    /\ table = before /\ added = 0 /\ tx = [rows |-> before, added |-> 0]
    /\ next = 1 /\ try = [at |-> "idle", left |-> MaxTries, whole |-> TRUE]

-----------------------------------------------------------------------------
\* Mutant: a row that has a value keeps it.
KeepsOld(old, new) == IF old \in {Absent, Null} THEN new ELSE old

\* ON CONFLICT DO UPDATE SET, COALESCE(EXCLUDED.x, t.x) where rows are filled.
OnConflict(old, new) ==
    IF op.conflict = "fill" /\ new = Null /\ old # Absent THEN old ELSE new

\* The transaction after record r.
AfterRecord(r) ==
    CASE Fate(r) = "store" -> [tx EXCEPT !.rows[r.key] = OnConflict(@, r.value)]
      [] Fate(r) = "add" -> [tx EXCEPT !.added = @ + 1]
      [] Fate(r) = "skip" -> tx

TryStarts ==
    /\ try.at # "writing" /\ try.left > 0
    /\ try' = [at |-> "writing", left |-> try.left - 1, whole |-> TRUE]
    /\ next' = 1 /\ tx' = [rows |-> table, added |-> added]
    /\ UNCHANGED <<op, before, table, added, batch>>

\* The last record of a unit commits it.
RecordWritten ==
    /\ try.at = "writing" /\ next <= Len(batch) /\ Fate(batch[next]) # "raise"
    /\ tx' = AfterRecord(batch[next])
    /\ IF next % op.unit = 0 \/ next = Len(batch)
       THEN table' = tx'.rows /\ added' = tx'.added
       ELSE UNCHANGED <<table, added>>
    /\ next' = next + 1
    /\ UNCHANGED <<op, before, batch, try>>

\* The connection, the statement or a record fails, and its transaction with
\* it; the units before stay.
UnitFails ==
    /\ try.at = "writing" /\ next <= Len(batch)
    /\ tx' = [rows |-> table, added |-> added]
    /\ IF op.failure = "goes on"
       THEN /\ next' = ((next - 1) \div op.unit + 1) * op.unit + 1
            /\ try' = [try EXCEPT !.whole = FALSE]
       ELSE UNCHANGED next /\ try' = [try EXCEPT !.at = "failed"]
    /\ UNCHANGED <<op, before, table, added, batch>>

TryEnds ==
    /\ try.at = "writing" /\ next > Len(batch)
    /\ try' = [try EXCEPT !.at = IF try.whole THEN "done" ELSE "failed"]
    /\ UNCHANGED <<op, before, table, added, tx, batch, next>>

UpNext == TryStarts \/ RecordWritten \/ UnitFails \/ TryEnds

UpSpec == UpInit /\ [][UpNext]_upVars

-----------------------------------------------------------------------------
\* Record i is for the row of key k, and gives it a value: a record without
\* one leaves a filled row as it is.
IsFor(i, k) == batch[i].key = k /\ Fate(batch[i]) = "store"
Says(i, k) == IsFor(i, k) /\ ~(op.conflict = "fill" /\ batch[i].value = Null)
LastWord(i, k) == Says(i, k) /\ \A j \in DOMAIN batch : j > i => ~Says(j, k)

\* However many tries failed in the middle or were run again, a try that writes
\* its whole batch leaves each keyed row with what the last record says of it,
\* as one try on the first table would; a row of which none says anything is as
\* it was, or new and without a value.  It is about rows that can conflict: a
\* record without a part of its key that may be NULL is added by every try.
RetryConverges ==
    try.at = "done" =>
      \A k \in RowKeys :
        /\ \A i \in DOMAIN batch : LastWord(i, k) => table[k] = batch[i].value
        /\ (\A i \in DOMAIN batch : ~Says(i, k)) =>
             table[k] = IF before[k] = Absent /\ \E i \in DOMAIN batch : IsFor(i, k)
                        THEN Null ELSE before[k]
=============================================================================
