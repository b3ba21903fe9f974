------------------------------ MODULE AcidStore ------------------------------
(***************************************************************************)
(* hmstest's transactions and locks (hmstest/acid.go).  A handler holds    *)
(* acidState.mu throughout, so each is one step: what it answers a request *)
(* with, and what it does to the state.                                    *)
(*                                                                         *)
(* A request has the op and what that op reads of n, txn, lock and comps;  *)
(* 0 stands for an id that is not on the wire.                             *)
(***************************************************************************)
EXTENDS Integers

VARIABLES
    nextTxn, nextLock,    \* the last ids given out
    txns,                 \* the status of each transaction not yet committed
    locks                 \* [comps, state] of each lock not yet released

avars == <<nextTxn, nextLock, txns, locks>>

NewAcidState ==
    /\ nextTxn = 0 /\ nextLock = 0
    /\ txns = <<>> /\ locks = <<>>

-----------------------------------------------------------------------------
(* Lock components: [type, level, db, table, part]                         *)

\* How many names the level compares; an unknown level is a partition's.
LockDepth(c) == CASE c.level = "DB" -> 1 [] c.level = "TABLE" -> 2 [] OTHER -> 3

LockOverlaps(a, b) ==
    LET depth == IF LockDepth(a) <= LockDepth(b) THEN LockDepth(a) ELSE LockDepth(b)
    IN  /\ a.db = b.db
        /\ depth >= 2 => a.table = b.table
        /\ depth >= 3 => a.part = b.part

\* Mutant: only a lock of the same level conflicts.
HasConflictAtLevel(c) ==
    \E i \in DOMAIN locks :
        /\ locks[i].state = "ACQUIRED"
        /\ \E x \in locks[i].comps :
              x.type = "EXCLUSIVE" /\ x.level = c.level /\ LockOverlaps(x, c)

HasExclusiveConflict(c) ==
    \E i \in DOMAIN locks :
        /\ locks[i].state = "ACQUIRED"
        /\ \E x \in locks[i].comps : x.type = "EXCLUSIVE" /\ LockOverlaps(x, c)

Conflicts(comps) == \E c \in comps : HasExclusiveConflict(c)

-----------------------------------------------------------------------------
(* Handlers                                                                *)

Reply(err, txn, lock, state) == [err |-> err, txn |-> txn, lock |-> lock, state |-> state]
Done == Reply("ok", 0, 0, "")

NumTxns(r) == IF r.n < 1 THEN 1 ELSE r.n

OpenTxns(r) ==
    /\ nextTxn' = nextTxn + NumTxns(r)
    /\ txns' = [t \in DOMAIN txns \cup nextTxn + 1 .. nextTxn + NumTxns(r) |->
                    IF t > nextTxn THEN "open" ELSE txns[t]]
    /\ UNCHANGED <<nextLock, locks>>

OpenTxnsReply(r) == Reply("ok", nextTxn + 1, 0, "")

\* Mutant: an aborted transaction can be committed.
CommitTxnReplyLax(r) ==
    IF r.txn \notin DOMAIN txns THEN Reply("NoSuchTxn", 0, 0, "") ELSE Done

CommitTxnReply(r) ==
    IF r.txn \notin DOMAIN txns THEN Reply("NoSuchTxn", 0, 0, "")
    ELSE IF txns[r.txn] = "aborted" THEN Reply("TxnAborted", 0, 0, "")
    ELSE Done

CommitTxn(r) ==
    /\ txns' = IF CommitTxnReply(r) = Done
               THEN [t \in DOMAIN txns \ {r.txn} |-> txns[t]] ELSE txns
    /\ UNCHANGED <<nextTxn, nextLock, locks>>

AbortTxnReply(r) ==
    IF r.txn \notin DOMAIN txns THEN Reply("NoSuchTxn", 0, 0, "") ELSE Done

AbortTxn(r) ==
    /\ txns' = [t \in DOMAIN txns |-> IF t = r.txn THEN "aborted" ELSE txns[t]]
    /\ UNCHANGED <<nextTxn, nextLock, locks>>

\* The transaction is looked at first.
HeartbeatReply(r) ==
    IF r.txn # 0 /\ r.txn \notin DOMAIN txns THEN Reply("NoSuchTxn", 0, 0, "")
    ELSE IF r.txn # 0 /\ txns[r.txn] = "aborted" THEN Reply("TxnAborted", 0, 0, "")
    ELSE IF r.lock # 0 /\ r.lock \notin DOMAIN locks THEN Reply("NoSuchLock", 0, 0, "")
    ELSE Done

\* A transactional request must say what each component is for.
Unset(r) == r.txn # 0 /\ \E c \in r.comps : c.for = "UNSET"

LockReply(r) ==
    IF Unset(r) THEN Reply("Internal", 0, 0, "")
    ELSE Reply("ok", 0, nextLock + 1,
               IF Conflicts(r.comps) THEN "WAITING" ELSE "ACQUIRED")

\* The whole request is granted, or the whole of it waits.
Lock(r) ==
    LET given == IF Unset(r) THEN {} ELSE {nextLock + 1}
    IN  /\ nextLock' = IF Unset(r) THEN nextLock ELSE nextLock + 1
        /\ locks' = [i \in DOMAIN locks \cup given |->
                        IF i \in given
                        THEN [comps |-> r.comps, state |-> LockReply(r).state]
                        ELSE locks[i]]
        /\ UNCHANGED <<nextTxn, txns>>

\* A lock keeps the state it was given.
CheckLockReply(r) ==
    IF r.lock \notin DOMAIN locks THEN Reply("NoSuchLock", 0, 0, "")
    ELSE Reply("ok", 0, r.lock, locks[r.lock].state)

UnlockReply(r) ==
    IF r.lock \notin DOMAIN locks THEN Reply("NoSuchLock", 0, 0, "") ELSE Done

Unlock(r) ==
    /\ locks' = [i \in DOMAIN locks \ {r.lock} |-> locks[i]]
    /\ UNCHANGED <<nextTxn, nextLock, txns>>

-----------------------------------------------------------------------------
AcidOps == {"open_txns", "commit_txn", "abort_txn", "heartbeat", "lock", "check_lock", "unlock"}

AcidReply(r) ==
    CASE r.op = "open_txns"  -> OpenTxnsReply(r)
      [] r.op = "commit_txn" -> CommitTxnReply(r)
      [] r.op = "abort_txn"  -> AbortTxnReply(r)
      [] r.op = "heartbeat"  -> HeartbeatReply(r)
      [] r.op = "lock"       -> LockReply(r)
      [] r.op = "check_lock" -> CheckLockReply(r)
      [] r.op = "unlock"     -> UnlockReply(r)

AcidStep(r) ==
    \/ r.op = "open_txns" /\ OpenTxns(r)
    \/ r.op = "commit_txn" /\ CommitTxn(r)
    \/ r.op = "abort_txn" /\ AbortTxn(r)
    \/ r.op = "lock" /\ Lock(r)
    \/ r.op = "unlock" /\ Unlock(r)
    \/ r.op \in {"heartbeat", "check_lock"} /\ UNCHANGED avars

-----------------------------------------------------------------------------
(* Properties                                                              *)

\* While a lock is held in EXCLUSIVE mode, no lock asked for later is granted
\* on anything it covers, at whatever level either of them names it.
ExclusiveExcludes ==
    \A i, j \in DOMAIN locks :
        i < j /\ locks[i].state = "ACQUIRED" /\ locks[j].state = "ACQUIRED" =>
            \A x \in locks[i].comps, y \in locks[j].comps :
                x.type = "EXCLUSIVE" => ~LockOverlaps(x, y)
=============================================================================
