-------------------------------- MODULE Budget --------------------------------
(***************************************************************************)
(* What one reply may cost (internal/transport/budget.go), above the data  *)
(* phase of the SASL transport (sasl.go): the reply's bytes arrive in      *)
(* chunks, which are frames under SASL, and the protocol reads them byte   *)
(* by byte or as strings whose length is declared first.                   *)
(***************************************************************************)
EXTENDS Integers, Sequences

CONSTANTS
    MaxInt32,     \* math.MaxInt32, the longest string a length can declare
    DefaultMax,   \* DefaultMaxResponseBytes
    Limits,       \* the values of MaxResponseBytes
    MaxReply,     \* bytes of the longest reply
    MaxChunks     \* chunks that may have arrived and not been read

ASSUME BudgetAssumption ==
    /\ MaxInt32 \in Nat \ {0}
    /\ DefaultMax \in 1 .. MaxInt32
    /\ Limits \subseteq Int
    /\ MaxReply \in Nat /\ MaxChunks \in Nat

VARIABLES
    limit,        \* budgetTransport.limit
    maxString,    \* TConfiguration.MaxMessageSize
    read,         \* budgetTransport.read
    size,         \* bytes of the reply
    got,          \* bytes of it the protocol has been given
    due,          \* bytes of it that have not arrived
    wire,         \* the lengths of the chunks that have
    outcome       \* "idle", "reading", "ok" or "size" (SIZE_LIMIT)

bvars == <<limit, maxString, read, size, got, due, wire, outcome>>

\* Limits, counters and chunks have their types.
BudgetTypeOK ==
    /\ limit \in Int /\ limit > 0
    /\ maxString \in Int /\ maxString <= MaxInt32
    /\ read \in Nat
    /\ size \in 0 .. MaxReply /\ got \in 0 .. size /\ due \in 0 .. size
    /\ wire \in Seq(0 .. MaxReply)
    /\ outcome \in {"idle", "reading", "ok", "size"}

Least(a, b) == IF a <= b THEN a ELSE b

\* newBudgetTransport
LimitOf(l) == IF l <= 0 THEN DefaultMax ELSE l

MaxMessageSize(l) == Least(LimitOf(l), MaxInt32)

BudgetInit ==
    /\ \E l \in Limits : limit = LimitOf(l) /\ maxString = MaxMessageSize(l)
    /\ read = 0 /\ size = 0 /\ got = 0 /\ due = 0
    /\ wire = <<>> /\ outcome = "idle"

-----------------------------------------------------------------------------
\* Mutant: the count is not reset.
FlushKeeps(n) ==
    /\ outcome \in {"idle", "ok"}
    /\ size' = n /\ due' = n /\ got' = 0
    /\ outcome' = "reading"
    /\ UNCHANGED <<limit, maxString, read, wire>>

\* The request goes out, and the server will answer it with n bytes.
Flush(n) ==
    /\ outcome \in {"idle", "ok"}
    /\ read' = 0
    /\ size' = n /\ due' = n /\ got' = 0
    /\ outcome' = "reading"
    /\ UNCHANGED <<limit, maxString, wire>>

\* A chunk of c bytes arrives; an empty one is an empty SASL frame.
Arrives(c) ==
    /\ outcome = "reading" /\ due > 0 /\ Len(wire) < MaxChunks
    /\ c \in 0 .. due
    /\ wire' = Append(wire, c)
    /\ due' = due - c
    /\ UNCHANGED <<limit, maxString, read, size, got, outcome>>

\* saslTransport.Read passes over an empty frame.
SkipEmpty ==
    /\ outcome = "reading" /\ wire # <<>> /\ Head(wire) = 0
    /\ wire' = Tail(wire)
    /\ UNCHANGED <<limit, maxString, read, size, got, due, outcome>>

TooLarge ==
    /\ outcome' = "size"
    /\ UNCHANGED <<limit, maxString, read, size, got, due, wire>>

\* n bytes of the first chunk are handed up; after the last one the reply has
\* been decoded.
Take(n) ==
    /\ read' = read + n
    /\ got' = got + n
    /\ wire' = IF n = Head(wire) THEN Tail(wire) ELSE [wire EXCEPT ![1] = @ - n]
    /\ outcome' = IF got + n = size THEN "ok" ELSE "reading"
    /\ UNCHANGED <<limit, maxString, size, due>>

\* Read: the protocol wants k more bytes of a string.  The length is compared
\* with the configured maximum before anything is read.
Read(k) ==
    /\ outcome = "reading" /\ k <= size - got
    /\ \/ (k > maxString \/ limit - read <= 0) /\ TooLarge
       \/ /\ k <= maxString /\ limit - read > 0
          /\ wire # <<>> /\ Head(wire) > 0
          /\ Take(Least(Least(k, limit - read), Head(wire)))

ReadByte ==
    /\ outcome = "reading"
    /\ \/ read >= limit /\ TooLarge
       \/ read < limit /\ wire # <<>> /\ Head(wire) > 0 /\ Take(1)

-----------------------------------------------------------------------------
Reads == SkipEmpty \/ ReadByte \/ \E k \in 1 .. MaxInt32 : Read(k)

BudgetNext ==
    \/ \E n \in 1 .. MaxReply : Flush(n)
    \/ \E c \in 0 .. MaxReply : Arrives(c)
    \/ Reads

BudgetSpec == BudgetInit /\ [][BudgetNext]_bvars

-----------------------------------------------------------------------------
(* Properties                                                              *)

\* However a reply is cut into chunks and reads, it is handed up whole when
\* its bytes fit the limit and refused when they do not, and never more than
\* the limit is handed up of it.
BudgetExact ==
    /\ got <= limit
    /\ outcome = "ok" => got = size
    /\ outcome = "size" => size > limit
=============================================================================
