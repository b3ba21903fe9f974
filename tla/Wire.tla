-------------------------------- MODULE Wire --------------------------------
(* What the client and hmstest's metastore both know: the emulated versions *)
(* and what each lacks, replies, and the names of partitions.               *)
EXTENDS Integers, Sequences

Nil     == "nil"
Version == {"2.3", "3.1", "4.0"}

Ok(v)   == [err |-> "ok", val |-> v]
Err(e)  == [err |-> e, val |-> <<>>]

\* The RPCs an emulated version does not have.
removedRPCs(v) ==
    LET reqs == {"alter_partitions_req", "get_partitions_req",
                 "get_partitions_by_names_req", "get_partition_names_ps_req"}
    IN  CASE v = "2.3" -> reqs \cup {"get_catalogs", "get_catalog",
                                     "create_catalog", "drop_catalog"}
          [] v = "3.1" -> reqs
          [] v = "4.0" -> {}

\* "k=v", for the one partition key.
partitionName(p) == <<"dt", p>>

\* The elements of s at the positions I, in order: a loop over s that appends
\* some of them to a new slice.
Taken(s, I) ==
    LET take[n \in 0 .. Len(s)] ==
            IF n = 0 THEN <<>>
            ELSE IF n \in I THEN Append(take[n - 1], s[n]) ELSE take[n - 1]
    IN  take[Len(s)]
=============================================================================
