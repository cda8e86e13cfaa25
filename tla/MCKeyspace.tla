------------------------------ MODULE MCKeyspace ------------------------------
EXTENDS Keyspace

MCKeys == {1, 2}
MCMinInt == -1
MCMaxInt == 1

AllFamilies == {"string", "counter", "bits", "hll", "list", "set", "zset", "geo", "hash",
                "hashttl", "array", "generic", "sort", "rename", "lru", "edge"} \cup Full
=============================================================================
