---------------------------- MODULE MCBufferedIO ----------------------------
EXTENDS BufferedIO

CONSTANTS x, y, t1, t2

\* A BufferedRandom over a file, a BufferedReader over a file and over a pipe,
\* the latter shared by two threads, and a BufferedWriter over a pipe.
Kinds ==
  {[readable |-> TRUE, writable |-> TRUE, seekable |-> TRUE, nonblocking |-> FALSE, faulty |-> FALSE,
    threads |-> {t1},
    methods |-> {"read", "readall", "readinto", "read1", "peek", "write", "flush",
                 "seek", "tell", "truncate"}],
   [readable |-> TRUE, writable |-> FALSE, seekable |-> TRUE, nonblocking |-> FALSE, faulty |-> FALSE,
    threads |-> {t1},
    methods |-> {"read", "readall", "readinto", "read1", "peek", "seek", "tell"}],
   [readable |-> TRUE, writable |-> FALSE, seekable |-> FALSE, nonblocking |-> TRUE, faulty |-> TRUE,
    threads |-> {t1},
    methods |-> {"read", "readall", "readinto", "read1", "peek"}],
   [readable |-> TRUE, writable |-> FALSE, seekable |-> FALSE, nonblocking |-> TRUE, faulty |-> TRUE,
    threads |-> {t1, t2},
    methods |-> {"read"}],
   [readable |-> FALSE, writable |-> TRUE, seekable |-> FALSE, nonblocking |-> TRUE, faulty |-> TRUE,
    threads |-> {t1},
    methods |-> {"write", "flush"}]}

Some == {<<y>>, <<x, y>>, <<y, x, x>>}
=============================================================================
