------------------------------- MODULE Retry -------------------------------
(***************************************************************************)
(* How often connect and the blocking calls of a Client try                 *)
(* (stdsc_client.cpp).                                                      *)
(***************************************************************************)
EXTENDS Integers

\* Microseconds of a second.
Second == 1000000

calc_retry_count(timeout_sec, retry_interval_usec) ==
    LET sec == retry_interval_usec \div Second
    IN  IF sec # 0 THEN timeout_sec \div sec ELSE 1

=============================================================================
