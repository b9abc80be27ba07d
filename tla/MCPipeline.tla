----------------------------- MODULE MCPipeline -----------------------------
(***************************************************************************)
(* Two targets and two workers.  One fleet goes through the configurations *)
(* at their edges; one configuration goes through the protocols.           *)
(***************************************************************************)
EXTENDS Pipeline

None == [v \in Variables |-> Unset]

One == [None EXCEPT !["WORKERS"] = 1]

\* Two workers as by default, with fewer tokens than workers, with a queue without
\* room; one worker, no semaphore, no timeout; and the values that stop the
\* process or its workers.
Configurations ==
  {None, [None EXCEPT !["MAX_CONCURRENT_PROBES"] = 1], [None EXCEPT !["QUEUE_SIZE"] = 0],
   One, [One EXCEPT !["MAX_CONCURRENT_PROBES"] = 0], [One EXCEPT !["PROBE_TIMEOUT_SECONDS"] = 0],
   [None EXCEPT !["WORKERS"] = 0],
   [None EXCEPT !["QUEUE_SIZE"] = -1], [None EXCEPT !["PROBE_INTERVAL_SECONDS"] = 0]}

Of(s, address, insecure) ==
  [scheme |-> s, addressScheme |-> address, malformed |-> FALSE, insecureSkipVerify |-> insecure]
Malformed(s) == [Of(s, "", FALSE) EXCEPT !.malformed = TRUE]

\* A target that may hang and takes its scheme from its address, and one that
\* fails at once.
SmallFleet == [t \in Targets |-> IF t = "t1" THEN Of("", "dns", FALSE) ELSE Malformed("tcp")]

\* One target of an unknown scheme beside one of each scheme, with the flag where
\* it matters, or with an address that does not parse.
Fleets ==
  LET others == {Of(s, s, FALSE) : s \in Schemes} \cup {Of(s, s, TRUE) : s \in {"https", "tls"}}
                  \cup {Malformed(s) : s \in {"http", "https", "tls"}}
  IN {[t \in Targets |-> IF t = "t1" THEN Of("ftp", "", FALSE) ELSE other] : other \in others}

MCDeployments ==
  [environ : Configurations, fleet : {SmallFleet}]
    \cup [environ : {[One EXCEPT !["MAX_CONCURRENT_PROBES"] = 1]},
           fleet : Fleets]
=============================================================================
