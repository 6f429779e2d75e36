----------------------------- MODULE MCRunTrace -----------------------------
EXTENDS RunTrace
CONSTANTS r1, o1, o2
MCOtherRuns == {o1, o2}
(* One scene about evidence and eviction, one about a watched stream that  *)
(* is disturbed, one about a watched run whose trace is evicted            *)
MCScenes == {[queries |-> 2, faults |-> 1, kinds |-> {"restart", "clear"},
              others |-> {o1, o2}, watched |-> FALSE],
             [queries |-> 1, faults |-> 1, kinds |-> {"drop", "restart", "poll"},
              others |-> {}, watched |-> TRUE],
             [queries |-> 0, faults |-> 0, kinds |-> {},
              others |-> {o1, o2}, watched |-> TRUE]}
=============================================================================
