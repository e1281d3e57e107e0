---------------------------- MODULE MCAwareness -----------------------------
(* Who exchanges presence tables with whom, and how often each publishes. *)
EXTENDS Awareness

\* Peers 1 and 3 only meet peer 2.
Chain == { << 1, 2 >>, << 2, 1 >>, << 2, 3 >>, << 3, 2 >> }

\* The peer in the middle only passes states on.
Ends == << 2, 0, 2 >>
=============================================================================
