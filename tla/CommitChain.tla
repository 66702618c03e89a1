---------------------------- MODULE CommitChain ----------------------------
(***************************************************************************)
(* What the Delivery Service promises the members of one MLS group: the    *)
(* accepted Commits form one chain.  The chain only grows, by one Commit   *)
(* at a time, and each new Commit was built on exactly the epoch the chain *)
(* had reached (SI-2 in src/src/lib/mls/commits.ts: at most one Commit per *)
(* epoch, so the group never forks).                                       *)
(***************************************************************************)
EXTENDS Naturals

CONSTANT Author          \* whoever may get a Commit accepted

VARIABLES height,        \* the epoch the group is in
          chain          \* chain[e]: the Commit that produced epoch e

vars == <<height, chain>>

Commit == [by : Author, on : Nat]

Init == /\ height = 0
        /\ chain = [e \in 1..0 |-> {}]

Extend(a) ==
  /\ height' = height + 1
  /\ chain' = [e \in 1..height+1 |->
                 IF e = height + 1 THEN [by |-> a, on |-> height]
                                   ELSE chain[e]]

Next == \E a \in Author : Extend(a)

Spec == Init /\ [][Next]_vars
=============================================================================
