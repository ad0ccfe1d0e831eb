--------------------------- MODULE MCJobWorkflow ----------------------------
(* A finite instance of JobWorkflow. *)
EXTENDS JobWorkflow, TLC

\* Gates of JobMachine, spelt out: Patches is substituted into its instance.
MCGates == {"deposit", "balance", "mfg"}

\* A payment recorded, a payment taken back.
MCPatches ==
    {[set |-> MCGates, clear |-> {}, status |-> Keep],
     [set |-> {}, clear |-> {"mfg"}, status |-> Keep]}

\* The answers to the clients are written and never read.
Unread == <<row, log, table, hooks, def, req, pc, mem, rule, conn, updates, faults>>

Symmetry == Permutations(Clients)

=============================================================================
