--------------------------- MODULE ManagedConfig ---------------------------
(* What the agent promises about frpc, with no handlers, files or locks: one  *)
(* installed configuration that is replaced by a single step and only by one  *)
(* that `frpc verify` accepts, and one live configuration that only ever      *)
(* becomes the installed one or disappears.  FrpcAgent implements it.         *)
CONSTANTS
    Good,   \* the configurations `frpc verify` accepts
    None    \* no configuration: no generated file, or no frpc serving

VARIABLES installed, live
abstract == <<installed, live>>

Init == /\ installed \in Good \cup {None}
        /\ live \in {None, installed}

Install(c) == /\ installed' = c
              /\ UNCHANGED live

Activate == /\ installed # None
            /\ live' = installed
            /\ UNCHANGED installed

Lose == /\ live' = None
        /\ UNCHANGED installed

Next == Activate \/ Lose \/ \E c \in Good : Install(c)

Spec == Init /\ [][Next]_abstract
=============================================================================
