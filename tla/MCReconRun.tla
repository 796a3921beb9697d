------------------------------ MODULE MCReconRun ------------------------------
(* TLC instances of ReconRun: adapters of two stages over a handful of hosts. *)
EXTENDS ReconRun

CONSTANTS dns, ct, probe, home, sub, range, outside

\* Two passive adapters of the first stage, then an active one.
Stages == [a \in Adapters |-> IF a = probe THEN 2 ELSE 1]
DomainsThenAll == [a \in Adapters |-> IF a = probe THEN Assets ELSE {home}]
===============================================================================
