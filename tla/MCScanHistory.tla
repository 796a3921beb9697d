---------------------------- MODULE MCScanHistory ----------------------------
(* TLC instances of ScanHistory: scans from one seed list may also find a web *)
(* service that asks for a login, that does not, or that leaves no evidence.  *)
EXTENDS ScanHistory, TLC

CONSTANTS seed, web, j1, j2, noMark, nginx

JobSymmetry == Permutations({j1, j2})

SeedAndWeb == [a \in Assets |-> IF a = web THEN "http_service" ELSE "other"]

Seen(status, login, mark) == [status |-> status, login |-> login, mark |-> mark]
LoginOpenOrBlank ==
  [a \in Assets |->
     IF a # web THEN {Blank}
     ELSE {Seen("gated", FALSE, noMark), Seen("ok", FALSE, nginx), Blank}]
==============================================================================
