---------------------------- MODULE MCAdjudication ----------------------------
(* TLC instances of Adjudication: one or two findings, one or two runs. *)
EXTENDS Adjudication

CONSTANTS f1, f2, r1, r2

\* Two states that differ in what was paid and sent only have the same future.
WithoutHistory == <<status, rows, logged, pins, run, starts, repins>>

Having(severity, localOnly, alwaysEscalate) ==
  [severity |-> severity, localOnly |-> localOnly, alwaysEscalate |-> alwaysEscalate]
CriticalAndLocalOnly ==
  [f \in Findings |-> IF f = f1 THEN Having("critical", FALSE, FALSE)
                                ELSE Having("low", TRUE, FALSE)]
LowAndLocalOnly ==
  [f \in Findings |-> Having("low", f # f1, FALSE)]

Hosted == [provider |-> "anthropic", model |-> "large"]
Local == [provider |-> "ollama", model |-> "small"]
ProviderNames == {"ollama", "anthropic"}
ModelNames == {"small", "large"}
LocalOnlyProviders == {"ollama"}
LocalAndHosted == {Local, Hosted}
HostedOnly == {Hosted}

Sure == [value |-> "true_positive", confident |-> TRUE, wantsMore |-> FALSE,
         unprobed |-> FALSE, hallucinated |-> FALSE]
Noise == [Sure EXCEPT !.value = "false_positive"]
Unsure == [Sure EXCEPT !.confident = FALSE]
Curious == [Sure EXCEPT !.wantsMore = TRUE]
Hallucinated == [Sure EXCEPT !.hallucinated = TRUE]
Probing == {Curious}
Every == {Sure, Noise, Unsure, Curious, Hallucinated}
===============================================================================
